----------------------------- MODULE PciProofs -----------------------------
(***************************************************************************)
(* Proofs about modules Pci and Mcfg.  While the scan rewrites the windows *)
(* it depends on, every descriptor keeps naming its function, and no base  *)
(* address register is decoded with a probe in it; when it is over, every  *)
(* function has been found once and its registers read as they are.        *)
(* Whatever tables firmware leaves, the regions taken from them are        *)
(* disjoint.                                                               *)
(***************************************************************************)
EXTENDS PciInit, FiniteSetTheorems, SequenceTheorems, TLAPS

(* Between the two writes a number has been given that no window has yet.  *)
InProgress == scan # <<>> /\ Now.step \in {"secondary", "open"}
Limit == NextBusNumber - (IF InProgress THEN 1 ELSE 0)

(* The window of a bridge, and the frames there are by their step.         *)
Sec(b) == window[b].secondary
Sub(b) == window[b].subordinate

Quiet == {"boot", "function", "end"}
Reading == {"decode off", "probe", "low", "probe high", "high"}
Begin == {"bridge", "secondary", "open"}
Steps == Quiet \cup Reading \cup Begin \cup {"close"}
FrameType == [behind : DOMAIN machine \cup {Root}, number : Nat, slot : 0 .. SlotCount,
              func : 0 .. (FuncCount - 1), multi : BOOLEAN, step : Steps, secondary : Nat]

(* Types.                                                                  *)
PciTypeOK ==
  /\ machine \in Machines
  /\ window \in [Bridges -> [primary : Nat, secondary : Nat, subordinate : Nat]]
  /\ NextBusNumber \in Nat /\ pool \in Nat
  /\ scan \in Seq(FrameType)
  /\ \A d \in found :
       d = [number |-> d.number, slot |-> d.slot, func |-> d.func, fn |-> d.fn,
            bases |-> d.bases, read |-> d.read]

(* The frame is at the function, or has it still ahead on its bus.         *)
At(t, f) == Wire(f) = t.behind /\ machine[f].slot = t.slot /\ machine[f].func = t.func
Ahead(t, f) ==
  /\ Wire(f) = t.behind
  /\ machine[f].slot > t.slot \/ (machine[f].slot = t.slot /\ machine[f].func >= t.func)

Parents(B) == B \cup {Root}

(* B has the bridges with a window.  Their numbers are those given out, a  *)
(* window lies inside of the one above, and two on one wire do not meet.   *)
Numbered(B) ==
  /\ B \subseteq Bridges
  /\ Limit = Cardinality(B) + 1
  /\ \A b \in B : /\ 0 < Sec(b) /\ Sec(b) < Limit /\ Sec(b) <= Sub(b) /\ Sub(b) < BusCount
                  /\ Wire(b) \in Parents(B)
                  /\ Wire(b) # Root => Sec(Wire(b)) < Sec(b) /\ Sub(b) <= Sub(Wire(b))
  /\ \A b, c \in B : b # c =>
       /\ Sec(b) # Sec(c)
       /\ Wire(b) = Wire(c) => Sub(b) < Sec(c) \/ Sub(c) < Sec(b)

(* The others: the window is shut, or firmware's numbers lie beyond the    *)
(* ones given out, but for the bridge whose own number is already written. *)
Opening(u) == scan # <<>> /\ Now.step = "open" /\ At(Now, u)
Unbegun(B) ==
  \A u \in Bridges \ B :
    /\ Opening(u) => Sec(u) = Limit
    /\ IF Unnumbered(machine) THEN Sub(u) = 0
       ELSE machine[u].secondary >= Limit /\ (Opening(u) \/ Sec(u) = machine[u].secondary)

(* A frame: on a bus that has a number, at a place where there is a        *)
(* function while it is dealt with, and past all of the bridges of its bus *)
(* that have a window, but for the one it waits at.                        *)
Numbers(B, x) == IF x = Root THEN 0 ELSE Sec(x)

Positioned(B, t) ==
  /\ t.behind \in Parents(B) /\ t.number = Numbers(B, t.behind)
  /\ t.step = "end" => t.slot = SlotCount
  /\ t.step # "end" => t.slot < SlotCount
  /\ t.step \notin Quiet =>
       \E f \in DOMAIN machine :
         /\ At(t, f) /\ (t.func = 0 => t.multi = machine[f].multi)
         /\ t.step \in Begin => f \in Bridges
         /\ t.step = "close" => f \in B /\ Sub(f) = BusCount - 1
  /\ \A b \in B : Ahead(t, b) => t.step = "close" /\ At(t, b)
  /\ t.step = "boot" => B = {}
  /\ t.step \in {"secondary", "open"} => t.secondary = Limit

(* The stack: each frame is of the bus behind the bridge at which the next *)
(* one waits, and only those bridges' windows are open to the end.         *)
Chained(B) ==
  /\ \A i \in 1 .. Len(scan) : Positioned(B, scan[i])
  /\ \A i \in 1 .. Len(scan) : scan[i].behind = Root <=> i = Len(scan)
  /\ \A i \in 2 .. Len(scan) : scan[i].step = "close" /\ At(scan[i], scan[i - 1].behind)
  /\ \A i, j \in 1 .. Len(scan) : i < j =>
       /\ scan[j].number < scan[i].number
       /\ j < Len(scan) => Within(machine, scan[i].behind, scan[j].behind)
  /\ \A b \in B : Sub(b) < Limit \/ \E i \in 1 .. Len(scan) :
                                       scan[i].step = "close" /\ At(scan[i], b)

(* As long as there are descriptors no bridge is missed.                   *)
Covered(B) ==
  pool > 0 \/ InProgress =>
    \A u \in Bridges \ B : Wire(u) \in Parents(B) =>
      \E i \in 1 .. Len(scan) : Ahead(scan[i], u)

(* A descriptor has the place of its function.                             *)
Descriptors(B) ==
  \A d \in found :
    /\ d.fn \in DOMAIN machine
    /\ d.slot = machine[d.fn].slot /\ d.func = machine[d.fn].func
    /\ Wire(d.fn) \in Parents(B) /\ d.number = Numbers(B, Wire(d.fn))

Known(B) ==
  /\ PciTypeOK /\ Numbered(B) /\ Unbegun(B)
  /\ Chained(B) /\ Covered(B) /\ Descriptors(B)
ScanInv == \E B \in SUBSET Bridges : Known(B)

(* The facts about a machine the proofs use.                               *)
LEMMA MachineFacts ==
  ASSUME NEW m \in Machines
  PROVE  /\ BridgesOf(m) \subseteq DOMAIN m /\ IsFiniteSet(BridgesOf(m))
         /\ Cardinality(BridgesOf(m)) \in Nat /\ Cardinality(BridgesOf(m)) < BusCount
         /\ Root \notin DOMAIN m
         /\ \A f \in DOMAIN m :
              /\ m[f].wire \in BridgesOf(m) \cup {Root}
              /\ m[f].slot \in 0 .. (SlotCount - 1) /\ m[f].func \in 0 .. (FuncCount - 1)
              /\ m[f].multi \in BOOLEAN /\ m[f].bridge \in BOOLEAN
              /\ m[f].primary \in Nat /\ m[f].secondary \in Nat /\ m[f].subordinate \in Nat
<1>1. m \in [DOMAIN m -> Function] /\ IsFiniteSet(DOMAIN m)
  BY PciAssumption
<1>2. BridgesOf(m) \subseteq DOMAIN m
  BY DEF BridgesOf
<1>3. IsFiniteSet(BridgesOf(m))
  BY <1>1, <1>2, FS_Subset
<1>4. Cardinality(BridgesOf(m)) \in Nat
  BY <1>3, FS_CardinalityType
<1>5. ASSUME NEW f \in DOMAIN m PROVE m[f] \in Function
  BY <1>1
<1> QED BY <1>2, <1>3, <1>4, <1>5, BusAssumption, NumberAssumption DEF Function

(* A bridge lies within itself.                                            *)
LEMMA WithinItself ==
  ASSUME NEW m \in Machines, NEW c \in BridgesOf(m)
  PROVE  Within(m, c, c)
BY DEF Within

(* What lies behind the bridge above lies behind that one's bridges, and   *)
(* the other way round.                                                    *)
LEMMA WithinUp ==
  ASSUME NEW m \in Machines, NEW c \in BridgesOf(m), NEW b,
         m[c].wire \in BridgesOf(m), Within(m, m[c].wire, b)
  PROVE  Within(m, c, b)
BY DEF Within

LEMMA WithinDown ==
  ASSUME NEW m \in Machines, NEW c \in BridgesOf(m), NEW b, Within(m, c, b), c # b
  PROVE  m[c].wire \in BridgesOf(m) /\ Within(m, m[c].wire, b)
<1> DEFINE p == m[c].wire
           S == {c} \cup {y \in BridgesOf(m) : p \in BridgesOf(m) /\ Within(m, p, y)}
<1>1. ASSUME NEW x \in S, m[x].wire \in BridgesOf(m)
      PROVE  m[x].wire \in S
  <2>1. CASE x = c
    BY <2>1, <1>1, WithinItself
  <2>2. CASE x # c
    BY <2>2, <1>1 DEF Within
  <2> QED BY <2>1, <2>2
<1>2. S \in SUBSET BridgesOf(m) /\ c \in S
  OBVIOUS
<1>3. b \in S
  BY <1>1, <1>2 DEF Within
<1> QED BY <1>3

(* What a bridge is within is a bridge, and within is transitive one step  *)
(* at a time.                                                              *)
LEMMA WithinNext ==
  ASSUME NEW m \in Machines, NEW c \in BridgesOf(m), NEW x \in BridgesOf(m),
         Within(m, c, x), m[x].wire \in BridgesOf(m)
  PROVE  Within(m, c, m[x].wire)
BY DEF Within

-----------------------------------------------------------------------------
(* The recursion of Crosses ends at the root: the cycle comes to the wire  *)
(* of a bridge when every bridge above hands it on.                        *)
LEMMA CrossesEquation ==
  ASSUME machine \in Machines, NEW n, NEW b \in Bridges
  PROVE  Crosses(n)[b] = (Wire(b) = Root \/ (HandsOn(Wire(b), n) /\ Crosses(n)[Wire(b)]))
<1> DEFINE F(c) == [x \in Bridges |-> Wire(x) = Root \/ (HandsOn(Wire(x), n) /\ c[Wire(x)])]
           w == [x \in Bridges |->
                   \A a \in Bridges : Wire(x) \in Bridges /\ Within(machine, Wire(x), a)
                                        => HandsOn(a, n)]
<1>1. ASSUME NEW x \in Bridges
      PROVE  w[x] = (Wire(x) = Root \/ (HandsOn(Wire(x), n) /\ w[Wire(x)]))
  <2>1. Root \notin Bridges /\ Wire(x) \in Bridges \cup {Root}
    BY MachineFacts DEF Bridges, Wire
  <2>2. CASE Wire(x) = Root
    BY <2>1, <2>2
  <2>3. CASE Wire(x) \in Bridges
    <3> DEFINE p == Wire(x)
    <3>1. ASSUME NEW a \in Bridges
          PROVE  Within(machine, p, a) <=>
                   a = p \/ (Wire(p) \in Bridges /\ Within(machine, Wire(p), a))
      BY <2>3, WithinItself, WithinUp, WithinDown DEF Bridges, Wire
    <3>2. w[p] = \A a \in Bridges : Wire(p) \in Bridges /\ Within(machine, Wire(p), a)
                                        => HandsOn(a, n)
      BY <2>3
    <3>3. w[x] = \A a \in Bridges : Within(machine, p, a) => HandsOn(a, n)
      BY <2>3
    <3> QED BY <2>1, <2>3, <3>1, <3>2, <3>3 DEF HandsOn
  <2> QED BY <2>1, <2>2, <2>3
<1>2. w = F(w)
  BY <1>1
<1>3. Crosses(n) = F(Crosses(n))
  BY <1>2 DEF Crosses
<1> QED BY <1>3

-----------------------------------------------------------------------------
(* What the invariant of the numbers says of cycles.                       *)
Told(B) == PciTypeOK /\ Numbered(B) /\ Unbegun(B)

(* The window registers and the numbers given out, as the invariant has    *)
(* them.                                                                   *)
LEMMA WindowTyped ==
  ASSUME PciTypeOK, NEW b \in Bridges
  PROVE  Sec(b) \in Nat /\ Sub(b) \in Nat
BY DEF PciTypeOK, Sec, Sub

(* The numbers given out are fewer than there are bus numbers.             *)
LEMMA LimitTyped ==
  ASSUME PciTypeOK, NEW B, Numbered(B)
  PROVE  /\ IsFiniteSet(B) /\ Cardinality(B) \in Nat /\ Limit \in Nat \ {0}
         /\ Limit <= BusCount /\ BusCount \in Nat \ {0}
         /\ NextBusNumber = Limit + (IF InProgress THEN 1 ELSE 0)
<1>1. machine \in Machines /\ B \subseteq Bridges /\ Limit = Cardinality(B) + 1
  BY DEF PciTypeOK, Numbered
<1>2. /\ IsFiniteSet(Bridges) /\ Cardinality(Bridges) \in Nat
      /\ Cardinality(Bridges) < BusCount /\ BusCount \in Nat \ {0}
  BY <1>1, MachineFacts, PciAssumption DEF Bridges
<1>3. IsFiniteSet(B) /\ Cardinality(B) <= Cardinality(Bridges)
  BY <1>1, <1>2, FS_Subset
<1>4. Cardinality(B) \in Nat
  BY <1>3, FS_CardinalityType
<1>5. NextBusNumber \in Nat
  BY DEF PciTypeOK
<1> QED BY <1>1, <1>2, <1>3, <1>4, <1>5 DEF Limit

(* A bridge that has not been reached takes no cycle for a bus that has a  *)
(* number.                                                                 *)
LEMMA UnbegunTakesNone ==
  ASSUME NEW B, Told(B), NEW u \in Bridges \ B, NEW n \in Nat, 0 < n, n < Limit
  PROVE  ~(Sec(u) <= n /\ n <= Sub(u))
<1>1. Sec(u) \in Nat /\ Sub(u) \in Nat /\ Limit \in Nat
  BY WindowTyped, LimitTyped DEF Told
<1>2. IF Unnumbered(machine) THEN Sub(u) = 0 ELSE Sec(u) >= Limit
  BY <1>1 DEF Told, Unbegun
<1> QED BY <1>1, <1>2

(* A cycle for a bus in the window of a bridge comes to the bridge.        *)
LEMMA WindowCrossed ==
  ASSUME NEW B, Told(B), NEW b \in B, NEW n \in Nat, Sec(b) <= n, n <= Sub(b)
  PROVE  Crosses(n)[b]
<1> DEFINE S == {x \in B : Sec(x) <= n /\ n <= Sub(x) /\ ~Crosses(n)[x]}
<1>1. machine \in Machines /\ B \subseteq Bridges
  BY DEF Told, PciTypeOK, Numbered
<1>2. ASSUME NEW x \in S PROVE Wire(x) \in S
  <2>1. x \in B /\ Sec(x) <= n /\ n <= Sub(x) /\ ~Crosses(n)[x]
    OBVIOUS
  <2>2. Wire(x) # Root /\ ~(HandsOn(Wire(x), n) /\ Crosses(n)[Wire(x)])
    BY <1>1, <2>1, CrossesEquation
  <2>3. Wire(x) \in B /\ Sec(Wire(x)) < Sec(x) /\ Sub(x) <= Sub(Wire(x))
    BY <2>1, <2>2 DEF Told, Numbered, Parents
  <2>4. {Sec(x), Sub(x), Sec(Wire(x)), Sub(Wire(x))} \subseteq Nat
    BY <1>1, <2>1, <2>3, WindowTyped DEF Told
  <2>5. Sec(Wire(x)) < n /\ n <= Sub(Wire(x))
    BY <2>1, <2>3, <2>4
  <2>6. HandsOn(Wire(x), n)
    BY <2>5 DEF HandsOn, Sec, Sub
  <2> QED BY <2>2, <2>3, <2>4, <2>5, <2>6
<1>3. S = {}
  <2>1. S \in SUBSET BridgesOf(machine)
    BY <1>1 DEF Bridges
  <2> QED BY <1>1, <1>2, <2>1, BusAssumption DEF Wire
<1> QED BY <1>3

(* A number names the wire of the bridge it was given to, and no other.    *)
LEMMA NumberNamesWire ==
  ASSUME NEW B, Told(B), NEW x \in Parents(B)
  PROVE  /\ Numbers(B, x) \in 0 .. (Limit - 1)
         /\ WiresOf(Numbers(B, x) % BusCount) = {x}
<1>1. machine \in Machines /\ B \subseteq Bridges
  BY DEF Told, PciTypeOK, Numbered
<1>2. Limit \in Nat \ {0} /\ Limit <= BusCount /\ BusCount \in Nat \ {0}
  BY LimitTyped DEF Told
<1>3. Root \notin Bridges
  BY <1>1, MachineFacts DEF Bridges
<1>4. CASE x = Root
  BY <1>2, <1>4 DEF Numbers, WiresOf
<1>5. CASE x # Root
  <2> DEFINE n == Sec(x)
  <2>1. x \in B /\ Numbers(B, x) = n
    BY <1>5 DEF Parents, Numbers
  <2>2. n \in Nat /\ 0 < n /\ n < Limit /\ Sub(x) \in Nat /\ n <= Sub(x)
    BY <1>1, <2>1, WindowTyped DEF Told, Numbered
  <2>3. n % BusCount = n
    BY <1>2, <2>2
  <2>4. Crosses(n)[x]
    BY <2>1, <2>2, WindowCrossed
  <2>5. ASSUME NEW y \in Bridges, Sec(y) = n, n <= Sub(y) PROVE y = x
    <3>1. y \in B
      BY <2>2, <2>5, UnbegunTakesNone
    <3> QED BY <2>1, <2>5, <3>1 DEF Told, Numbered
  <2>6. WiresOf(n) = {x}
    BY <1>1, <2>1, <2>2, <2>4, <2>5 DEF WiresOf, Sec, Sub
  <2> QED BY <1>2, <2>1, <2>2, <2>3, <2>6
<1> QED BY <1>4, <1>5

(* Who answers is who is there.                                            *)
LEMMA AnswersAt ==
  ASSUME NEW B, Told(B), NEW x \in Parents(B), NEW slot \in 0 .. (SlotCount - 1),
         NEW func \in 0 .. (FuncCount - 1)
  PROVE  Answers(Numbers(B, x), slot, func) =
           {f \in DOMAIN machine : /\ Wire(f) = x /\ machine[f].slot = slot
                                   /\ machine[f].func = func}
<1>1. SlotCount \in Nat \ {0} /\ FuncCount \in Nat \ {0}
  BY PciAssumption
<1>2. slot % SlotCount = slot
  BY <1>1
<1>3. func % FuncCount = func
  BY <1>1
<1> QED BY <1>2, <1>3, NumberNamesWire DEF Answers

(* Of the bridges on one wire at most one takes a cycle that has a number. *)
LEMMA OneTakes ==
  ASSUME NEW B, Told(B), NEW x \in Parents(B), Numbers(B, x) # 0
  PROVE  OneTaker(Numbers(B, x))
<1> DEFINE n == Numbers(B, x)
<1>1. B \subseteq Bridges /\ Limit \in Nat
  BY LimitTyped DEF Told, Numbered
<1>2. n \in Nat /\ 0 < n /\ n < Limit
  BY <1>1, NumberNamesWire
<1> SUFFICES ASSUME NEW b \in Bridges, NEW c \in Bridges, Wire(b) = Wire(c),
                    n \in window[b].secondary .. window[b].subordinate,
                    n \in window[c].secondary .. window[c].subordinate
             PROVE  b = c
  BY DEF OneTaker
<1>3. {Sec(b), Sub(b), Sec(c), Sub(c)} \subseteq Nat
  BY WindowTyped DEF Told
<1>4. Sec(b) <= n /\ n <= Sub(b) /\ Sec(c) <= n /\ n <= Sub(c)
  BY <1>2, <1>3 DEF Sec, Sub
<1>5. b \in B /\ c \in B
  BY <1>2, <1>4, UnbegunTakesNone
<1> HIDE DEF n
<1> QED BY <1>2, <1>3, <1>4, <1>5 DEF Told, Numbered

-----------------------------------------------------------------------------
(* The frames of the scan.                                                 *)
LEMMA FramesTyped ==
  ASSUME PciTypeOK, scan # <<>>
  PROVE  /\ Now \in FrameType /\ Now = scan[1] /\ 1 \in 1 .. Len(scan)
         /\ Len(scan) \in Nat
         /\ \A i \in 1 .. Len(scan) : scan[i] \in FrameType
<1>1. scan \in Seq(FrameType)
  BY DEF PciTypeOK
<1>2. Len(scan) \in Nat /\ Len(scan) > 0 /\ \A i \in 1 .. Len(scan) : scan[i] \in FrameType
  BY <1>1
<1>3. Now = scan[1]
  BY <1>1 DEF Now
<1> QED BY <1>2, <1>3

(* What the stack of frames is when its top is replaced, another frame is  *)
(* put on it, or it is taken off.                                          *)
LEMMA TopReplaced ==
  ASSUME PciTypeOK, scan # <<>>, NEW t \in FrameType, NEW s, s = <<t>> \o Tail(scan)
  PROVE  /\ s \in Seq(FrameType) /\ Len(s) = Len(scan) /\ s # <<>> /\ Head(s) = t
         /\ s[1] = t /\ \A i \in 2 .. Len(scan) : s[i] = scan[i]
<1>1. scan \in Seq(FrameType)
  BY DEF PciTypeOK
<1>2. Len(scan) \in Nat /\ Len(scan) > 0 /\ Tail(scan) \in Seq(FrameType)
      /\ Len(Tail(scan)) = Len(scan) - 1
      /\ \A i \in 1 .. Len(Tail(scan)) : Tail(scan)[i] = scan[i + 1]
  BY <1>1, HeadTailProperties
<1>3. <<t>> \in Seq(FrameType) /\ Len(<<t>>) = 1 /\ <<t>>[1] = t
  OBVIOUS
<1>4. s \in Seq(FrameType) /\ Len(s) = 1 + Len(Tail(scan))
      /\ \A i \in 1 .. Len(s) : s[i] = IF i <= 1 THEN <<t>>[i] ELSE Tail(scan)[i - 1]
  BY <1>2, <1>3, ConcatProperties
<1> QED BY <1>2, <1>3, <1>4

LEMMA TopPushed ==
  ASSUME PciTypeOK, scan # <<>>, NEW p \in FrameType, NEW t \in FrameType,
         scan' = <<p, t>> \o Tail(scan)
  PROVE  /\ scan' \in Seq(FrameType) /\ Len(scan') = Len(scan) + 1 /\ scan' # <<>>
         /\ Now' = p /\ scan'[1] = p /\ scan'[2] = t
         /\ \A i \in 2 .. Len(scan) : scan'[i + 1] = scan[i]
<1>1. scan \in Seq(FrameType)
  BY DEF PciTypeOK
<1>2. Len(scan) \in Nat /\ Len(scan) > 0 /\ Tail(scan) \in Seq(FrameType)
      /\ Len(Tail(scan)) = Len(scan) - 1
      /\ \A i \in 1 .. Len(Tail(scan)) : Tail(scan)[i] = scan[i + 1]
  BY <1>1, HeadTailProperties
<1>3. <<p, t>> \in Seq(FrameType) /\ Len(<<p, t>>) = 2 /\ <<p, t>>[1] = p /\ <<p, t>>[2] = t
  OBVIOUS
<1>4. PICK s : s = scan'
  OBVIOUS
<1>5. s \in Seq(FrameType) /\ Len(s) = 2 + Len(Tail(scan))
      /\ \A i \in 1 .. Len(s) : s[i] = IF i <= 2 THEN <<p, t>>[i] ELSE Tail(scan)[i - 2]
  BY <1>2, <1>3, <1>4, ConcatProperties
<1>6. ASSUME NEW i \in 2 .. Len(scan) PROVE s[i + 1] = scan[i]
  <2>1. /\ i + 1 \in 1 .. Len(s) /\ i - 1 \in 1 .. Len(Tail(scan)) /\ ~(i + 1 <= 2)
        /\ (i + 1) - 2 = i - 1 /\ (i - 1) + 1 = i
    BY <1>2, <1>5
  <2> QED BY <1>2, <1>5, <2>1
<1>7. s[1] = p /\ s[2] = t
  BY <1>2, <1>3, <1>5
<1>8. s # <<>> /\ Head(s) = p
  BY <1>2, <1>5, <1>7
<1> QED BY <1>2, <1>4, <1>5, <1>6, <1>7, <1>8 DEF Now

LEMMA TopPopped ==
  ASSUME PciTypeOK, scan # <<>>
  PROVE  /\ Tail(scan) \in Seq(FrameType) /\ Len(Tail(scan)) = Len(scan) - 1
         /\ \A i \in 1 .. (Len(scan) - 1) : Tail(scan)[i] = scan[i + 1]
BY HeadTailProperties DEF PciTypeOK

(* A place has one function.                                               *)
LEMMA OneAt ==
  ASSUME PciTypeOK, NEW t, NEW f \in DOMAIN machine, NEW g \in DOMAIN machine,
         At(t, f), At(t, g)
  PROVE  f = g
BY BusAssumption DEF PciTypeOK, At, Wire, SameSlot

(* While a bus is scanned the cycles for the place that is scanned come to *)
(* the function that is there.                                             *)
LEMMA HereIsAt ==
  ASSUME NEW B, Known(B), scan # <<>>, Now.step # "end"
  PROVE  Here = {f \in DOMAIN machine : At(Now, f)}
<1>1. Now \in FrameType /\ Positioned(B, Now)
  BY FramesTyped DEF Known, Chained
<1>2. /\ Now.behind \in Parents(B) /\ Now.number = Numbers(B, Now.behind)
      /\ Now.slot \in 0 .. (SlotCount - 1) /\ Now.func \in 0 .. (FuncCount - 1)
  BY <1>1, PciAssumption DEF Positioned, FrameType
<1>3. Told(B)
  BY DEF Known, Told
<1>4. Here = {f \in DOMAIN machine :
                Wire(f) = Now.behind /\ machine[f].slot = Now.slot /\ machine[f].func = Now.func}
  BY <1>2, <1>3, AnswersAt DEF Here
<1> QED BY <1>4 DEF At

(* So a cycle comes to one function.                                       *)
LEMMA HereIsOne ==
  ASSUME NEW B, Known(B), scan # <<>>, Now.step # "end", NEW f \in DOMAIN machine, At(Now, f)
  PROVE  Here = {f}
BY HereIsAt, OneAt DEF Known

(* The invariant says what FoundStaysReachable asks.                       *)
LEMMA KnownReachable == ScanInv => FoundStaysReachable
<1> SUFFICES ASSUME NEW B, Known(B) PROVE FoundStaysReachable
  BY DEF ScanInv
<1>1. Told(B) /\ machine \in Machines
  BY DEF Known, Told, PciTypeOK
<1>2. ASSUME NEW d \in found
      PROVE  /\ Answers(d.number, d.slot, d.func) = {d.fn}
             /\ d.number # 0 => OneTaker(d.number)
  <2> DEFINE x == Wire(d.fn)
  <2>1. /\ d.fn \in DOMAIN machine /\ x \in Parents(B) /\ d.number = Numbers(B, x)
        /\ d.slot = machine[d.fn].slot /\ d.func = machine[d.fn].func
    BY DEF Known, Descriptors
  <2>2. d.slot \in 0 .. (SlotCount - 1) /\ d.func \in 0 .. (FuncCount - 1)
    BY <1>1, <2>1, MachineFacts
  <2>3. Answers(d.number, d.slot, d.func) =
          {f \in DOMAIN machine : Wire(f) = x /\ machine[f].slot = d.slot
                                  /\ machine[f].func = d.func}
    BY <1>1, <2>1, <2>2, AnswersAt
  <2>4. ASSUME NEW f \in DOMAIN machine, Wire(f) = x, machine[f].slot = d.slot,
               machine[f].func = d.func
        PROVE  f = d.fn
    BY <1>1, <2>1, <2>4, BusAssumption DEF Wire, SameSlot
  <2> QED BY <1>1, <2>1, <2>3, <2>4, OneTakes
<1>3. ASSUME NEW i \in DOMAIN scan PROVE scan[i].number # 0 => OneTaker(scan[i].number)
  <2>1. i \in 1 .. Len(scan)
    BY DEF Known, PciTypeOK
  <2>2. scan[i].behind \in Parents(B) /\ scan[i].number = Numbers(B, scan[i].behind)
    BY <2>1 DEF Known, Chained, Positioned
  <2> QED BY <1>1, <2>2, OneTakes
<1> QED BY <1>2, <1>3 DEF FoundStaysReachable

-----------------------------------------------------------------------------
(* A step that moves the innermost frame, and no window.  What lay ahead   *)
(* of the scan still does while there are descriptors.                     *)
Still == UNCHANGED <<machine, window, NextBusNumber>>
Moving == Quiet \cup Reading \cup {"bridge"}

(* While no window is written the numbers and the wires stay.              *)
LEMMA StillNames ==
  ASSUME Still
  PROVE  /\ Bridges' = Bridges /\ Unnumbered(machine)' = Unnumbered(machine)
         /\ \A f : Wire(f)' = Wire(f) /\ Sec(f)' = Sec(f) /\ Sub(f)' = Sub(f)
         /\ FrameType' = FrameType
<1>1. machine' = machine /\ window' = window
  BY DEF Still
<1>2. Bridges' = Bridges /\ Unnumbered(machine)' = Unnumbered(machine)
  BY <1>1 DEF Bridges
<1>3. \A f : Wire(f)' = Wire(f) /\ Sec(f)' = Sec(f) /\ Sub(f)' = Sub(f)
  BY <1>1, Zenon DEF Wire, Sec, Sub
<1>4. FrameType' = FrameType
  BY <1>1 DEF FrameType
<1> QED BY <1>2, <1>3, <1>4

(* When the top frame moves along its bus the chain of frames stays, if    *)
(* the windows of the bridges on the chain do.                             *)
LEMMA ChainMoves ==
  ASSUME NEW B, Known(B), scan # <<>>, NEW t \in FrameType,
         t.behind = Now.behind, t.number = Now.number, t.step # "close", Positioned(B, t),
         scan' = <<t>> \o Tail(scan), machine' = machine, Limit' = Limit,
         \A b \in B : Sec(b)' = Sec(b),
         \A b \in B : (\E i \in 2 .. Len(scan) : At(scan[i], b)) => Sub(b)' = Sub(b),
         \A b \in B : \/ Sub(b)' < Limit
                      \/ \E i \in 2 .. Len(scan) : scan[i].step = "close" /\ At(scan[i], b)
  PROVE  Chained(B)'
<1>1. PciTypeOK
  BY DEF Known
<1>2. /\ Len(scan') = Len(scan) /\ scan' # <<>>
      /\ scan'[1] = t /\ \A i \in 2 .. Len(scan) : scan'[i] = scan[i]
  BY <1>1, TopReplaced
<1>3. Now = scan[1] /\ 1 \in 1 .. Len(scan) /\ Len(scan) \in Nat
  BY <1>1, FramesTyped
<1>4. ASSUME NEW s, Positioned(B, s),
             \A b \in B : At(s, b) /\ s.step = "close" => Sub(b)' = Sub(b)
      PROVE  Positioned(B, s)'
  <2>1. /\ s.behind \in Parents(B)' /\ s.number = Numbers(B, s.behind)'
    BY <1>4 DEF Positioned, Parents, Numbers
  <2>2. s.step \notin Quiet => (\E f \in DOMAIN machine :
         /\ At(s, f) /\ (s.func = 0 => s.multi = machine[f].multi)
         /\ s.step \in Begin => f \in Bridges
         /\ s.step = "close" => f \in B /\ Sub(f) = BusCount - 1)'
    BY <1>4 DEF Positioned, At, Wire, Bridges
  <2>3. (\A b \in B : Ahead(s, b) => s.step = "close" /\ At(s, b))'
    BY <1>4 DEF Positioned, Ahead, At, Wire
  <2> QED BY <1>4, <2>1, <2>2, <2>3 DEF Positioned
<1>5. ASSUME NEW i \in 1 .. Len(scan) PROVE Positioned(B, scan[i])'
  <2>1. i = 1 \/ i \in 2 .. Len(scan)
    BY <1>3
  <2>2. PICK s : s = scan'[i]
    OBVIOUS
  <2>3. Positioned(B, s) /\ \A b \in B : At(s, b) /\ s.step = "close" => Sub(b)' = Sub(b)
    BY <1>2, <1>3, <2>1, <2>2 DEF Known, Chained
  <2>4. Positioned(B, s)'
    BY <1>4, <2>3
  <2> QED BY <2>2, <2>4 DEF Positioned, Parents, Numbers, At, Ahead, Wire, Sec, Sub, Bridges
<1>6. ASSUME NEW i \in 1 .. Len(scan)
      PROVE  scan'[i].behind = scan[i].behind /\ scan'[i].number = scan[i].number
  BY <1>2, <1>3
<1>7. \A i \in 1 .. Len(scan) : scan'[i].behind = Root <=> i = Len(scan)
  BY <1>6 DEF Known, Chained
<1>8. ASSUME NEW i \in 2 .. Len(scan)
      PROVE  scan'[i].step = "close" /\ At(scan[i], scan[i - 1].behind)'
  <2>1. i \in 1 .. Len(scan) /\ i - 1 \in 1 .. Len(scan)
    BY <1>3
  <2>2. scan[i].step = "close" /\ At(scan[i], scan[i - 1].behind)
    BY DEF Known, Chained
  <2>3. scan'[i] = scan[i] /\ scan'[i - 1].behind = scan[i - 1].behind
    BY <1>2, <1>6, <2>1
  <2> QED BY <2>2, <2>3 DEF At, Wire
<1>9. ASSUME NEW i \in 1 .. Len(scan), NEW j \in 1 .. Len(scan), i < j
      PROVE  /\ scan'[j].number < scan'[i].number
             /\ j < Len(scan) => Within(machine', scan'[i].behind, scan'[j].behind)
  <2>1. /\ scan[j].number < scan[i].number
        /\ j < Len(scan) => Within(machine, scan[i].behind, scan[j].behind)
    BY <1>9 DEF Known, Chained
  <2> QED BY <1>6, <2>1
<1>10. ASSUME NEW b \in B
       PROVE  Sub(b)' < Limit' \/ \E i \in 1 .. Len(scan) :
                                    scan'[i].step = "close" /\ At(scan[i], b)'
  <2>1. ASSUME NEW i \in 2 .. Len(scan), scan[i].step = "close", At(scan[i], b)
        PROVE  i \in 1 .. Len(scan) /\ scan'[i].step = "close" /\ At(scan[i], b)'
    BY <1>2, <1>3, <2>1 DEF At, Wire
  <2> QED BY <2>1
<1> QED BY <1>2, <1>5, <1>7, <1>8, <1>9, <1>10 DEF Chained

(* What is still ahead of the scan stays ahead, if it stays ahead of the   *)
(* top frame.                                                              *)
LEMMA CoverMoves ==
  ASSUME NEW B, Known(B), scan # <<>>, NEW t \in FrameType,
         scan' = <<t>> \o Tail(scan), machine' = machine,
         (pool > 0 \/ InProgress)' =>
           /\ pool > 0 \/ InProgress
           /\ \A u \in Bridges \ B : Ahead(Now, u) => Ahead(t, u)
  PROVE  Covered(B)'
<1>1. PciTypeOK
  BY DEF Known
<1>2. /\ Len(scan') = Len(scan)
      /\ scan'[1] = t /\ \A i \in 2 .. Len(scan) : scan'[i] = scan[i]
  BY <1>1, TopReplaced
<1>3. Now = scan[1] /\ 1 \in 1 .. Len(scan) /\ Len(scan) \in Nat
  BY <1>1, FramesTyped
<1> SUFFICES ASSUME (pool > 0 \/ InProgress)', NEW u \in Bridges \ B, Wire(u) \in Parents(B)
             PROVE  \E i \in 1 .. Len(scan) : Ahead(scan[i], u)'
  BY <1>2 DEF Covered, Parents, Bridges, Wire
<1>4. PICK i \in 1 .. Len(scan) : Ahead(scan[i], u)
  BY DEF Known, Covered
<1>5. i = 1 \/ i \in 2 .. Len(scan)
  BY <1>3
<1>6. PICK s : s = scan'[i] /\ Ahead(s, u)
  BY <1>2, <1>3, <1>4, <1>5
<1>7. Ahead(scan[i], u)'
  BY <1>6 DEF Ahead, Wire
<1> QED BY <1>7

(* A step that only moves the top frame keeps the invariant.               *)
LEMMA TopMoves ==
  ASSUME NEW B, Known(B), scan # <<>>, NEW t \in FrameType,
         t.behind = Now.behind, t.number = Now.number,
         Now.step \in Moving, t.step \in Moving, Positioned(B, t),
         scan' = <<t>> \o Tail(scan), Still, pool' \in Nat, pool' <= pool,
         pool' > 0 => \A u \in Bridges \ B : Ahead(Now, u) => Ahead(t, u),
         \A d \in found' : d = [number |-> d.number, slot |-> d.slot, func |-> d.func,
                                fn |-> d.fn, bases |-> d.bases, read |-> d.read],
         Descriptors(B)'
  PROVE  Known(B)'
<1>1. PciTypeOK
  BY DEF Known
<1>2. scan' \in Seq(FrameType) /\ scan' # <<>> /\ Now' = t
  BY <1>1, TopReplaced DEF Now
<1>3. Now = scan[1] /\ 1 \in 1 .. Len(scan) /\ Len(scan) \in Nat
  BY <1>1, FramesTyped
<1>4. Now.step \notin {"secondary", "open", "close"} /\ t.step \notin {"secondary", "open", "close"}
  BY DEF Moving, Quiet, Reading
<1>5. ~InProgress /\ ~InProgress' /\ Limit' = Limit
  BY <1>2, <1>4 DEF InProgress, Limit, Still
<1>6. PciTypeOK'
  BY <1>1, <1>2, StillNames DEF PciTypeOK, Still
<1>7. Numbered(B)'
  BY <1>5, StillNames DEF Known, Numbered, Parents
<1>8. Unbegun(B)'
  <2>1. ASSUME NEW u \in Bridges \ B
        PROVE  IF Unnumbered(machine) THEN Sub(u) = 0
               ELSE machine[u].secondary >= Limit /\ Sec(u) = machine[u].secondary
    BY <1>4 DEF Known, Unbegun, Opening
  <2> QED BY <2>1, <1>2, <1>4, <1>5, StillNames DEF Unbegun, Opening, Still
<1>9. Chained(B)'
  <2>1. ASSUME NEW b \in B
        PROVE  \/ Sub(b)' < Limit
               \/ \E i \in 2 .. Len(scan) : scan[i].step = "close" /\ At(scan[i], b)
    <3>1. Sub(b)' = Sub(b)
      BY StillNames
    <3>2. \A i \in 1 .. Len(scan) : scan[i].step = "close" => i \in 2 .. Len(scan)
      BY <1>3, <1>4
    <3> QED BY <3>1, <3>2 DEF Known, Chained
  <2> QED BY <2>1, <1>4, <1>5, StillNames, ChainMoves DEF Still
<1>10. Covered(B)'
  <2>1. pool' > 0 => pool > 0
    BY <1>1 DEF PciTypeOK
  <2> QED BY <2>1, <1>5, CoverMoves DEF Still
<1> QED BY <1>6, <1>7, <1>8, <1>9, <1>10 DEF Known

-----------------------------------------------------------------------------
(* Where the loops of the scan go after a function.                        *)
LEMMA AfterPlace ==
  ASSUME PciTypeOK, NEW t \in FrameType, t.slot < SlotCount
  PROVE  /\ After(t) \in FrameType
         /\ After(t).behind = t.behind /\ After(t).number = t.number
         /\ After(t).step \in {"function", "end"}
         /\ After(t).step = "end" <=> After(t).slot = SlotCount
         /\ \/ After(t).slot = t.slot /\ After(t).func = t.func + 1
               /\ t.func + 1 < FuncCount /\ (t.func > 0 \/ t.multi)
            \/ /\ After(t).slot = t.slot + 1 /\ After(t).func = 0
               /\ ~(t.func + 1 < FuncCount /\ (t.func > 0 \/ t.multi))
<1>1. SlotCount \in Nat \ {0} /\ FuncCount \in Nat \ {0}
  BY PciAssumption
<1>2. t.slot \in 0 .. SlotCount /\ t.func \in 0 .. (FuncCount - 1) /\ t.multi \in BOOLEAN
  BY DEF FrameType
<1>3. CASE t.func + 1 < FuncCount /\ (t.func > 0 \/ t.multi)
  <2>1. After(t) = [t EXCEPT !.func = t.func + 1, !.step = "function"]
    BY <1>3 DEF After
  <2>2. t.func + 1 \in 0 .. (FuncCount - 1)
    BY <1>1, <1>2, <1>3
  <2>3. After(t) \in FrameType
    BY <2>1, <2>2 DEF FrameType, Steps, Quiet
  <2>4. /\ After(t).behind = t.behind /\ After(t).number = t.number
        /\ After(t).step = "function" /\ After(t).slot = t.slot /\ After(t).func = t.func + 1
    BY <2>1 DEF FrameType
  <2> QED BY <1>1, <1>2, <1>3, <2>3, <2>4
<1>4. CASE ~(t.func + 1 < FuncCount /\ (t.func > 0 \/ t.multi))
  <2> DEFINE s == IF t.slot + 1 = SlotCount THEN "end" ELSE "function"
  <2>1. After(t) = [t EXCEPT !.slot = t.slot + 1, !.func = 0, !.multi = FALSE, !.step = s]
    BY <1>4 DEF After
  <2>2. t.slot + 1 \in 0 .. SlotCount /\ 0 \in 0 .. (FuncCount - 1) /\ s \in Steps
    BY <1>1, <1>2 DEF Steps, Quiet
  <2> QED BY <1>1, <1>2, <1>4, <2>1, <2>2 DEF FrameType
<1> QED BY <1>3, <1>4

(* They pass over nobody: there are other functions in a slot only if      *)
(* function 0 says so.                                                     *)
LEMMA AfterAhead ==
  ASSUME PciTypeOK, NEW t \in FrameType, t.slot < SlotCount, NEW u \in DOMAIN machine,
         Ahead(t, u), ~At(t, u),
         t.func = 0 => \A f \in DOMAIN machine : At(t, f) => t.multi = machine[f].multi
  PROVE  Ahead(After(t), u)
<1>1. machine \in Machines
  BY DEF PciTypeOK
<1>2. /\ t.slot \in Nat /\ t.func \in Nat /\ t.multi \in BOOLEAN /\ FuncCount \in Nat \ {0}
      /\ machine[u].slot \in Nat /\ machine[u].func \in 0 .. (FuncCount - 1)
  BY <1>1, MachineFacts, PciAssumption DEF FrameType
<1>3. CASE machine[u].slot > t.slot
  BY <1>2, <1>3, AfterPlace DEF Ahead
<1>4. CASE machine[u].slot = t.slot
  <2>1. machine[u].func > t.func
    BY <1>2, <1>4 DEF Ahead, At
  <2>2. t.func > 0 \/ t.multi
    <3> SUFFICES ASSUME t.func = 0 PROVE t.multi
      BY <1>2
    <3>1. machine[u].func # 0
      BY <1>2, <2>1
    <3>2. PICK g \in DOMAIN machine : /\ SameSlot(machine, u, g) /\ machine[g].func = 0
                                      /\ machine[g].multi
      BY <1>1, <3>1, BusAssumption
    <3>3. At(t, g)
      BY <1>4, <3>2 DEF SameSlot, At, Wire, Ahead
    <3> QED BY <3>2, <3>3
  <2>3. t.func + 1 < FuncCount
    BY <1>2, <2>1
  <2>4. After(t).slot = t.slot /\ After(t).func = t.func + 1 /\ After(t).behind = t.behind
    BY <2>2, <2>3, AfterPlace
  <2> QED BY <1>2, <1>4, <2>1, <2>4 DEF Ahead
<1> QED BY <1>2, <1>3, <1>4 DEF Ahead

(* Nothing comes to be ahead that was not, and the place itself is passed. *)
LEMMA AheadAfter ==
  ASSUME PciTypeOK, NEW t \in FrameType, t.slot < SlotCount, NEW u \in DOMAIN machine,
         Ahead(After(t), u)
  PROVE  Ahead(t, u) /\ ~At(t, u)
<1>1. machine \in Machines
  BY DEF PciTypeOK
<1>2. /\ t.slot \in Nat /\ t.func \in Nat
      /\ machine[u].slot \in Nat /\ machine[u].func \in Nat
  BY <1>1, MachineFacts DEF FrameType
<1> QED BY <1>2, AfterPlace DEF Ahead, At

(* The scan goes on behind the function.                                   *)
LEMMA TopAdvances ==
  ASSUME NEW B, Known(B), scan # <<>>, Now.step \in Moving \ {"end"}, Advance,
         Still, pool' \in Nat, pool' <= pool,
         pool' > 0 =>
           /\ \A u \in Bridges \ B : ~At(Now, u)
           /\ Now.func = 0 => \A f \in DOMAIN machine : At(Now, f) => Now.multi = machine[f].multi,
         \A d \in found' : d = [number |-> d.number, slot |-> d.slot, func |-> d.func,
                                fn |-> d.fn, bases |-> d.bases, read |-> d.read],
         Descriptors(B)'
  PROVE  Known(B)'
<1>1. PciTypeOK /\ machine \in Machines /\ Bridges \subseteq DOMAIN machine
  BY MachineFacts DEF Known, PciTypeOK, Bridges
<1>2. Now \in FrameType /\ Positioned(B, Now)
  BY <1>1, FramesTyped DEF Known, Chained
<1>3. Now.slot < SlotCount
  BY <1>2 DEF Positioned
<1> DEFINE t == After(Now)
<1>4. /\ t \in FrameType /\ t.behind = Now.behind /\ t.number = Now.number
      /\ t.step \in {"function", "end"} /\ (t.step = "end" <=> t.slot = SlotCount)
  BY <1>1, <1>2, <1>3, AfterPlace
<1>5. Positioned(B, t)
  <2>1. B \subseteq DOMAIN machine
    BY <1>1 DEF Known, Numbered
  <2>2. ASSUME NEW b \in B PROVE ~Ahead(t, b)
    BY <1>1, <1>2, <1>3, <2>1, AheadAfter DEF Positioned, Moving, Quiet, Reading
  <2>3. t.slot \in 0 .. SlotCount /\ SlotCount \in Nat
    BY <1>4, PciAssumption DEF FrameType
  <2>4. t.step # "end" => t.slot < SlotCount
    BY <1>4, <2>3
  <2>5. t.step \in Quiet /\ t.step # "boot" /\ t.step \notin {"secondary", "open"}
    BY <1>4 DEF Quiet
  <2> HIDE DEF t
  <2> QED BY <1>2, <1>4, <2>2, <2>4, <2>5 DEF Positioned
<1>6. pool' > 0 => \A u \in Bridges \ B : Ahead(Now, u) => Ahead(t, u)
  BY <1>1, <1>2, <1>3, AfterAhead
<1>7. scan' = <<t>> \o Tail(scan)
  BY DEF Advance
<1>8. t.step \in Moving /\ Now.step \in Moving
  BY <1>4 DEF Moving, Quiet
<1> HIDE DEF t
<1> QED BY <1>4, <1>5, <1>6, <1>7, <1>8, TopMoves

-----------------------------------------------------------------------------
(* The steps that change no window.                                        *)
LEMMA DescriptorsStay ==
  ASSUME NEW B, Known(B), Still, found' = found
  PROVE  /\ Descriptors(B)'
         /\ \A d \in found' : d = [number |-> d.number, slot |-> d.slot, func |-> d.func,
                                   fn |-> d.fn, bases |-> d.bases, read |-> d.read]
BY DEF Known, PciTypeOK, Descriptors, Still, Wire, Parents, Numbers, Sec

(* The steps one by one.  Those that write no window move the top frame.   *)
LEMMA EnumerateKeeps ==
  ASSUME NEW B, Known(B), PciEnumerate
  PROVE  Known(B)'
<1>1. PciTypeOK /\ scan # <<>> /\ Now.step = "boot" /\ found' = found
  BY DEF Known, PciEnumerate
<1>2. Still
  BY DEF PciEnumerate, Still
<1>3. Now \in FrameType /\ Positioned(B, Now)
  BY <1>1, FramesTyped DEF Known, Chained
<1>4. Now.step \in Moving /\ "function" \in Moving
  BY <1>1 DEF Moving, Quiet
<1>5. CASE pool = 0
  <2>1. B = {} /\ scan' = <<>> /\ pool' = pool
    BY <1>1, <1>3, <1>5 DEF Positioned, PciEnumerate
  <2>2. ~InProgress /\ ~InProgress' /\ Limit' = Limit
    BY <1>1, <1>2, <2>1 DEF InProgress, Limit, Still
  <2>3. PciTypeOK'
    BY <1>1, <1>2, <2>1, StillNames DEF PciTypeOK, Still
  <2>4. Numbered(B)'
    BY <2>1, <2>2 DEF Known, Numbered
  <2>5. Unbegun(B)'
    <3>1. ASSUME NEW u \in Bridges \ B
          PROVE  IF Unnumbered(machine) THEN Sub(u) = 0
                 ELSE machine[u].secondary >= Limit /\ Sec(u) = machine[u].secondary
      BY <1>1 DEF Known, Unbegun, Opening
    <3> QED BY <3>1, <1>2, <2>1, <2>2, StillNames DEF Unbegun, Opening, Still
  <2>6. Chained(B)'
    BY <2>1 DEF Chained
  <2>7. Covered(B)'
    BY <1>5, <2>1, <2>2 DEF Covered
  <2> QED BY <2>3, <2>4, <2>5, <2>6, <2>7, <1>1, <1>2, DescriptorsStay DEF Known
<1>6. CASE pool # 0
  <2>1. PICK t : t = [Now EXCEPT !.step = "function"]
    OBVIOUS
  <2>2. scan' = <<t>> \o Tail(scan) /\ pool' = pool - 1
    BY <1>6, <2>1 DEF PciEnumerate, Goto
  <2>3. /\ t \in FrameType /\ t.behind = Now.behind /\ t.number = Now.number
        /\ t.slot = Now.slot /\ t.func = Now.func /\ t.step = "function"
    BY <1>3, <2>1 DEF FrameType, Steps, Quiet
  <2>4. Positioned(B, t)
    BY <1>1, <1>3, <2>3 DEF Positioned, Quiet, Ahead, At
  <2>5. pool' \in Nat /\ pool' <= pool
    BY <1>1, <1>6, <2>2 DEF PciTypeOK
  <2>6. \A u : Ahead(Now, u) => Ahead(t, u)
    BY <2>3 DEF Ahead
  <2> QED BY <1>1, <1>2, <1>4, <2>2, <2>3, <2>4, <2>5, <2>6, DescriptorsStay, TopMoves
<1> QED BY <1>5, <1>6

LEMMA ScanNothingKeeps ==
  ASSUME NEW B, Known(B), ScanNothing
  PROVE  Known(B)'
<1>1. PciTypeOK /\ scan # <<>> /\ Now.step = "function" /\ found' = found /\ pool' = pool
  BY DEF Known, ScanNothing
<1>2. Still /\ Advance
  BY DEF ScanNothing, Still
<1>3. pool = 0 \/ \A f \in DOMAIN machine : ~At(Now, f)
  BY <1>1, HereIsAt DEF ScanNothing
<1>4. Now.step \in Moving \ {"end"} /\ pool \in Nat /\ Bridges \subseteq DOMAIN machine
  BY <1>1 DEF Moving, Quiet, PciTypeOK, Bridges, BridgesOf
<1> QED BY <1>1, <1>2, <1>3, <1>4, DescriptorsStay, TopAdvances

LEMMA ScanFunctionKeeps ==
  ASSUME NEW B, Known(B), ScanFunction
  PROVE  Known(B)'
<1>1. PciTypeOK /\ scan # <<>> /\ Now.step = "function" /\ pool > 0 /\ pool' = pool - 1
  BY DEF Known, ScanFunction
<1>2. Still
  BY DEF ScanFunction, Still
<1>3. Now \in FrameType /\ Positioned(B, Now)
  BY <1>1, FramesTyped DEF Known, Chained
<1>4. PICK f \in Here :
        /\ scan' = <<[Now EXCEPT !.step = "decode off",
                                 !.multi = IF Now.func = 0 THEN machine[f].multi ELSE @]>>
                   \o Tail(scan)
        /\ found' = found \cup {[number |-> Now.number, slot |-> Now.slot,
                                 func |-> Now.func, fn |-> f,
                                 bases |-> <<>>, read |-> FALSE]}
  BY DEF ScanFunction
<1>5. f \in DOMAIN machine /\ At(Now, f)
  BY <1>1, HereIsAt
<1>6. PICK t : t = [Now EXCEPT !.step = "decode off",
                               !.multi = IF Now.func = 0 THEN machine[f].multi ELSE Now.multi]
  OBVIOUS
<1>7. /\ t \in FrameType /\ t.behind = Now.behind /\ t.number = Now.number
      /\ t.slot = Now.slot /\ t.func = Now.func /\ t.step = "decode off"
      /\ t.func = 0 => t.multi = machine[f].multi
  <2>1. machine[f].multi \in BOOLEAN
    BY <1>1, <1>5, MachineFacts DEF PciTypeOK
  <2> QED BY <1>3, <1>6, <2>1 DEF FrameType, Steps, Reading
<1>8. Positioned(B, t)
  BY <1>1, <1>3, <1>5, <1>7 DEF Positioned, Begin, Ahead, At
<1>9. scan' = <<t>> \o Tail(scan)
  BY <1>4, <1>6
<1>10. Descriptors(B)'
  <2>1. Descriptors(B)
    BY DEF Known
  <2>2. Wire(f) \in Parents(B) /\ Now.number = Numbers(B, Wire(f))
        /\ Now.slot = machine[f].slot /\ Now.func = machine[f].func
    BY <1>3, <1>5 DEF Positioned, At
  <2> QED BY <1>2, <1>4, <1>5, <2>1, <2>2 DEF Descriptors, Still, Wire, Parents, Numbers, Sec
<1>11. \A d \in found' : d = [number |-> d.number, slot |-> d.slot, func |-> d.func,
                              fn |-> d.fn, bases |-> d.bases, read |-> d.read]
  BY <1>1, <1>4 DEF PciTypeOK
<1>12. pool' \in Nat /\ pool' <= pool
  BY <1>1 DEF PciTypeOK
<1>13. Now.step \in Moving /\ t.step \in Moving
  BY <1>1, <1>7 DEF Moving, Quiet, Reading
<1>14. \A u : Ahead(Now, u) => Ahead(t, u)
  BY <1>7 DEF Ahead
<1> QED BY <1>1, <1>2, <1>7, <1>8, <1>9, <1>10, <1>11, <1>12, <1>13, <1>14, TopMoves

(* The reading of the base address registers goes from step to step.       *)
LEMMA GotoMoves ==
  ASSUME NEW B, Known(B), scan # <<>>, Now.step \in Reading, NEW s \in Reading \cup {"bridge"},
         Goto(s), Still, pool' = pool,
         s = "bridge" => \E f \in Bridges : At(Now, f),
         Descriptors(B)',
         \A d \in found' : d = [number |-> d.number, slot |-> d.slot, func |-> d.func,
                                fn |-> d.fn, bases |-> d.bases, read |-> d.read]
  PROVE  Known(B)'
<1>1. PciTypeOK
  BY DEF Known
<1>2. Now \in FrameType /\ Positioned(B, Now)
  BY <1>1, FramesTyped DEF Known, Chained
<1>3. PICK t : t = [Now EXCEPT !.step = s]
  OBVIOUS
<1>4. /\ t \in FrameType /\ t.behind = Now.behind /\ t.number = Now.number
      /\ t.slot = Now.slot /\ t.func = Now.func /\ t.step = s /\ t.multi = Now.multi
  BY <1>2, <1>3 DEF FrameType, Steps, Begin, Reading
<1>5. Positioned(B, t)
  <2>1. /\ Now.step \notin Quiet \cup Begin \cup {"close"}
        /\ s \notin Quiet \cup {"secondary", "open", "close"}
        /\ s \in Begin => s = "bridge"
    BY DEF Reading, Quiet, Begin
  <2>2. PICK f \in DOMAIN machine : At(Now, f) /\ (Now.func = 0 => Now.multi = machine[f].multi)
    BY <1>2, <2>1 DEF Positioned
  <2>3. s = "bridge" => f \in Bridges
    BY <1>1, <2>2, OneAt DEF Bridges, BridgesOf
  <2>4. At(t, f) /\ \A u : Ahead(t, u) <=> Ahead(Now, u)
    BY <1>4, <2>2 DEF At, Ahead
  <2>5. t.slot < SlotCount
    BY <1>2, <1>4, <2>1 DEF Positioned, Quiet
  <2>6. \A b \in B : ~Ahead(t, b)
    BY <1>2, <2>1, <2>4 DEF Positioned
  <2> QED BY <1>2, <1>4, <2>1, <2>2, <2>3, <2>4, <2>5, <2>6 DEF Positioned, Quiet
<1>6. scan' = <<t>> \o Tail(scan)
  BY <1>3 DEF Goto
<1>7. Now.step \in Moving /\ t.step \in Moving
  BY <1>4 DEF Moving
<1>8. pool' \in Nat /\ pool' <= pool
  BY <1>1 DEF PciTypeOK
<1>9. \A u : Ahead(Now, u) => Ahead(t, u)
  BY <1>4 DEF Ahead
<1> QED BY <1>4, <1>5, <1>6, <1>7, <1>8, <1>9, TopMoves

(* What the steps that read the registers have in common.                  *)
LEMMA ReadingSteps ==
  ASSUME NEW B, Known(B), DecodeOff \/ ProbeLow \/ TakeLow \/ ProbeHigh \/ TakeHigh
  PROVE  /\ PciTypeOK /\ scan # <<>> /\ Now.step \in Reading /\ found' = found /\ pool' = pool
         /\ machine' = machine /\ Still /\ \E s \in Reading : Goto(s)
<1> DEFINE Same == UNCHANGED <<machine, window, NextBusNumber, pool, found>>
<1>r. /\ "decode off" \in Reading /\ "probe" \in Reading /\ "low" \in Reading
      /\ "probe high" \in Reading /\ "high" \in Reading
  BY DEF Reading
<1>1. ASSUME DecodeOff
      PROVE  scan # <<>> /\ Now.step \in Reading /\ Same /\ \E s \in Reading : Goto(s)
  <2>1. scan # <<>> /\ Now.step = "decode off" /\ Same
    BY <1>1 DEF DecodeOff
  <2>2. Goto("probe")
    BY <1>1 DEF DecodeOff
  <2> HIDE DEF Same
  <2> QED BY <1>r, <2>1, <2>2, Zenon
<1>2. ASSUME ProbeLow
      PROVE  scan # <<>> /\ Now.step \in Reading /\ Same /\ \E s \in Reading : Goto(s)
  <2>1. scan # <<>> /\ Now.step = "probe" /\ Same
    BY <1>2 DEF ProbeLow
  <2>2. Goto("low")
    BY <1>2 DEF ProbeLow
  <2> HIDE DEF Same
  <2> QED BY <1>r, <2>1, <2>2, Zenon
<1>3. ASSUME TakeLow
      PROVE  scan # <<>> /\ Now.step \in Reading /\ Same /\ \E s \in Reading : Goto(s)
  <2>1. scan # <<>> /\ Now.step = "low" /\ Same
    BY <1>3 DEF TakeLow
  <2>2. Goto("probe") \/ Goto("probe high")
    BY <1>3 DEF TakeLow
  <2> HIDE DEF Same
  <2> QED BY <1>r, <2>1, <2>2, Zenon
<1>4. ASSUME ProbeHigh
      PROVE  scan # <<>> /\ Now.step \in Reading /\ Same /\ \E s \in Reading : Goto(s)
  <2>1. scan # <<>> /\ Now.step = "probe high" /\ Same
    BY <1>4 DEF ProbeHigh
  <2>2. Goto("high")
    BY <1>4 DEF ProbeHigh
  <2> HIDE DEF Same
  <2> QED BY <1>r, <2>1, <2>2, Zenon
<1>5. ASSUME TakeHigh
      PROVE  scan # <<>> /\ Now.step \in Reading /\ Same /\ \E s \in Reading : Goto(s)
  <2>1. scan # <<>> /\ Now.step = "high" /\ Same
    BY <1>5 DEF TakeHigh
  <2>2. Goto("probe")
    BY <1>5 DEF TakeHigh
  <2> HIDE DEF Same
  <2> QED BY <1>r, <2>1, <2>2, Zenon
<1>6. PciTypeOK
  BY DEF Known
<1>7. Same => Still /\ machine' = machine /\ pool' = pool /\ found' = found
  BY DEF Still
<1> HIDE DEF Same
<1> QED BY <1>1, <1>2, <1>3, <1>4, <1>5, <1>6, <1>7, Zenon

(* Reading the registers leaves the place, and after it the scan goes on   *)
(* or turns to the bridge.                                                 *)
LEMMA ReadingKeeps ==
  ASSUME NEW B, Known(B), DecodeOff \/ ProbeLow \/ TakeLow \/ ProbeHigh \/ TakeHigh
  PROVE  Known(B)'
<1>1. PciTypeOK /\ scan # <<>> /\ Now.step \in Reading /\ found' = found /\ pool' = pool /\ Still
  BY ReadingSteps
<1>2. PICK s \in Reading : Goto(s)
  BY ReadingSteps
<1>3. s # "bridge"
  BY <1>2 DEF Reading
<1> QED BY <1>1, <1>2, <1>3, DescriptorsStay, GotoMoves

LEMMA RestoreKeeps ==
  ASSUME NEW B, Known(B), RestoreCommand
  PROVE  Known(B)'
<1>1. PciTypeOK /\ scan # <<>> /\ Now.step = "probe" /\ pool' = pool
  BY DEF Known, RestoreCommand
<1>2. Still
  BY DEF RestoreCommand, Still
<1>3. Now \in FrameType /\ Positioned(B, Now)
  BY <1>1, FramesTyped DEF Known, Chained
<1>4. PICK f \in Here : IF machine[f].bridge THEN Goto("bridge") ELSE Advance
  BY DEF RestoreCommand
<1>5. f \in DOMAIN machine /\ At(Now, f)
  BY <1>1, HereIsAt
<1>6. found' = {IF d.number = Now.number /\ d.slot = Now.slot /\ d.func = Now.func
                THEN [d EXCEPT !.bases = work.bases, !.read = TRUE] ELSE d : d \in found}
  BY DEF RestoreCommand
<1>7. ASSUME NEW d \in found'
      PROVE  /\ d = [number |-> d.number, slot |-> d.slot, func |-> d.func,
                     fn |-> d.fn, bases |-> d.bases, read |-> d.read]
             /\ \E e \in found : /\ d.number = e.number /\ d.slot = e.slot
                                 /\ d.func = e.func /\ d.fn = e.fn
  <2>1. PICK e \in found :
          d = IF e.number = Now.number /\ e.slot = Now.slot /\ e.func = Now.func
              THEN [e EXCEPT !.bases = work.bases, !.read = TRUE] ELSE e
    BY <1>6
  <2>2. e = [number |-> e.number, slot |-> e.slot, func |-> e.func,
             fn |-> e.fn, bases |-> e.bases, read |-> e.read]
    BY <1>1 DEF PciTypeOK
  <2> QED BY <2>1, <2>2
<1>8. Descriptors(B)'
  <2>1. Descriptors(B)
    BY DEF Known
  <2> QED BY <1>2, <1>7, <2>1 DEF Descriptors, Still, Wire, Parents, Numbers, Sec
<1>9. pool \in Nat
  BY <1>1 DEF PciTypeOK
<1>10. CASE machine[f].bridge
  <2>1. f \in Bridges
    BY <1>5, <1>10 DEF Bridges, BridgesOf
  <2>2. Now.step \in Reading
    BY <1>1 DEF Reading
  <2> QED BY <1>1, <1>2, <1>4, <1>5, <1>7, <1>8, <1>10, <2>1, <2>2, GotoMoves
<1>11. CASE ~machine[f].bridge
  <2>1. \A u \in Bridges : ~At(Now, u)
    BY <1>1, <1>5, <1>11, OneAt DEF Bridges, BridgesOf
  <2>2. \A g \in DOMAIN machine : At(Now, g) => g = f
    BY <1>1, <1>5, OneAt
  <2>3. Now.func = 0 => Now.multi = machine[f].multi
    BY <1>1, <1>3, <2>2 DEF Positioned, Quiet
  <2>4. Now.step \in Moving \ {"end"} /\ pool' \in Nat /\ pool' <= pool
    BY <1>1, <1>9 DEF Moving, Reading
  <2> QED BY <1>1, <1>2, <1>4, <1>7, <1>8, <1>11, <2>1, <2>2, <2>3, <2>4, TopAdvances
<1> QED BY <1>10, <1>11

(* Without a descriptor the bridge is passed, with nothing left to cover.  *)
LEMMA NoBusKeeps ==
  ASSUME NEW B, Known(B), NoBus
  PROVE  Known(B)'
<1>1. PciTypeOK /\ scan # <<>> /\ Now.step = "bridge" /\ found' = found /\ pool = 0 /\ pool' = 0
  BY DEF Known, NoBus
<1>2. Still /\ Advance
  BY DEF NoBus, Still
<1>3. Now.step \in Moving \ {"end"}
  BY <1>1 DEF Moving
<1> QED BY <1>1, <1>2, <1>3, DescriptorsStay, TopAdvances

-----------------------------------------------------------------------------
(* A bridge is given a number.                                             *)
LEMMA BeginPlace ==
  ASSUME NEW B, Known(B), scan # <<>>, Now.step \in Begin
  PROVE  /\ Limit < BusCount
         /\ \E b \in Bridges \ B : At(Now, b) /\ Here = {b} /\ Wire(b) \in Parents(B)
<1>1. PciTypeOK /\ Numbered(B) /\ machine \in Machines
  BY DEF Known, PciTypeOK
<1>2. Now \in FrameType /\ Positioned(B, Now)
  BY <1>1, FramesTyped DEF Known, Chained
<1>3. PICK b \in Bridges : At(Now, b)
  BY <1>2 DEF Positioned, Begin, Quiet
<1>4. b \in DOMAIN machine /\ IsFiniteSet(Bridges) /\ Cardinality(Bridges) < BusCount
      /\ Cardinality(Bridges) \in Nat
  BY <1>1, MachineFacts DEF Bridges
<1>5. b \notin B
  <2>1. machine[b].slot \in Nat /\ machine[b].func \in Nat
    BY <1>1, <1>4, MachineFacts
  <2>2. Ahead(Now, b)
    BY <1>3, <2>1 DEF Ahead, At
  <2> QED BY <1>2, <2>2 DEF Positioned, Begin
<1>6. Here = {b}
  BY <1>3, <1>4, HereIsOne DEF Begin
<1>7. Wire(b) \in Parents(B)
  BY <1>2, <1>3 DEF Positioned, At
<1>8. Limit < BusCount
  <2>1. IsFiniteSet(B) /\ Cardinality(B) \in Nat /\ Limit = Cardinality(B) + 1
    BY <1>1, LimitTyped DEF Numbered
  <2>2. Cardinality(B \cup {b}) = Cardinality(B) + 1
    BY <1>5, <2>1, FS_AddElement
  <2>3. B \cup {b} \subseteq Bridges
    BY <1>1 DEF Numbered
  <2>4. Cardinality(B \cup {b}) <= Cardinality(Bridges)
    BY <1>4, <2>3, FS_Subset
  <2> QED BY <1>4, <2>1, <2>2, <2>4, PciAssumption
<1> QED BY <1>3, <1>5, <1>6, <1>7, <1>8

(* A write of a window register changes that bridge's.                     *)
LEMMA WindowWritten ==
  ASSUME PciTypeOK, NEW b \in Bridges, Here = {b},
         NEW register \in {"primary", "secondary", "subordinate"},
         NEW v \in Nat, v < BusCount, WriteWindow(register, v)
  PROVE  /\ window' \in [Bridges -> [primary : Nat, secondary : Nat, subordinate : Nat]]
         /\ \A x \in Bridges : x # b => window'[x] = window[x]
         /\ window'[b] = [window[b] EXCEPT ![register] = v]
         /\ register # "secondary" => window'[b].secondary = window[b].secondary
         /\ register # "subordinate" => window'[b].subordinate = window[b].subordinate
         /\ register = "secondary" => window'[b].secondary = v
         /\ register = "subordinate" => window'[b].subordinate = v
<1>1. v % BusCount = v
  BY PciAssumption
<1>2. DOMAIN window = Bridges
  BY DEF PciTypeOK
<1>3. window' = [x \in Bridges |-> IF x = b THEN [window[x] EXCEPT ![register] = v] ELSE window[x]]
  BY <1>1, <1>2 DEF WriteWindow
<1>4. window[b] \in [primary : Nat, secondary : Nat, subordinate : Nat]
  BY DEF PciTypeOK
<1> DEFINE w == [window[b] EXCEPT ![register] = v]
<1>5. /\ w \in [primary : Nat, secondary : Nat, subordinate : Nat]
      /\ register # "secondary" => w.secondary = window[b].secondary
      /\ register # "subordinate" => w.subordinate = window[b].subordinate
      /\ register = "secondary" => w.secondary = v
      /\ register = "subordinate" => w.subordinate = v
  BY <1>4
<1> HIDE DEF w
<1> QED BY <1>3, <1>5 DEF PciTypeOK, w

(* Until the window is open, only the secondary number of the bridge that  *)
(* is being numbered may have changed.                                     *)
LEMMA NumberingKeeps ==
  ASSUME NEW B, Known(B), scan # <<>>, Now.step \in {"bridge", "secondary"},
         NEW b \in Bridges \ B, At(Now, b), NEW t \in FrameType,
         t.behind = Now.behind, t.number = Now.number, t.slot = Now.slot, t.func = Now.func,
         t.multi = Now.multi, t.step \in {"secondary", "open"}, t.secondary = Limit,
         scan' = <<t>> \o Tail(scan), machine' = machine, found' = found,
         window' \in [Bridges -> [primary : Nat, secondary : Nat, subordinate : Nat]],
         \A x \in Bridges : Sub(x)' = Sub(x) /\ (x # b => Sec(x)' = Sec(x)),
         Limit' = Limit, NextBusNumber' \in Nat, pool' \in Nat,
         pool > 0 \/ InProgress,
         Unbegun(B)'
  PROVE  Known(B)'
<1>1. PciTypeOK /\ Numbered(B) /\ B \subseteq Bridges
  BY DEF Known, Numbered
<1>2. scan' \in Seq(FrameType) /\ scan' # <<>> /\ Now' = t
  BY <1>1, TopReplaced DEF Now
<1>3. Now = scan[1] /\ 1 \in 1 .. Len(scan) /\ Len(scan) \in Nat
  BY <1>1, FramesTyped
<1>4. Now \in FrameType /\ Positioned(B, Now)
  BY <1>1, <1>3, FramesTyped DEF Known, Chained
<1>5. PciTypeOK'
  <2>1. Bridges' = Bridges /\ FrameType' = FrameType
    BY DEF Bridges, FrameType
  <2> QED BY <1>1, <1>2, <2>1 DEF PciTypeOK
<1>6. \A x \in B : Sec(x)' = Sec(x) /\ Sub(x)' = Sub(x) /\ Wire(x)' = Wire(x)
  BY <1>1 DEF Wire
<1>7. Numbered(B)'
  <2>1. \A x \in B : Wire(x) # Root => Wire(x) \in B
    BY <1>1 DEF Numbered, Parents
  <2> QED BY <1>1, <1>6, <2>1 DEF Numbered, Parents, Bridges
<1>8. Positioned(B, t)
  <2>1. b \in DOMAIN machine
    BY DEF Bridges, BridgesOf
  <2>2. At(t, b) /\ \A x : Ahead(t, x) <=> Ahead(Now, x)
    BY DEF At, Ahead
  <2>3. PICK f \in DOMAIN machine : At(Now, f) /\ (Now.func = 0 => Now.multi = machine[f].multi)
    BY <1>4 DEF Positioned, Quiet
  <2>4. f = b
    BY <1>1, <2>1, <2>3, OneAt
  <2>5. \A x \in B : ~Ahead(t, x)
    BY <1>4, <2>2 DEF Positioned
  <2> QED BY <1>4, <2>1, <2>2, <2>3, <2>4, <2>5 DEF Positioned, Quiet
<1>9. Chained(B)'
  <2>1. ASSUME NEW x \in B
        PROVE  \/ Sub(x)' < Limit
               \/ \E i \in 2 .. Len(scan) : scan[i].step = "close" /\ At(scan[i], x)
    <3>1. \A i \in 1 .. Len(scan) : scan[i].step = "close" => i \in 2 .. Len(scan)
      BY <1>3
    <3> QED BY <1>6, <3>1 DEF Known, Chained
  <2> QED BY <2>1, <1>6, <1>8, ChainMoves
<1>10. Covered(B)'
  <2>1. \A x : Ahead(t, x) <=> Ahead(Now, x)
    BY DEF Ahead
  <2> QED BY <2>1, CoverMoves
<1>11. Descriptors(B)'
  <2>1. ASSUME NEW x \in Parents(B) PROVE x \in Parents(B)' /\ Numbers(B, x)' = Numbers(B, x)
    BY <1>6 DEF Parents, Numbers
  <2> QED BY <2>1 DEF Known, Descriptors, Wire
<1> QED BY <1>5, <1>7, <1>9, <1>10, <1>11, <1>1 DEF Known

(* A number is taken and written: the bridge does not decode by it before  *)
(* the window is opened.                                                   *)
LEMMA PrimaryKeeps ==
  ASSUME NEW B, Known(B), WritePrimary
  PROVE  Known(B)'
<1>1. PciTypeOK /\ scan # <<>> /\ Now.step = "bridge" /\ pool > 0 /\ pool' = pool - 1
      /\ NextBusNumber' = NextBusNumber + 1 /\ machine' = machine /\ found' = found
      /\ WriteWindow("primary", Now.number)
  BY DEF Known, WritePrimary
<1>2. Now \in FrameType /\ Positioned(B, Now)
  BY <1>1, FramesTyped DEF Known, Chained
<1>3. /\ Limit \in Nat \ {0} /\ Limit <= BusCount /\ BusCount \in Nat \ {0}
      /\ ~InProgress /\ NextBusNumber = Limit
  BY <1>1, LimitTyped DEF Known, InProgress
<1>4. PICK b \in Bridges \ B : At(Now, b) /\ Here = {b}
  BY <1>1, BeginPlace DEF Begin
<1>5. Now.number \in Nat /\ Now.number < BusCount
  <2>1. Now.number \in 0 .. (Limit - 1)
    BY <1>2, NumberNamesWire DEF Positioned, Known, Told
  <2> QED BY <1>3, <2>1
<1>6. /\ window' \in [Bridges -> [primary : Nat, secondary : Nat, subordinate : Nat]]
      /\ \A x \in Bridges : x # b => window'[x] = window[x]
      /\ window'[b].secondary = window[b].secondary
      /\ window'[b].subordinate = window[b].subordinate
  BY <1>1, <1>4, <1>5, WindowWritten
<1>7. \A x \in Bridges : Sub(x)' = Sub(x) /\ Sec(x)' = Sec(x)
  BY <1>6 DEF Sub, Sec
<1>8. PICK t : t = [Now EXCEPT !.step = "secondary", !.secondary = NextBusNumber]
  OBVIOUS
<1>9. /\ t \in FrameType /\ t.behind = Now.behind /\ t.number = Now.number
      /\ t.slot = Now.slot /\ t.func = Now.func /\ t.multi = Now.multi
      /\ t.step = "secondary" /\ t.secondary = Limit
  BY <1>2, <1>3, <1>8 DEF FrameType, Steps, Begin
<1>10. scan' = <<t>> \o Tail(scan)
  BY <1>8 DEF WritePrimary
<1>11. scan' # <<>> /\ Now' = t
  BY <1>1, <1>9, <1>10, TopReplaced DEF Now
<1>12. Limit' = Limit
  BY <1>1, <1>3, <1>9, <1>11 DEF Limit, InProgress
<1>13. Unbegun(B)'
  <2>1. ASSUME NEW u \in Bridges \ B
        PROVE  IF Unnumbered(machine) THEN Sub(u) = 0
               ELSE machine[u].secondary >= Limit /\ Sec(u) = machine[u].secondary
    BY <1>1 DEF Known, Unbegun, Opening
  <2>2. Bridges' = Bridges
    BY <1>1 DEF Bridges
  <2> QED BY <1>1, <1>7, <1>9, <1>11, <1>12, <2>1, <2>2 DEF Unbegun, Opening
<1>14. NextBusNumber' \in Nat /\ pool' \in Nat
  BY <1>1 DEF PciTypeOK
<1> QED BY <1>1, <1>4, <1>6, <1>7, <1>9, <1>10, <1>12, <1>13, <1>14, NumberingKeeps

LEMMA SecondaryKeeps ==
  ASSUME NEW B, Known(B), WriteSecondary
  PROVE  Known(B)'
<1>1. PciTypeOK /\ scan # <<>> /\ Now.step = "secondary" /\ pool' = pool
      /\ NextBusNumber' = NextBusNumber /\ machine' = machine /\ found' = found
      /\ WriteWindow("secondary", Now.secondary)
  BY DEF Known, WriteSecondary
<1>2. Now \in FrameType /\ Positioned(B, Now)
  BY <1>1, FramesTyped DEF Known, Chained
<1>3. Now.secondary = Limit /\ Limit \in Nat \ {0} /\ InProgress
  BY <1>1, <1>2, LimitTyped DEF Known, InProgress, Positioned
<1>4. PICK b \in Bridges \ B : At(Now, b) /\ Here = {b}
  BY <1>1, BeginPlace DEF Begin
<1>5. Limit < BusCount
  BY <1>1, BeginPlace DEF Begin
<1>6. /\ window' \in [Bridges -> [primary : Nat, secondary : Nat, subordinate : Nat]]
      /\ \A x \in Bridges : x # b => window'[x] = window[x]
      /\ window'[b].secondary = Limit
      /\ window'[b].subordinate = window[b].subordinate
  BY <1>1, <1>3, <1>4, <1>5, WindowWritten
<1>7. \A x \in Bridges : Sub(x)' = Sub(x) /\ (x # b => Sec(x)' = Sec(x))
  BY <1>6 DEF Sub, Sec
<1>8. PICK t : t = [Now EXCEPT !.step = "open"]
  OBVIOUS
<1>9. /\ t \in FrameType /\ t.behind = Now.behind /\ t.number = Now.number
      /\ t.slot = Now.slot /\ t.func = Now.func /\ t.multi = Now.multi
      /\ t.step = "open" /\ t.secondary = Limit
  BY <1>2, <1>3, <1>8 DEF FrameType, Steps, Begin
<1>10. scan' = <<t>> \o Tail(scan)
  BY <1>8 DEF WriteSecondary, Goto
<1>11. scan' # <<>> /\ Now' = t
  BY <1>1, <1>9, <1>10, TopReplaced DEF Now
<1>12. Limit' = Limit
  BY <1>1, <1>3, <1>9, <1>11 DEF Limit, InProgress
<1>13. Unbegun(B)'
  <2>1. ASSUME NEW u \in Bridges \ B
        PROVE  IF Unnumbered(machine) THEN Sub(u) = 0
               ELSE machine[u].secondary >= Limit /\ Sec(u) = machine[u].secondary
    BY <1>1 DEF Known, Unbegun, Opening
  <2>2. Bridges' = Bridges
    BY <1>1 DEF Bridges
  <2>3. At(t, b) /\ Sec(b)' = Limit
    BY <1>4, <1>6, <1>9 DEF At, Sec
  <2>4. ASSUME NEW u \in Bridges \ B
        PROVE  /\ At(t, u) => Sec(u)' = Limit
               /\ IF Unnumbered(machine) THEN Sub(u)' = 0
                  ELSE /\ machine[u].secondary >= Limit
                       /\ At(t, u) \/ Sec(u)' = machine[u].secondary
    <3>1. At(t, u) => u = b
      BY <1>1, <2>3, OneAt DEF Bridges, BridgesOf
    <3> QED BY <1>7, <2>1, <2>3, <3>1
  <2>5. \A u : At(t, u) <=> At(Now, u)'
    BY <1>1, <1>11 DEF At, Wire
  <2> QED BY <1>1, <1>9, <1>11, <1>12, <2>2, <2>4, <2>5 DEF Unbegun, Opening
<1>14. NextBusNumber' \in Nat /\ pool' \in Nat
  BY <1>1 DEF PciTypeOK
<1> QED BY <1>1, <1>3, <1>4, <1>6, <1>7, <1>9, <1>10, <1>12, <1>13, <1>14, NumberingKeeps

(* The bridge that is numbered is the first, in the order in which         *)
(* firmware gave the numbers, of those that have none yet: what has none   *)
(* lies behind it, or behind it in the scan.                               *)
LEMMA FirstInOrder ==
  ASSUME NEW B, Known(B), scan # <<>>, Now.step = "open", NEW b \in Bridges \ B, At(Now, b),
         ~Unnumbered(machine), NEW u \in Bridges \ B, u # b
  PROVE  machine[b].secondary < machine[u].secondary
<1>1. PciTypeOK /\ machine \in Machines /\ Bridges = BridgesOf(machine)
  BY DEF Known, PciTypeOK, Bridges
<1>2. \A x, y \in Bridges :
        /\ x # y /\ Within(machine, y, x) => machine[x].secondary < machine[y].secondary
        /\ \A p, q \in Bridges :
             Before(machine, p, q) /\ Within(machine, x, p) /\ Within(machine, y, q)
               => machine[x].secondary < machine[y].secondary
  BY <1>1, NumberAssumption
<1>3. CASE Within(machine, u, b)
  BY <1>2, <1>3
<1>4. CASE ~Within(machine, u, b)
  <2> DEFINE S == {x \in Bridges \ B : Within(machine, u, x)}
  <2>1. u \in S /\ S \in SUBSET Bridges
    BY <1>1, WithinItself
  <2>2. PICK a \in S : machine[a].wire \notin S
    BY <1>1, <2>1, BusAssumption
  <2>3. a \in Bridges \ B /\ Within(machine, u, a) /\ a # b
    BY <1>4
  <2>4. Wire(a) \in Parents(B)
    <3>1. Wire(a) \in Bridges \cup {Root}
      BY <1>1, <2>3, MachineFacts DEF Wire
    <3>2. Wire(a) \in Bridges => Within(machine, u, Wire(a))
      BY <1>1, <2>3, WithinNext DEF Wire
    <3> QED BY <2>2, <3>1, <3>2 DEF Wire, Parents
  <2>5. PICK i \in 1 .. Len(scan) : Ahead(scan[i], a)
    BY <2>3, <2>4 DEF Known, Covered, InProgress
  <2>6. /\ Now = scan[1] /\ Len(scan) \in Nat /\ i \in Nat
        /\ scan[i] \in FrameType /\ Positioned(B, scan[i])
    BY <1>1, FramesTyped DEF Known, Chained
  <2>7. \A x \in Bridges : machine[x].slot \in Nat /\ machine[x].func \in Nat
    BY <1>1, MachineFacts
  <2>8. scan[i].slot \in Nat /\ scan[i].func \in Nat
    BY <2>6, PciAssumption DEF FrameType
  <2>9. ASSUME NEW p \in Bridges, At(scan[i], p), p # a PROVE Before(machine, p, a)
    <3>1. Wire(p) = Wire(a) /\ (machine[a].slot > machine[p].slot \/
            (machine[a].slot = machine[p].slot /\ machine[a].func >= machine[p].func))
      BY <2>5, <2>9 DEF At, Ahead
    <3>2. ~(machine[a].slot = machine[p].slot /\ machine[a].func = machine[p].func)
      BY <1>1, <2>3, <2>9, <3>1, MachineFacts, BusAssumption DEF Wire, SameSlot
    <3> QED BY <2>3, <2>7, <3>1, <3>2 DEF Before, Wire
  <2>10. CASE i = 1
    <3>1. Before(machine, b, a)
      BY <2>3, <2>6, <2>9, <2>10
    <3> QED BY <1>1, <1>2, <2>3, <3>1, WithinItself
  <2>11. CASE i # 1
    <3> DEFINE p == scan[i - 1].behind
    <3>1. i \in 2 .. Len(scan) /\ i - 1 \in 1 .. Len(scan) /\ i - 1 < Len(scan)
      BY <2>6, <2>11
    <3>2. At(scan[i], p)
      BY <3>1 DEF Known, Chained
    <3>3. p \in B /\ p \in Bridges
      <4>1. p \in Parents(B) /\ p # Root
        BY <3>1, <2>6 DEF Known, Chained, Positioned
      <4> QED BY <4>1 DEF Parents, Known, Numbered
    <3>4. Before(machine, p, a)
      BY <2>3, <2>9, <3>2, <3>3
    <3>5. Within(machine, b, p)
      <4>1. Wire(b) = scan[1].behind
        BY <2>6 DEF At
      <4>2. Within(machine, Wire(b), p) /\ Wire(b) \in Bridges
        <5>1. CASE i - 1 = 1
          BY <1>1, <4>1, <5>1, <3>3, WithinItself
        <5>2. CASE i - 1 # 1
          <6>1. 1 \in 1 .. Len(scan) /\ 1 < i - 1 /\ 1 # Len(scan)
            BY <2>6, <3>1, <5>2
          <6>2. Within(machine, scan[1].behind, p)
            BY <3>1, <6>1 DEF Known, Chained
          <6>3. scan[1].behind \in Parents(B) /\ scan[1].behind # Root
            BY <6>1 DEF Known, Chained, Positioned
          <6> QED BY <4>1, <6>2, <6>3 DEF Parents, Known, Numbered
        <5> QED BY <5>1, <5>2
      <4> QED BY <1>1, <4>2, WithinUp DEF Wire
    <3> HIDE DEF p
    <3> QED BY <1>2, <2>3, <3>3, <3>4, <3>5
  <2> QED BY <2>10, <2>11
<1> QED BY <1>3, <1>4

(* The window is opened to the end, and the bridge has begun.              *)
LEMMA OpenKeeps ==
  ASSUME NEW B, Known(B), OpenWindow
  PROVE  \E b \in Bridges \ B : At(Now, b) /\ Known(B \cup {b})'
<1>1. PciTypeOK /\ scan # <<>> /\ Now.step = "open" /\ pool' = pool /\ Numbered(B)
      /\ NextBusNumber' = NextBusNumber /\ machine' = machine /\ found' = found
      /\ WriteWindow("subordinate", Opened) /\ machine \in Machines /\ B \subseteq Bridges
  BY DEF Known, OpenWindow, PciTypeOK, Numbered
<1>2. Now \in FrameType /\ Positioned(B, Now)
  BY <1>1, FramesTyped DEF Known, Chained
<1>3. PICK b \in Bridges \ B : At(Now, b) /\ Here = {b} /\ Wire(b) \in Parents(B)
  BY <1>1, BeginPlace DEF Begin
<1>4. /\ Limit \in Nat \ {0} /\ Limit < BusCount /\ BusCount \in Nat \ {0} /\ InProgress
      /\ IsFiniteSet(B) /\ Cardinality(B) \in Nat /\ NextBusNumber = Limit + 1
      /\ Now.secondary = Limit /\ Sec(b) = Limit
  <2>1. InProgress
    BY <1>1 DEF InProgress
  <2> QED BY <1>1, <1>2, <1>3, <2>1, LimitTyped, BeginPlace
          DEF Begin, Positioned, Known, Unbegun, Opening
<1>5. /\ window' \in [Bridges -> [primary : Nat, secondary : Nat, subordinate : Nat]]
      /\ \A x \in Bridges : x # b => window'[x] = window[x]
      /\ window'[b].secondary = window[b].secondary
      /\ window'[b].subordinate = BusCount - 1
  <2>1. Opened \in Nat /\ Opened < BusCount /\ Opened = BusCount - 1
    BY <1>4 DEF Opened
  <2> QED BY <1>1, <1>3, <2>1, WindowWritten
<1>6. /\ \A x \in Bridges : x # b => Sec(x)' = Sec(x) /\ Sub(x)' = Sub(x)
      /\ Sec(b)' = Limit /\ Sub(b)' = BusCount - 1
  BY <1>4, <1>5 DEF Sec, Sub
<1>7. PICK p : p = Frame(b, Limit)
  OBVIOUS
<1>8. PICK t : t = [Now EXCEPT !.step = "close"]
  OBVIOUS
<1>9. /\ p \in FrameType /\ p.behind = b /\ p.number = Limit /\ p.slot = 0 /\ p.func = 0
      /\ p.step = "function"
  BY <1>3, <1>4, <1>7, PciAssumption DEF FrameType, Frame, Steps, Quiet, Bridges, BridgesOf
<1>10. /\ t \in FrameType /\ t.behind = Now.behind /\ t.number = Now.number
       /\ t.slot = Now.slot /\ t.func = Now.func /\ t.multi = Now.multi /\ t.step = "close"
  BY <1>2, <1>8 DEF FrameType, Steps
<1>11. scan' = <<p, t>> \o Tail(scan)
  BY <1>3, <1>4, <1>7, <1>8 DEF OpenWindow
<1>12. /\ scan' \in Seq(FrameType) /\ Len(scan') = Len(scan) + 1 /\ scan' # <<>> /\ Now' = p
       /\ scan'[1] = p /\ scan'[2] = t
       /\ \A i \in 2 .. Len(scan) : scan'[i + 1] = scan[i]
  BY <1>1, <1>9, <1>10, <1>11, TopPushed
<1>13. Now = scan[1] /\ 1 \in 1 .. Len(scan) /\ Len(scan) \in Nat
  BY <1>1, FramesTyped
<1>14. ~InProgress' /\ Limit' = Limit + 1
  BY <1>1, <1>4, <1>9, <1>12 DEF InProgress, Limit
<1> DEFINE C == B \cup {b}
<1>15. Bridges' = Bridges /\ FrameType' = FrameType /\ \A x : Wire(x)' = Wire(x)
  BY <1>1 DEF Bridges, FrameType, Wire
<1>16. PciTypeOK'
  BY <1>1, <1>5, <1>12, <1>15 DEF PciTypeOK
<1>17. \A x \in Bridges : Sec(x) \in Nat /\ Sub(x) \in Nat
  BY <1>1, WindowTyped
(* Whoever is open stands in the way of the scan.                          *)
<1>18. ASSUME NEW x \in B, Sub(x) >= Limit
       PROVE  /\ Wire(x) # Wire(b)
              /\ \E i \in 2 .. Len(scan) : scan[i].step = "close" /\ At(scan[i], x)
  <2>1. ~(Sub(x) < Limit)
    BY <1>1, <1>4, <1>17, <1>18
  <2>2. PICK i \in 1 .. Len(scan) : scan[i].step = "close" /\ At(scan[i], x)
    BY <2>1 DEF Known, Chained
  <2>3. i \in 2 .. Len(scan) /\ 1 < i
    BY <1>1, <1>13, <2>2
  <2>4. /\ scan[i].number < scan[1].number
        /\ scan[1].number = Numbers(B, scan[1].behind) /\ scan[i].number = Numbers(B, scan[i].behind)
        /\ scan[i].number \in Nat
    BY <1>1, <1>13, <2>3, FramesTyped DEF Known, Chained, Positioned, FrameType
  <2>5. scan[i].behind # scan[1].behind
    BY <2>4
  <2> QED BY <1>3, <1>13, <2>2, <2>3, <2>5 DEF At
<1>19. Numbered(C)'
  <2>1. C \subseteq Bridges /\ Cardinality(C) = Cardinality(B) + 1
    BY <1>1, <1>3, <1>4, FS_AddElement
  <2>2. Limit' = Cardinality(C) + 1
    BY <1>1, <1>14, <2>1 DEF Numbered
  <2>3. ASSUME NEW x \in B
        PROVE  /\ 0 < Sec(x)' /\ Sec(x)' < Limit /\ Sec(x)' <= Sub(x)' /\ Sub(x)' < BusCount
               /\ Wire(x) \in Parents(B)
               /\ Wire(x) # Root => Sec(Wire(x))' < Sec(x)' /\ Sub(x)' <= Sub(Wire(x))'
    <3>1. x # b /\ x \in Bridges /\ (Wire(x) \in Parents(B))
      BY <1>1, <1>3 DEF Numbered
    <3>2. Wire(x) # Root => Wire(x) \in B /\ Wire(x) # b /\ Wire(x) \in Bridges
      BY <1>1, <1>3, <3>1 DEF Parents
    <3> QED BY <1>1, <1>6, <1>15, <3>1, <3>2 DEF Numbered
  <2>4. /\ 0 < Sec(b)' /\ Sec(b)' < Limit + 1 /\ Sec(b)' <= Sub(b)' /\ Sub(b)' < BusCount
        /\ Wire(b) \in Parents(B)
        /\ Wire(b) # Root => Sec(Wire(b))' < Sec(b)' /\ Sub(b)' <= Sub(Wire(b))'
    <3>1. ASSUME Wire(b) # Root PROVE Sec(Wire(b))' < Limit /\ Sub(Wire(b))' = BusCount - 1
      <4>1. Wire(b) \in B /\ Wire(b) # b /\ Wire(b) \in Bridges
        BY <1>1, <1>3, <3>1 DEF Parents
      <4>2. Wire(b) = scan[1].behind
        BY <1>3, <1>13 DEF At
      <4>3. Len(scan) # 1
        BY <1>13, <3>1, <4>2 DEF Known, Chained
      <4>4. 2 \in 2 .. Len(scan) /\ 2 \in 1 .. Len(scan)
        BY <1>13, <4>3
      <4>5. scan[2].step = "close" /\ At(scan[2], Wire(b)) /\ Positioned(B, scan[2])
        BY <4>2, <4>4 DEF Known, Chained
      <4>6. PICK f \in DOMAIN machine : At(scan[2], f) /\ Sub(f) = BusCount - 1
        BY <4>5 DEF Positioned, Quiet
      <4>7. f = Wire(b)
        BY <1>1, <4>1, <4>5, <4>6, OneAt DEF Bridges, BridgesOf
      <4> QED BY <1>1, <1>6, <1>15, <4>1, <4>6, <4>7 DEF Numbered
    <3> QED BY <1>3, <1>4, <1>6, <3>1
  <2>5. ASSUME NEW x \in B, NEW y \in B, x # y
        PROVE  /\ Sec(x)' # Sec(y)'
               /\ Wire(x) = Wire(y) => Sub(x)' < Sec(y)' \/ Sub(y)' < Sec(x)'
    BY <1>1, <1>3, <1>6, <2>5 DEF Numbered
  <2>6. ASSUME NEW x \in B
        PROVE  Sec(x)' < Sec(b)' /\ (Wire(x) = Wire(b) => Sub(x)' < Sec(b)')
    <3>1. x \in Bridges /\ x # b /\ Sec(x) < Limit
      BY <1>1, <1>3 DEF Numbered
    <3>2. Wire(x) = Wire(b) => Sub(x) < Limit
      BY <1>4, <1>17, <1>18, <3>1
    <3> QED BY <1>6, <3>1, <3>2
  <2>7. \A x \in C : Sec(x)' < Limit + 1
    BY <1>4, <1>6, <1>17, <1>1, <2>3, <2>4
  <2>8. \A x \in C : Sec(x)' \in Nat
    BY <1>1, <1>3, <1>4, <1>6, <1>17
  <2>9. \A x, y \in C : x # y =>
          /\ Sec(x)' # Sec(y)'
          /\ Wire(x) = Wire(y) => Sub(x)' < Sec(y)' \/ Sub(y)' < Sec(x)'
    BY <2>5, <2>6, <2>8
  <2>10. \A x \in C :
          /\ 0 < Sec(x)' /\ Sec(x)' < Limit' /\ Sec(x)' <= Sub(x)' /\ Sub(x)' < BusCount
          /\ Wire(x) \in Parents(C)
          /\ Wire(x) # Root => Sec(Wire(x))' < Sec(x)' /\ Sub(x)' <= Sub(Wire(x))'
    BY <1>14, <2>3, <2>4, <2>7 DEF Parents
  <2> HIDE DEF C
  <2> QED BY <1>15, <2>1, <2>2, <2>9, <2>10 DEF Numbered, Parents
<1>20. Unbegun(C)'
  <2>1. ASSUME NEW u \in Bridges \ C
        PROVE  IF Unnumbered(machine) THEN Sub(u)' = 0
               ELSE machine[u].secondary >= Limit + 1 /\ Sec(u)' = machine[u].secondary
    <3>1. u \in Bridges \ B /\ u # b /\ Sub(u)' = Sub(u) /\ Sec(u)' = Sec(u)
      BY <1>6
    <3>2. ~Opening(u)
      BY <1>1, <1>3, <3>1, OneAt DEF Opening, Bridges, BridgesOf
    <3>3. IF Unnumbered(machine) THEN Sub(u) = 0
          ELSE machine[u].secondary >= Limit /\ Sec(u) = machine[u].secondary
      BY <3>1, <3>2 DEF Known, Unbegun
    <3>4. ~Unnumbered(machine) => machine[b].secondary < machine[u].secondary
      BY <1>1, <1>3, <3>1, FirstInOrder
    <3>5. ~Unnumbered(machine) => machine[b].secondary >= Limit
      BY <1>3 DEF Known, Unbegun
    <3>6. machine[u].secondary \in Nat /\ machine[b].secondary \in Nat
      BY <1>1, MachineFacts DEF Bridges
    <3> QED BY <1>4, <3>1, <3>3, <3>4, <3>5, <3>6
  <2>2. \A u : ~Opening(u)'
    BY <1>9, <1>12 DEF Opening
  <2> HIDE DEF C
  <2> QED BY <1>1, <1>14, <1>15, <2>1, <2>2 DEF Unbegun
<1>21. Descriptors(C)'
  <2>1. ASSUME NEW x \in Parents(B) PROVE x \in Parents(C)' /\ Numbers(C, x)' = Numbers(B, x)
    BY <1>1, <1>3, <1>6 DEF Parents, Numbers
  <2> HIDE DEF C
  <2> QED BY <1>1, <2>1 DEF Known, Descriptors, Wire
<1>22. Covered(C)'
  <2> SUFFICES ASSUME NEW u \in Bridges \ C, Wire(u) \in Parents(C)
               PROVE  \E i \in 1 .. (Len(scan) + 1) : Ahead(scan[i], u)'
    BY <1>12, <1>15 DEF Covered, Parents
  <2>1. machine[u].slot \in Nat /\ machine[u].func \in Nat
    BY <1>1, MachineFacts DEF Bridges
  <2>2. CASE Wire(u) = b
    <3>1. Ahead(p, u)
      BY <1>9, <2>1, <2>2 DEF Ahead
    <3>2. Ahead(scan[1], u)'
      BY <1>1, <1>12, <3>1 DEF Ahead, Wire
    <3> QED BY <1>13, <3>2
  <2>3. CASE Wire(u) # b
    <3>1. u \in Bridges \ B /\ Wire(u) \in Parents(B)
      BY <2>3 DEF Parents
    <3>2. PICK i \in 1 .. Len(scan) : Ahead(scan[i], u)
      BY <1>4, <3>1 DEF Known, Covered
    <3>3. CASE i = 1
      <4>1. Ahead(t, u)
        BY <1>10, <1>13, <3>2, <3>3 DEF Ahead
      <4>2. Ahead(scan[2], u)'
        BY <1>1, <1>12, <4>1 DEF Ahead, Wire
      <4>3. 2 \in 1 .. (Len(scan) + 1)
        BY <1>13
      <4> QED BY <4>2, <4>3
    <3>4. CASE i # 1
      <4>1. i \in 2 .. Len(scan) /\ i + 1 \in 1 .. (Len(scan) + 1)
        BY <1>13, <3>4
      <4>2. scan'[i + 1] = scan[i]
        BY <1>12, <4>1
      <4>3. Ahead(scan[i + 1], u)'
        BY <1>1, <3>2, <4>2 DEF Ahead, Wire
      <4> QED BY <4>1, <4>3
    <3> QED BY <3>3, <3>4
  <2> QED BY <2>2, <2>3
<1>23. Chained(C)'
  <2>1. ASSUME NEW i \in 2 .. Len(scan) PROVE Positioned(C, scan[i + 1])'
    <3>1. i \in 1 .. Len(scan)
      BY <1>13
    <3>2. PICK s : s = scan[i]
      OBVIOUS
    <3>3. Positioned(B, s) /\ s.step = "close"
      BY <3>1, <3>2 DEF Known, Chained
    <3>4. s.behind \in Parents(C) /\ s.number = Numbers(B, s.behind)
          /\ Numbers(C, s.behind)' = Numbers(B, s.behind)
      BY <1>1, <1>3, <1>6, <3>3 DEF Positioned, Parents, Numbers
    <3>5. PICK f \in DOMAIN machine :
            /\ At(s, f) /\ (s.func = 0 => s.multi = machine[f].multi)
            /\ f \in B /\ Sub(f) = BusCount - 1
      BY <3>3 DEF Positioned, Quiet
    <3>6. f \in C /\ Sub(f)' = BusCount - 1
      BY <1>1, <1>3, <1>6, <3>5
    <3>7. ASSUME NEW x \in C, Ahead(s, x) PROVE At(s, x)
      <4>1. x # b
        <5>1. /\ s.number < scan[1].number /\ s.number \in Nat
              /\ scan[1].number = Numbers(B, scan[1].behind)
          BY <1>1, <1>13, <3>1, <3>2, FramesTyped DEF Known, Chained, Positioned, FrameType
        <5>2. s.behind # scan[1].behind
          BY <3>4, <5>1
        <5> QED BY <1>3, <1>13, <3>7, <5>2 DEF Ahead, At
      <4> QED BY <3>3, <3>7, <4>1 DEF Positioned
    <3>8. s.slot < SlotCount
      BY <3>3 DEF Positioned
    <3>9. scan'[i + 1] = s
      BY <1>12, <3>2
    <3>10. Positioned(C, s)'
      <4>1. \A x : At(s, x)' = At(s, x) /\ Ahead(s, x)' = Ahead(s, x)
        BY <1>1 DEF At, Ahead, Wire
      <4> HIDE DEF C
      <4> QED BY <1>1, <1>15, <3>3, <3>4, <3>5, <3>6, <3>7, <3>8, <4>1
              DEF Positioned, Begin, Parents, At, Ahead, Wire
    <3> HIDE DEF C
    <3> QED BY <3>9, <3>10 DEF Positioned, Parents, Numbers, At, Ahead, Wire, Sec, Sub, Bridges
  <2>2. ASSUME NEW i \in 1 .. Len(scan)
        PROVE  /\ i + 1 \in 1 .. (Len(scan) + 1)
               /\ scan'[i + 1].behind = scan[i].behind /\ scan'[i + 1].number = scan[i].number
               /\ scan'[i + 1].slot = scan[i].slot /\ scan'[i + 1].func = scan[i].func
               /\ scan'[i + 1].step = "close"
    <3>1. i = 1 \/ i \in 2 .. Len(scan)
      BY <1>13
    <3>2. CASE i = 1
      BY <1>10, <1>12, <1>13, <3>2
    <3>3. CASE i \in 2 .. Len(scan)
      BY <1>12, <1>13, <3>3 DEF Known, Chained
    <3> QED BY <3>1, <3>2, <3>3
  <2>3. ASSUME NEW j \in 1 .. (Len(scan) + 1), j # 1
        PROVE  \E i \in 1 .. Len(scan) : j = i + 1
    <3>1. j - 1 \in 1 .. Len(scan) /\ j = (j - 1) + 1
      BY <1>13, <2>3
    <3> QED BY <3>1
  <2>4. b \in DOMAIN machine /\ b # Root /\ machine[b].slot \in Nat /\ machine[b].func \in Nat
    BY <1>1, <1>3, MachineFacts DEF Bridges
  <2>5. Positioned(C, p)'
    <3>1. /\ b \in C /\ Numbers(C, b)' = Limit
      BY <1>6, <2>4 DEF Numbers
    <3>2. ASSUME NEW x \in C PROVE Wire(x) # b
      <4>1. Wire(x) \in Parents(B)
        BY <1>1, <1>3 DEF Numbered
      <4> QED BY <1>3, <2>4, <4>1 DEF Parents
    <3>3. \A x \in C : ~Ahead(p, x)'
      BY <1>1, <1>9, <3>2 DEF Ahead, Wire
    <3>4. 0 < SlotCount
      BY PciAssumption
    <3> HIDE DEF C
    <3> QED BY <1>9, <3>1, <3>3, <3>4 DEF Positioned, Parents, Quiet
  <2>6. Positioned(C, t)'
    <3>1. t.behind \in Parents(C) /\ Numbers(C, t.behind)' = t.number
      BY <1>1, <1>2, <1>3, <1>6, <1>10 DEF Positioned, Parents, Numbers
    <3>2. At(t, b)' /\ (t.func = 0 => t.multi = machine[b].multi)
      <4>1. PICK f \in DOMAIN machine : At(Now, f) /\ (Now.func = 0 => Now.multi = machine[f].multi)
        BY <1>1, <1>2 DEF Positioned, Quiet
      <4>2. f = b
        BY <1>1, <1>3, <2>4, <4>1, OneAt
      <4> QED BY <1>1, <1>3, <1>10, <4>1, <4>2 DEF At, Wire
    <3>3. ASSUME NEW x \in C, Ahead(t, x)' PROVE At(t, x)'
      <4>1. Ahead(Now, x)
        BY <1>1, <1>10, <3>3 DEF Ahead, Wire
      <4>2. x = b
        BY <1>1, <1>2, <4>1 DEF Positioned
      <4> QED BY <3>2, <4>2
    <3>4. t.slot < SlotCount
      BY <1>1, <1>2, <1>10 DEF Positioned
    <3>5. b \in C
      OBVIOUS
    <3> HIDE DEF C
    <3> QED BY <1>1, <1>6, <1>10, <2>4, <3>1, <3>2, <3>3, <3>4, <3>5
            DEF Positioned, Parents, Begin
  <2>7. ASSUME NEW j \in 1 .. (Len(scan) + 1) PROVE Positioned(C, scan[j])'
    <3>1. CASE j = 1
      BY <1>12, <2>5, <3>1 DEF Positioned, Parents, Numbers, At, Ahead, Wire, Sec, Sub, Bridges
    <3>2. CASE j = 2
      BY <1>12, <2>6, <3>2 DEF Positioned, Parents, Numbers, At, Ahead, Wire, Sec, Sub, Bridges
    <3>3. CASE j # 1 /\ j # 2
      <4>1. j - 1 \in 2 .. Len(scan) /\ j = (j - 1) + 1
        BY <1>13, <3>3
      <4> HIDE DEF C
      <4> QED BY <2>1, <4>1
    <3> QED BY <3>1, <3>2, <3>3
  <2>8. ASSUME NEW j \in 1 .. (Len(scan) + 1)
        PROVE  scan'[j].behind = Root <=> j = Len(scan) + 1
    <3>1. CASE j = 1
      BY <1>9, <1>12, <1>13, <2>4, <3>1
    <3>2. CASE j # 1
      <4>1. PICK i \in 1 .. Len(scan) : j = i + 1
        BY <2>3, <3>2
      <4>2. scan[i].behind = Root <=> i = Len(scan)
        BY DEF Known, Chained
      <4> QED BY <1>13, <2>2, <4>1, <4>2
    <3> QED BY <3>1, <3>2
  <2>9. ASSUME NEW j \in 2 .. (Len(scan) + 1)
        PROVE  scan'[j].step = "close" /\ At(scan[j], scan[j - 1].behind)'
    <3>1. PICK i \in 1 .. Len(scan) : j = i + 1
      BY <1>13, <2>3
    <3>2. PICK s : s = scan'[i + 1]
      OBVIOUS
    <3>3. At(s, scan'[i].behind)
      <4>1. CASE i = 1
        BY <1>3, <1>9, <1>12, <1>13, <2>2, <3>2, <4>1 DEF At
      <4>2. CASE i # 1
        <5>1. i \in 2 .. Len(scan) /\ i - 1 \in 1 .. Len(scan) /\ (i - 1) + 1 = i
          BY <1>13, <4>2
        <5>2. At(scan[i], scan[i - 1].behind)
          BY <5>1 DEF Known, Chained
        <5>3. scan'[i].behind = scan[i - 1].behind
          BY <2>2, <5>1
        <5> QED BY <2>2, <3>2, <5>2, <5>3 DEF At
      <4> QED BY <4>1, <4>2
    <3>4. (i + 1) - 1 = i
      BY <1>13
    <3> QED BY <1>1, <2>2, <3>1, <3>2, <3>3, <3>4 DEF At, Wire
  <2>10. ASSUME NEW i \in 1 .. (Len(scan) + 1), NEW j \in 1 .. (Len(scan) + 1), i < j
         PROVE  /\ scan'[j].number < scan'[i].number
                /\ j < Len(scan) + 1 => Within(machine', scan'[i].behind, scan'[j].behind)
    <3>1. PICK k \in 1 .. Len(scan) : j = k + 1
      BY <1>13, <2>3, <2>10
    <3>2. /\ scan'[j].number = scan[k].number /\ scan'[j].behind = scan[k].behind
          /\ scan[k].number = Numbers(B, scan[k].behind) /\ scan[k].behind \in Parents(B)
      BY <2>2, <3>1 DEF Known, Chained, Positioned
    <3>3. CASE i = 1
      <4>1. scan[k].number < Limit
        <5>1. scan[k].number \in 0 .. (Limit - 1)
          BY <3>2, NumberNamesWire DEF Known, Told
        <5> QED BY <1>4, <5>1
      <4>2. ASSUME k < Len(scan) PROVE Within(machine, b, scan[k].behind)
        <5>1. /\ 1 # Len(scan) /\ Wire(b) = scan[1].behind
          <6>1. Wire(b) = scan[1].behind
            BY <1>3, <1>13 DEF At
          <6>2. Len(scan) # 1
            <7> DEFINE n == Len(scan)
            <7>1. n \in Nat /\ k \in 1 .. n /\ k < n
              BY <1>13, <4>2
            <7> HIDE DEF n
            <7>2. n # 1
              BY <7>1
            <7> QED BY <7>2 DEF n
          <6> QED BY <6>1, <6>2
        <5>2. Wire(b) # Root
          BY <1>13, <5>1 DEF Known, Chained
        <5>3. Wire(b) \in Bridges
          BY <1>1, <1>3, <5>2 DEF Parents
        <5>4. Within(machine, Wire(b), scan[k].behind)
          <6>1. CASE k = 1
            BY <1>1, <5>1, <5>3, <6>1, WithinItself DEF Bridges
          <6>2. CASE k # 1
            BY <1>13, <4>2, <5>1, <6>2 DEF Known, Chained
          <6> QED BY <6>1, <6>2
        <5> QED BY <1>1, <1>3, <5>3, <5>4, WithinUp DEF Wire, Bridges
      <4> QED BY <1>1, <1>9, <1>12, <1>13, <3>1, <3>2, <3>3, <4>1, <4>2
    <3>4. CASE i # 1
      <4>1. PICK l \in 1 .. Len(scan) : i = l + 1
        BY <2>3, <3>4
      <4>2. l < k /\ (j < Len(scan) + 1 => k < Len(scan))
        BY <1>13, <2>10, <3>1, <4>1
      <4>3. /\ scan[k].number < scan[l].number
            /\ k < Len(scan) => Within(machine, scan[l].behind, scan[k].behind)
        BY <4>2 DEF Known, Chained
      <4> QED BY <1>1, <2>2, <3>2, <4>1, <4>2, <4>3
    <3> QED BY <3>3, <3>4
  <2>11. ASSUME NEW x \in C
         PROVE  Sub(x)' < Limit' \/ \E j \in 1 .. (Len(scan) + 1) :
                                      scan'[j].step = "close" /\ At(scan[j], x)'
    <3>1. CASE x = b
      <4>1. 2 \in 1 .. (Len(scan) + 1) /\ At(scan[2], b)'
        BY <1>1, <1>3, <1>10, <1>12, <1>13 DEF At, Wire
      <4> QED BY <1>10, <1>12, <3>1, <4>1
    <3>2. CASE x # b /\ Sub(x) < Limit
      BY <1>1, <1>4, <1>6, <1>14, <1>17, <3>2
    <3>3. CASE x # b /\ ~(Sub(x) < Limit)
      <4>1. x \in B /\ Sub(x) >= Limit
        BY <1>1, <1>4, <1>17, <3>3
      <4>2. PICK i \in 2 .. Len(scan) : scan[i].step = "close" /\ At(scan[i], x)
        BY <1>18, <4>1
      <4>3. i \in 1 .. Len(scan) /\ i + 1 \in 1 .. (Len(scan) + 1) /\ scan'[i + 1] = scan[i]
        BY <1>12, <1>13
      <4>4. At(scan[i + 1], x)'
        BY <1>1, <4>2, <4>3 DEF At, Wire
      <4> QED BY <4>2, <4>3, <4>4
    <3> QED BY <3>1, <3>2, <3>3
  <2> HIDE DEF C
  <2> QED BY <1>12, <2>7, <2>8, <2>9, <2>10, <2>11 DEF Chained
<1>24. Known(C)'
  BY <1>16, <1>19, <1>20, <1>21, <1>22, <1>23 DEF Known
<1> QED BY <1>3, <1>24

(* The scan of a bus ends: nothing lay ahead on its wire any more.         *)
LEMMA EndBusKeeps ==
  ASSUME NEW B, Known(B), EndBus
  PROVE  Known(B)'
<1>1. PciTypeOK /\ scan # <<>> /\ Now.step = "end" /\ found' = found /\ pool' = pool
      /\ scan' = Tail(scan) /\ machine \in Machines
  BY DEF Known, EndBus, PciTypeOK
<1>2. Still
  BY DEF EndBus, Still
<1>3. Now = scan[1] /\ 1 \in 1 .. Len(scan) /\ Len(scan) \in Nat
  BY <1>1, FramesTyped
<1>4. /\ scan' \in Seq(FrameType) /\ Len(scan') = Len(scan) - 1
      /\ \A i \in 1 .. (Len(scan) - 1) : scan'[i] = scan[i + 1]
  BY <1>1, TopPopped
<1>5. \A i \in 1 .. (Len(scan) - 1) :
        i + 1 \in 2 .. Len(scan) /\ i + 1 \in 1 .. Len(scan) /\ i \in 1 .. Len(scan)
  BY <1>3
<1>6. \A i \in 1 .. (Len(scan) - 1) : scan'[i].step = "close"
  BY <1>4, <1>5 DEF Known, Chained
<1>7. ~InProgress /\ ~InProgress' /\ Limit' = Limit
  <2>1. scan' # <<>> => Now' = scan'[1] /\ 1 \in 1 .. (Len(scan) - 1)
    BY <1>3, <1>4 DEF Now
  <2> QED BY <1>1, <1>2, <1>6, <2>1 DEF InProgress, Limit, Still
<1>8. PciTypeOK'
  BY <1>1, <1>2, <1>4, StillNames DEF PciTypeOK, Still
<1>9. Numbered(B)'
  BY <1>2, <1>7, StillNames DEF Known, Numbered, Parents
<1>10. Unbegun(B)'
  <2>1. ASSUME NEW u \in Bridges \ B
        PROVE  IF Unnumbered(machine) THEN Sub(u) = 0
               ELSE machine[u].secondary >= Limit /\ Sec(u) = machine[u].secondary
    BY <1>1 DEF Known, Unbegun, Opening
  <2>2. \A u : ~Opening(u)'
    BY <1>7 DEF InProgress, Opening
  <2> QED BY <1>2, <1>7, <2>1, <2>2, StillNames DEF Unbegun, Still
<1>11. Chained(B)'
  <2>1. ASSUME NEW i \in 1 .. (Len(scan) - 1) PROVE Positioned(B, scan[i])'
    <3>1. PICK s : s = scan'[i]
      OBVIOUS
    <3>2. Positioned(B, s) /\ s.step = "close"
      BY <1>4, <1>5, <1>6, <3>1 DEF Known, Chained
    <3>3. Positioned(B, s)'
      BY <1>2, <3>2 DEF Still, Positioned, Parents, Numbers, At, Ahead, Wire, Sec, Sub, Bridges
    <3> QED BY <3>1, <3>3 DEF Positioned, Parents, Numbers, At, Ahead, Wire, Sec, Sub, Bridges
  <2>2. ASSUME NEW i \in 1 .. (Len(scan) - 1)
        PROVE  scan'[i].behind = Root <=> i = Len(scan) - 1
    <3>1. scan[i + 1].behind = Root <=> i + 1 = Len(scan)
      BY <1>5 DEF Known, Chained
    <3> QED BY <1>3, <1>4, <3>1
  <2>3. ASSUME NEW i \in 2 .. (Len(scan) - 1)
        PROVE  scan'[i].step = "close" /\ At(scan[i], scan[i - 1].behind)'
    <3>1. /\ i \in 1 .. (Len(scan) - 1) /\ i - 1 \in 1 .. (Len(scan) - 1)
          /\ i + 1 \in 2 .. Len(scan) /\ (i + 1) - 1 = i /\ (i - 1) + 1 = i
      BY <1>3
    <3>2. At(scan[i + 1], scan[i].behind)
      BY <3>1 DEF Known, Chained
    <3>3. scan'[i] = scan[i + 1] /\ scan'[i - 1] = scan[i]
      BY <1>4, <3>1
    <3> QED BY <1>2, <1>6, <3>1, <3>2, <3>3 DEF At, Wire, Still
  <2>4. ASSUME NEW i \in 1 .. (Len(scan) - 1), NEW j \in 1 .. (Len(scan) - 1), i < j
        PROVE  /\ scan'[j].number < scan'[i].number
               /\ j < Len(scan) - 1 => Within(machine', scan'[i].behind, scan'[j].behind)
    <3>1. i + 1 < j + 1 /\ (j < Len(scan) - 1 => j + 1 < Len(scan))
      BY <1>3, <2>4
    <3>2. /\ scan[j + 1].number < scan[i + 1].number
          /\ j + 1 < Len(scan) => Within(machine, scan[i + 1].behind, scan[j + 1].behind)
      BY <1>5, <3>1 DEF Known, Chained
    <3> QED BY <1>2, <1>4, <3>1, <3>2 DEF Still
  <2>5. ASSUME NEW b \in B
        PROVE  Sub(b)' < Limit' \/ \E i \in 1 .. (Len(scan) - 1) :
                                     scan'[i].step = "close" /\ At(scan[i], b)'
    <3>1. CASE Sub(b) < Limit
      BY <1>2, <1>7, <3>1, StillNames
    <3>2. ASSUME NEW i \in 1 .. Len(scan), scan[i].step = "close", At(scan[i], b)
          PROVE  \E j \in 1 .. (Len(scan) - 1) : scan'[j].step = "close" /\ At(scan[j], b)'
      <4>1. i # 1
        BY <1>1, <1>3, <3>2
      <4>2. i - 1 \in 1 .. (Len(scan) - 1) /\ (i - 1) + 1 = i
        BY <1>3, <4>1
      <4>3. scan'[i - 1] = scan[i]
        BY <1>4, <4>2
      <4>4. scan'[i - 1].step = "close" /\ At(scan[i - 1], b)'
        BY <1>2, <3>2, <4>3 DEF At, Wire, Still
      <4> QED BY <4>2, <4>4
    <3> QED BY <3>1, <3>2 DEF Known, Chained
  <2> QED BY <1>4, <2>1, <2>2, <2>3, <2>4, <2>5 DEF Chained
<1>12. Covered(B)'
  <2> SUFFICES ASSUME pool > 0, NEW u \in Bridges \ B, Wire(u) \in Parents(B)
               PROVE  \E i \in 1 .. (Len(scan) - 1) : Ahead(scan[i], u)'
    BY <1>1, <1>2, <1>4, <1>7, StillNames DEF Covered, Parents
  <2>1. PICK i \in 1 .. Len(scan) : Ahead(scan[i], u)
    BY DEF Known, Covered
  <2>2. i # 1
    <3>1. Now.slot = SlotCount
      BY <1>1, <1>3 DEF Known, Chained, Positioned
    <3>2. machine[u].slot \in 0 .. (SlotCount - 1) /\ SlotCount \in Nat
      BY <1>1, MachineFacts, PciAssumption DEF Bridges
    <3> QED BY <1>3, <2>1, <3>1, <3>2 DEF Ahead
  <2>3. i - 1 \in 1 .. (Len(scan) - 1) /\ (i - 1) + 1 = i
    BY <1>3, <2>2
  <2>4. scan'[i - 1] = scan[i]
    BY <1>4, <2>3
  <2>5. Ahead(scan[i - 1], u)'
    BY <1>2, <2>1, <2>4 DEF Ahead, Wire, Still
  <2> QED BY <2>3, <2>5
<1> QED BY <1>1, <1>2, <1>8, <1>9, <1>10, <1>11, <1>12, DescriptorsStay DEF Known

(* The window is closed over the numbers that were given behind it.        *)
LEMMA CloseKeeps ==
  ASSUME NEW B, Known(B), CloseWindow
  PROVE  Known(B)'
<1>1. PciTypeOK /\ scan # <<>> /\ Now.step = "close" /\ pool' = pool /\ Numbered(B)
      /\ NextBusNumber' = NextBusNumber /\ machine' = machine /\ found' = found
      /\ WriteWindow("subordinate", LastBehind) /\ machine \in Machines /\ B \subseteq Bridges
  BY DEF Known, CloseWindow, PciTypeOK, Numbered
<1>2. Now = scan[1] /\ 1 \in 1 .. Len(scan) /\ Len(scan) \in Nat /\ Now \in FrameType
  BY <1>1, FramesTyped
<1>3. Positioned(B, Now)
  BY <1>2 DEF Known, Chained
<1>4. PICK b \in DOMAIN machine : /\ At(Now, b) /\ b \in B /\ Sub(b) = BusCount - 1
                                  /\ (Now.func = 0 => Now.multi = machine[b].multi)
  BY <1>1, <1>3 DEF Positioned, Quiet
<1>5. Here = {b}
  BY <1>1, <1>4, HereIsOne
<1>6. /\ Limit \in Nat \ {0} /\ Limit <= BusCount /\ BusCount \in Nat \ {0}
      /\ ~InProgress /\ NextBusNumber = Limit
  BY <1>1, LimitTyped DEF InProgress
<1>7. /\ window' \in [Bridges -> [primary : Nat, secondary : Nat, subordinate : Nat]]
      /\ \A x \in Bridges : x # b => window'[x] = window[x]
      /\ window'[b].secondary = window[b].secondary
      /\ window'[b].subordinate = Limit - 1
  <2>1. LastBehind \in Nat /\ LastBehind < BusCount /\ LastBehind = Limit - 1
    BY <1>6 DEF LastBehind
  <2>2. b \in Bridges
    BY <1>1, <1>4
  <2> QED BY <1>1, <1>5, <2>1, <2>2, WindowWritten
<1>8. /\ \A x \in Bridges : Sec(x)' = Sec(x) /\ (x # b => Sub(x)' = Sub(x))
      /\ Sub(b)' = Limit - 1
  BY <1>7 DEF Sec, Sub
<1>9. \A x \in Bridges : Sec(x) \in Nat /\ Sub(x) \in Nat
  BY <1>1, WindowTyped
<1> DEFINE t == After(Now)
<1>10. Now.slot < SlotCount
  BY <1>1, <1>3 DEF Positioned
<1>11. /\ t \in FrameType /\ t.behind = Now.behind /\ t.number = Now.number
       /\ t.step \in {"function", "end"} /\ (t.step = "end" <=> t.slot = SlotCount)
  BY <1>1, <1>2, <1>10, AfterPlace
<1>12. scan' = <<t>> \o Tail(scan)
  BY DEF CloseWindow, Advance
<1>13. \A u \in DOMAIN machine : Ahead(t, u) => Ahead(Now, u) /\ ~At(Now, u)
  BY <1>1, <1>2, <1>10, AheadAfter
<1>14. \A u \in Bridges \ B : Ahead(Now, u) => Ahead(t, u)
  <2>1. \A f \in DOMAIN machine : At(Now, f) => f = b
    BY <1>1, <1>4, OneAt
  <2> QED BY <1>1, <1>2, <1>4, <1>10, <2>1, AfterAhead DEF Bridges, BridgesOf
<1>15. Positioned(B, t)
  <2>1. B \subseteq DOMAIN machine
    BY <1>1, MachineFacts DEF Bridges
  <2>2. \A x \in B : ~Ahead(t, x)
    BY <1>3, <1>13, <2>1 DEF Positioned
  <2>3. t.slot \in 0 .. SlotCount /\ SlotCount \in Nat
    BY <1>11, PciAssumption DEF FrameType
  <2>4. t.step # "end" => t.slot < SlotCount
    BY <1>11, <2>3
  <2>5. t.step \in Quiet /\ t.step # "boot" /\ t.step \notin {"secondary", "open"}
    BY <1>11 DEF Quiet
  <2> HIDE DEF t
  <2> QED BY <1>3, <1>11, <2>2, <2>4, <2>5 DEF Positioned
<1> HIDE DEF t
<1>16. scan' \in Seq(FrameType) /\ scan' # <<>> /\ Now' = t
  BY <1>1, <1>11, <1>12, TopReplaced DEF Now
<1>17. ~InProgress' /\ Limit' = Limit
  BY <1>1, <1>6, <1>11, <1>16 DEF InProgress, Limit
<1>18. Bridges' = Bridges /\ FrameType' = FrameType /\ \A x : Wire(x)' = Wire(x)
  BY <1>1 DEF Bridges, FrameType, Wire
<1>19. PciTypeOK'
  BY <1>1, <1>7, <1>16, <1>18 DEF PciTypeOK
(* No other bridge that is open lies on the wire of this one or behind it. *)
<1>20. ASSUME NEW i \in 2 .. Len(scan), NEW x \in B, At(scan[i], x)
       PROVE  x # b /\ Wire(x) # b
  <2>1. /\ scan[i].number < scan[1].number /\ scan[i].number \in Nat
        /\ scan[1].number = Numbers(B, scan[1].behind) /\ scan[i].number = Numbers(B, scan[i].behind)
        /\ scan[i].behind \in Parents(B)
    <3>1. i \in 1 .. Len(scan) /\ 1 < i
      BY <1>2
    <3> QED BY <1>1, <1>2, <3>1, FramesTyped DEF Known, Chained, Positioned, FrameType
  <2>2. Wire(x) = scan[i].behind /\ Wire(b) = scan[1].behind
    BY <1>2, <1>4, <1>20 DEF At
  <2>3. x # b
    BY <2>1, <2>2
  <2>4. ASSUME Wire(x) = b PROVE FALSE
    <3>1. b # Root /\ b \in Bridges
      BY <1>1, <1>4, MachineFacts
    <3>2. scan[i].number = Sec(b)
      BY <2>1, <2>2, <2>4, <3>1 DEF Numbers
    <3>3. Wire(b) # Root => Sec(Wire(b)) < Sec(b) /\ Wire(b) \in B
      BY <1>1, <1>4 DEF Numbered, Parents
    <3>4. CASE Wire(b) = Root
      BY <2>1, <2>2, <3>4 DEF Numbers
    <3>5. CASE Wire(b) # Root
      <4>1. Sec(Wire(b)) \in Nat /\ Sec(b) \in Nat
        BY <1>1, <1>9, <3>1, <3>3, <3>5
      <4>2. scan[1].number = Sec(Wire(b))
        BY <2>1, <2>2, <3>5 DEF Numbers
      <4> QED BY <2>1, <3>2, <3>3, <3>5, <4>1, <4>2
    <3> QED BY <3>4, <3>5
  <2> QED BY <2>3, <2>4
<1>21. ASSUME NEW x \in B, x # b
       PROVE  Sub(x) < Limit \/ \E i \in 2 .. Len(scan) : scan[i].step = "close" /\ At(scan[i], x)
  <2>1. ~At(Now, x)
    BY <1>1, <1>4, <1>21, OneAt, MachineFacts DEF Bridges
  <2>2. \A i \in 1 .. Len(scan) : i = 1 \/ i \in 2 .. Len(scan)
    BY <1>2
  <2> QED BY <1>2, <2>1, <2>2 DEF Known, Chained
<1>22. Numbered(B)'
  <2>1. ASSUME NEW x \in B, Wire(x) = b PROVE Sub(x) <= Limit - 1 /\ x # b
    <3>1. x # b
      <4>1. b # Root /\ b \in Bridges /\ (Wire(b) # Root => Sec(Wire(b)) < Sec(b))
        BY <1>1, <1>4, MachineFacts DEF Numbered
      <4> QED BY <1>9, <2>1, <4>1
    <3>2. Sub(x) < Limit
      BY <1>20, <1>21, <2>1, <3>1
    <3> QED BY <1>1, <1>6, <1>9, <3>1, <3>2
  <2>2. ASSUME NEW x \in B
        PROVE  /\ 0 < Sec(x)' /\ Sec(x)' < Limit /\ Sec(x)' <= Sub(x)' /\ Sub(x)' < BusCount
               /\ Wire(x) \in Parents(B)
               /\ Wire(x) # Root => Sec(Wire(x))' < Sec(x)' /\ Sub(x)' <= Sub(Wire(x))'
    <3>1. /\ 0 < Sec(x) /\ Sec(x) < Limit /\ Sec(x) <= Sub(x) /\ Sub(x) < BusCount
          /\ Wire(x) \in Parents(B) /\ x \in Bridges
          /\ Wire(x) # Root => Sec(Wire(x)) < Sec(x) /\ Sub(x) <= Sub(Wire(x))
      BY <1>1 DEF Numbered
    <3>2. Sec(x)' = Sec(x) /\ Sec(x) \in Nat /\ Sub(x) \in Nat
      BY <1>8, <1>9, <3>1
    <3>3. Sec(x)' <= Sub(x)' /\ Sub(x)' < BusCount /\ Sub(x)' <= Sub(x)
      <4>1. CASE x = b
        BY <1>4, <1>6, <1>8, <3>1, <3>2, <4>1
      <4>2. CASE x # b
        BY <1>8, <3>1, <3>2, <4>2
      <4> QED BY <4>1, <4>2
    <3>4. ASSUME Wire(x) # Root PROVE Sec(Wire(x))' < Sec(x)' /\ Sub(x)' <= Sub(Wire(x))'
      <4>1. Wire(x) \in B /\ Wire(x) \in Bridges /\ Sub(Wire(x)) \in Nat /\ Sec(Wire(x)) \in Nat
        BY <1>1, <1>9, <3>1, <3>4 DEF Parents
      <4>2. Sec(Wire(x))' = Sec(Wire(x))
        BY <1>8, <1>18, <4>1
      <4>3. CASE Wire(x) = b
        BY <1>8, <1>18, <2>1, <3>1, <3>2, <3>4, <4>2, <4>3
      <4>4. CASE Wire(x) # b
        <5>1. Sub(Wire(x))' = Sub(Wire(x))
          BY <1>8, <1>18, <4>1, <4>4
        <5>2. Sub(x)' \in Int
          BY <1>6, <1>8, <3>1, <3>2
        <5> QED BY <3>1, <3>2, <3>3, <3>4, <4>1, <4>2, <5>1, <5>2
      <4> QED BY <4>3, <4>4
    <3> QED BY <3>1, <3>2, <3>3, <3>4
  <2>3. ASSUME NEW x \in B, NEW y \in B, x # y
        PROVE  /\ Sec(x)' # Sec(y)'
               /\ Wire(x) = Wire(y) => Sub(x)' < Sec(y)' \/ Sub(y)' < Sec(x)'
    <3>1. /\ x \in Bridges /\ y \in Bridges /\ Sec(x) # Sec(y)
          /\ Wire(x) = Wire(y) => Sub(x) < Sec(y) \/ Sub(y) < Sec(x)
      BY <1>1, <2>3 DEF Numbered
    <3>2. Sub(x)' <= Sub(x) /\ Sub(y)' <= Sub(y) /\ Sub(x)' \in Int /\ Sub(y)' \in Int
      BY <1>4, <1>6, <1>8, <1>9, <3>1
    <3> QED BY <1>8, <1>9, <3>1, <3>2
  <2> QED BY <1>1, <1>17, <1>18, <2>2, <2>3 DEF Numbered, Parents
<1>23. Unbegun(B)'
  <2>1. ASSUME NEW u \in Bridges \ B
        PROVE  IF Unnumbered(machine) THEN Sub(u) = 0
               ELSE machine[u].secondary >= Limit /\ Sec(u) = machine[u].secondary
    BY <1>1 DEF Known, Unbegun, Opening
  <2>2. \A u : ~Opening(u)'
    BY <1>17 DEF InProgress, Opening
  <2> QED BY <1>1, <1>4, <1>8, <1>17, <1>18, <2>1, <2>2 DEF Unbegun
<1>24. Chained(B)'
  <2>1. \A x \in B : Sec(x)' = Sec(x)
    BY <1>1, <1>8
  <2>2. \A x \in B : (\E i \in 2 .. Len(scan) : At(scan[i], x)) => Sub(x)' = Sub(x)
    BY <1>1, <1>8, <1>20
  <2>3. ASSUME NEW x \in B
        PROVE  \/ Sub(x)' < Limit
               \/ \E i \in 2 .. Len(scan) : scan[i].step = "close" /\ At(scan[i], x)
    BY <1>1, <1>6, <1>8, <1>21
  <2>4. t.step # "close"
    BY <1>11
  <2> QED BY <1>1, <1>11, <1>12, <1>15, <1>17, <2>1, <2>2, <2>3, <2>4, ChainMoves
<1>25. Covered(B)'
  BY <1>1, <1>11, <1>12, <1>14, <1>17, CoverMoves
<1>26. Descriptors(B)'
  <2>1. ASSUME NEW x \in Parents(B) PROVE x \in Parents(B)' /\ Numbers(B, x)' = Numbers(B, x)
    BY <1>1, <1>8 DEF Parents, Numbers
  <2> QED BY <1>1, <2>1 DEF Known, Descriptors, Wire
<1> QED BY <1>19, <1>22, <1>23, <1>24, <1>25, <1>26 DEF Known

-----------------------------------------------------------------------------
(* Before the scan no bridge has begun, whatever firmware left.            *)
LEMMA KnownInit == Init => ScanInv
<1> SUFFICES ASSUME Init PROVE Known({})
  BY DEF ScanInv
<1>1. machine \in Machines /\ AtBoot(machine) /\ NextBusNumber = 1 /\ found = {} /\ pool \in Pools
  BY DEF Init
<1>2. PICK t : t = [Frame(Root, 0) EXCEPT !.step = "boot"]
  OBVIOUS
<1>3. scan = <<t>>
  BY <1>2 DEF Init
<1>4. /\ t \in FrameType /\ t.behind = Root /\ t.number = 0 /\ t.slot = 0 /\ t.func = 0
      /\ t.step = "boot"
  <2>1. SlotCount \in Nat \ {0} /\ FuncCount \in Nat \ {0}
    BY PciAssumption
  <2>2. 0 \in 0 .. SlotCount /\ 0 \in 0 .. (FuncCount - 1)
    BY <2>1
  <2> QED BY <1>2, <2>2 DEF Frame, FrameType, Steps, Quiet
<1>5. scan \in Seq(FrameType) /\ scan # <<>> /\ Len(scan) = 1 /\ Now = t /\ scan[1] = t
  BY <1>3, <1>4 DEF Now
<1>6. window = [x \in Bridges |-> [primary |-> machine[x].primary,
                                   secondary |-> machine[x].secondary,
                                   subordinate |-> machine[x].subordinate]]
  BY <1>1 DEF AtBoot, Bridges
<1>7. \A x \in Bridges : /\ machine[x].primary \in Nat /\ machine[x].secondary \in Nat
                         /\ machine[x].subordinate \in Nat
  BY <1>1, MachineFacts DEF Bridges
<1>8. PciTypeOK
  <2>1. pool \in Nat
    BY <1>1, PciAssumption
  <2> QED BY <1>1, <1>5, <1>6, <1>7, <2>1 DEF PciTypeOK
<1>9. ~InProgress /\ Limit = 1
  BY <1>1, <1>4, <1>5 DEF InProgress, Limit
<1>10. Numbered({})
  BY <1>9, FS_EmptySet DEF Numbered
<1>11. Unbegun({})
  <2>1. \A u : ~Opening(u)
    BY <1>4, <1>5 DEF Opening
  <2>2. ASSUME NEW u \in Bridges
        PROVE  IF Unnumbered(machine) THEN Sub(u) = 0
               ELSE machine[u].secondary >= Limit /\ Sec(u) = machine[u].secondary
    <3>1. Sec(u) = machine[u].secondary /\ Sub(u) = machine[u].subordinate
      BY <1>6 DEF Sec, Sub
    <3>2. CASE Unnumbered(machine)
      BY <3>1, <3>2 DEF Unnumbered, Bridges
    <3>3. CASE ~Unnumbered(machine)
      <4>1. machine[u].secondary > 0
        BY <1>1, <3>3, NumberAssumption DEF Bridges
      <4> QED BY <1>7, <1>9, <3>1, <3>3, <4>1
    <3> QED BY <3>2, <3>3
  <2> QED BY <2>1, <2>2 DEF Unbegun
<1>12. Chained({})
  <2>1. 0 < SlotCount
    BY PciAssumption
  <2>2. Positioned({}, t)
    BY <1>4, <2>1 DEF Positioned, Parents, Numbers, Quiet
  <2> QED BY <1>4, <1>5, <2>2 DEF Chained
<1>13. Covered({})
  <2>1. ASSUME NEW u \in Bridges, Wire(u) = Root PROVE Ahead(scan[1], u)
    <3>1. machine[u].slot \in Nat /\ machine[u].func \in Nat
      BY <1>1, MachineFacts DEF Bridges
    <3> QED BY <1>4, <1>5, <2>1, <3>1 DEF Ahead
  <2> QED BY <1>5, <2>1 DEF Covered, Parents
<1>14. Descriptors({})
  BY <1>1 DEF Descriptors
<1> QED BY <1>8, <1>10, <1>11, <1>12, <1>13, <1>14 DEF Known

(* The same buses are numbered after every step but one.                   *)
LEMMA KnownOn ==
  ASSUME NEW B, Known(B), [Next]_vars, ~OpenWindow
  PROVE  Known(B)' /\ machine' = machine
<1>1. CASE UNCHANGED vars
  <2>1. UNCHANGED <<machine, window, NextBusNumber, pool, scan, found>>
    BY <1>1 DEF vars
  <2>2. PciTypeOK'
    BY <2>1 DEF Known, PciTypeOK, Bridges, FrameType
  <2>3. Limit' = Limit /\ InProgress' = InProgress
    BY <2>1 DEF Limit, InProgress, Now
  <2>4. Numbered(B)'
    BY <2>1, <2>3 DEF Known, Numbered, Bridges, Sec, Sub, Wire, Parents
  <2>5. Unbegun(B)'
    BY <2>1, <2>3 DEF Known, Unbegun, Bridges, Sec, Sub, Opening, Now, At, Wire
  <2>6. Chained(B)'
    <3>1. ASSUME NEW i \in 1 .. Len(scan) PROVE Positioned(B, scan[i])'
      <4>1. Positioned(B, scan[i])
        BY DEF Known, Chained
      <4> QED BY <4>1, <2>1, <2>3
              DEF Positioned, Parents, Numbers, At, Ahead, Wire, Sec, Sub, Bridges
    <3> QED BY <2>1, <2>3, <3>1 DEF Known, Chained, At, Wire, Sub
  <2>7. Covered(B)'
    BY <2>1, <2>3 DEF Known, Covered, Bridges, Wire, Parents, Ahead
  <2>8. Descriptors(B)'
    BY <2>1 DEF Known, Descriptors, Wire, Parents, Numbers, Sec
  <2> QED BY <2>1, <2>2, <2>4, <2>5, <2>6, <2>7, <2>8 DEF Known
<1>2. CASE Next
  <2>1. Known(B)'
    BY <1>2, EnumerateKeeps, ScanNothingKeeps, ScanFunctionKeeps, ReadingKeeps,
       RestoreKeeps, NoBusKeeps, PrimaryKeeps, SecondaryKeeps, EndBusKeeps, CloseKeeps, Zenon
       DEF Next
  <2>2. machine' = machine
    BY <1>2 DEF Next, PciEnumerate, ScanNothing, ScanFunction, DecodeOff, ProbeLow, TakeLow,
       ProbeHigh, TakeHigh, RestoreCommand, NoBus, WritePrimary, WriteSecondary, EndBus,
       CloseWindow
  <2> QED BY <2>1, <2>2
<1> QED BY <1>1, <1>2

(* The scan invariant: true at the start, kept by every step.              *)
LEMMA KnownStep == ScanInv /\ [Next]_vars => ScanInv'
<1> SUFFICES ASSUME ScanInv, [Next]_vars PROVE ScanInv'
  OBVIOUS
<1>1. PICK B \in SUBSET Bridges : Known(B)
  BY DEF ScanInv
<1>2. CASE OpenWindow
  <2>1. Bridges' = Bridges
    BY <1>2 DEF OpenWindow, Bridges
  <2> QED BY <1>1, <1>2, <2>1, OpenKeeps DEF ScanInv
<1>3. CASE ~OpenWindow
  <2>1. Known(B)' /\ machine' = machine
    BY <1>1, <1>3, KnownOn
  <2> QED BY <1>1, <2>1 DEF ScanInv, Bridges
<1> QED BY <1>2, <1>3

(* Which bridges have a window is at every moment determined by the stack  *)
(* of frames: the numbers given out are theirs, their windows nest and do  *)
(* not meet, and the windows of the others lie beyond (ENUM.C:107-182).    *)
THEOREM ScanInvariant == Spec => []ScanInv
BY KnownInit, KnownStep, PTL DEF Spec

(* A descriptor keeps naming its function through every rewriting of the   *)
(* bridges, and no two bridges of a wire ever take a cycle that is sent    *)
(* (ENUM.C:141-182).                                                       *)
THEOREM DescriptorsStayReachable == Spec => []FoundStaysReachable
BY ScanInvariant, KnownReachable, PTL

-----------------------------------------------------------------------------
(* Division, and what it says of sizes that divide the word.               *)
LEMMA DivMod ==
  ASSUME NEW a \in Nat, NEW b \in Nat, b > 0
  PROVE  /\ a \div b \in Nat /\ a % b \in Nat
         /\ a % b < b
         /\ a = b * (a \div b) + (a % b)
OBVIOUS

(* A multiple is so many times the divisor, and the remainder of a         *)
(* multiple and a rest is the rest.                                        *)
LEMMA Whole ==
  ASSUME NEW a \in Nat, NEW s \in Nat \ {0}, a % s = 0
  PROVE  \E q \in Nat : a = s * q
<1>1. a \div s \in Nat /\ a = s * (a \div s) + 0
  BY DivMod
<1> DEFINE q == a \div s
<1>2. q \in Nat /\ a = s * q + 0
  BY <1>1
<1> HIDE DEF q
<1>3. s * q \in Nat
  BY <1>2
<1>4. a = s * q
  BY <1>2, <1>3
<1> QED BY <1>2, <1>4

LEMMA Remainder ==
  ASSUME NEW s \in Nat \ {0}, NEW q \in Nat, NEW r \in 0 .. (s - 1)
  PROVE  (s * q + r) % s = r
<1> DEFINE a == s * q + r
           p == a \div s
           t == a % s
<1>1. a \in Nat
  OBVIOUS
<1>2. p \in Nat /\ t \in Nat /\ t < s /\ a = s * p + t
  <2> HIDE DEF a
  <2> QED BY <1>1, DivMod
<1> HIDE DEF p, t
<1>3. s * q + r = s * p + t
  BY <1>2
<1>4. CASE q < p
  <2>1. PICK d \in Nat : p = q + 1 + d
    <3>1. p - q - 1 \in Nat /\ p = q + 1 + (p - q - 1)
      BY <1>2, <1>4
    <3> QED BY <3>1
  <2>2. s * p = s * q + s + s * d /\ s * d >= 0
    BY <2>1
  <2> QED BY <1>2, <1>3, <2>2
<1>5. CASE p < q
  <2>1. PICK d \in Nat : q = p + 1 + d
    <3>1. q - p - 1 \in Nat /\ q = p + 1 + (q - p - 1)
      BY <1>2, <1>5
    <3> QED BY <3>1
  <2>2. s * q = s * p + s + s * d /\ s * d >= 0
    BY <1>2, <2>1
  <2> QED BY <1>2, <1>3, <2>2
<1>6. CASE p = q
  BY <1>2, <1>3, <1>6 DEF t, a
<1> QED BY <1>2, <1>4, <1>5, <1>6

LEMMA SmallRemainder ==
  ASSUME NEW s \in Nat \ {0}, NEW r \in 0 .. (s - 1)
  PROVE  r % s = r
<1>1. s * 0 + r = r
  OBVIOUS
<1> QED BY <1>1, Remainder

(* All ones leave all ones, by whatever divides the word.                  *)
LEMMA OnesRemainder ==
  ASSUME NEW w \in Nat \ {0}, NEW s \in Nat \ {0}, w % s = 0
  PROVE  (w - 1) % s = s - 1 /\ w - 1 \in Nat
<1>1. PICK q \in Nat : w = s * q
  BY Whole
<1>2. q # 0
  BY <1>1
<1>3. PICK p \in Nat : q = p + 1
  <2>1. q - 1 \in Nat /\ q = (q - 1) + 1
    BY <1>2
  <2> QED BY <2>1
<1>4. s * q = s * p + s
  BY <1>3
<1>5. w - 1 = s * p + (s - 1) /\ s - 1 \in 0 .. (s - 1)
  BY <1>1, <1>4
<1> QED BY <1>5, Remainder

(* Divisors of divisors, and of differences.                               *)
LEMMA DividesOn ==
  ASSUME NEW a \in Nat, NEW s \in Nat \ {0}, NEW u \in Nat \ {0}, a % s = 0, s % u = 0
  PROVE  a % u = 0
<1>1. PICK q \in Nat : a = s * q
  BY Whole
<1>2. PICK t \in Nat : s = u * t
  BY Whole
<1>3. t * q \in Nat /\ a = u * (t * q) + 0
  BY <1>1, <1>2
<1> QED BY <1>3, Remainder

LEMMA DifferenceDivides ==
  ASSUME NEW a \in Nat, NEW b \in Nat, NEW u \in Nat \ {0}, a % u = 0, b % u = 0, b <= a
  PROVE  (a - b) % u = 0
<1>1. PICK q \in Nat : a = u * q
  BY Whole
<1>2. PICK t \in Nat : b = u * t
  BY Whole
<1>3. t <= q
  <2> SUFFICES ASSUME q < t PROVE FALSE
    OBVIOUS
  <2>1. PICK d \in Nat : t = q + 1 + d
    <3>1. t - q - 1 \in Nat /\ t = q + 1 + (t - q - 1)
      OBVIOUS
    <3> QED BY <3>1
  <2>2. u * t = u * q + u + u * d /\ u * d >= 0
    BY <2>1
  <2> QED BY <1>1, <1>2, <2>2
<1>4. q - t \in Nat /\ a - b = u * (q - t) + 0
  BY <1>1, <1>2, <1>3
<1> QED BY <1>4, Remainder

(* The low bits of a multiple of 16, alone and with the tag of a register  *)
(* of 64 bits.                                                             *)
LEMMA Sixteens ==
  ASSUME NEW x \in Nat, x % 16 = 0
  PROVE  /\ x % 2 = 0 /\ x % 2 # 1 /\ x % 8 = 0 /\ x - (x % 16) = x
         /\ (x + 4) % 2 = 0 /\ ((x + 4) % 8) \div 2 = 2 /\ (x + 4) % 16 = 4
<1>1. PICK y \in Nat : x = 16 * y
  BY Whole
<1>2. x % 2 = 0 /\ x % 8 = 0
  BY <1>1
<1>3. (x + 4) % 2 = 0 /\ (x + 4) % 8 = 4 /\ (x + 4) % 16 = 4
  BY <1>1
<1>4. 4 \div 2 = 2
  OBVIOUS
<1> QED BY <1>2, <1>3, <1>4

(* What each kind of register answers, and what it holds.                  *)
Probe(r) == Keeps(r, AllOnes)
Held(r) == Keeps(r, r.base)

(* The widths, and a register that fits them.                              *)
LEMMA WordFacts ==
  /\ Word \in Nat \ {0} /\ IoWord \in Nat \ {0} /\ Word % 16 = 0 /\ Word % IoWord = 0
  /\ Word >= 16 /\ AllOnes = Word - 1 /\ AllOnes \in Nat
<1>1. Word \in Nat \ {0} /\ IoWord \in Nat \ {0} /\ Word % 16 = 0 /\ Word % IoWord = 0
  BY PciAssumption, RegisterAssumption
<1> QED BY <1>1 DEF AllOnes

LEMMA FitsFacts ==
  ASSUME NEW r \in Register, NEW unit \in {1, 4, 16}, NEW word \in Nat \ {0}, Fits(r, unit, word)
  PROVE  /\ r.size \in Nat \ {0} /\ r.size < word /\ r.size >= unit /\ r.base \in Nat
         /\ r.base < word /\ r.size % unit = 0 /\ r.base % unit = 0 /\ r.base % r.size = 0
         /\ word - r.size \in Nat /\ word - r.size # 0 /\ (word - r.size) % unit = 0 /\ word % r.size = 0
         /\ (word - 1) % r.size = r.size - 1
<1>1. /\ r.size \in Nat \ {0} /\ r.size < word /\ r.base \in Nat /\ r.base < word
      /\ r.size % unit = 0 /\ word % r.size = 0 /\ r.base % r.size = 0 /\ word - r.size \in Nat
      /\ word - r.size # 0
  BY DEF Fits, Register
<1>2. r.size >= unit
  BY <1>1
<1>3. r.base % unit = 0 /\ word % unit = 0
  BY <1>1, DividesOn
<1>4. (word - r.size) % unit = 0
  BY <1>1, <1>3, DifferenceDivides
<1>5. (word - 1) % r.size = r.size - 1
  BY <1>1, OnesRemainder
<1> QED BY <1>1, <1>2, <1>3, <1>4, <1>5

(* Probed with ones, an I/O register answers its size in two's complement  *)
(* with the tag; PciBARSize is the size, and what was held has the base.   *)
LEMMA IoAnswers ==
  ASSUME NEW r \in Register, r.kind = "io", Fits(r, 4, IoWord)
  PROVE  /\ Held(r) = r.base + 1 /\ Keeps(r, Held(r)) = Held(r)
         /\ ~Skipped(Probe(r)) /\ ~IsWide(Probe(r)) /\ Probe(r) % 2 = 1
         /\ PciBARSize(Probe(r)) = r.size
         /\ Held(r) - (Held(r) % 4) = r.base
<1>1. /\ r.size \in Nat \ {0} /\ r.size < IoWord /\ r.size >= 4 /\ r.base \in Nat
      /\ r.base < IoWord /\ r.size % 4 = 0 /\ r.base % 4 = 0 /\ r.base % r.size = 0
      /\ IoWord - r.size \in Nat /\ (IoWord - r.size) % 4 = 0 /\ IoWord % r.size = 0
  BY WordFacts, FitsFacts
<1>2. Word \in Nat \ {0} /\ IoWord \in Nat \ {0} /\ Word % IoWord = 0 /\ AllOnes = Word - 1
  BY WordFacts
<1>3. PICK q \in Nat : Word = IoWord * q
  BY <1>2, Whole
<1>4. PICK p \in Nat : Word = IoWord * p + IoWord
  <2>1. q # 0
    BY <1>2, <1>3
  <2>2. PICK p \in Nat : q = p + 1
    <3>1. q - 1 \in Nat /\ q = (q - 1) + 1
      BY <2>1
    <3> QED BY <3>1
  <2> QED BY <1>2, <1>3, <2>2
<1>5. Word % r.size = 0
  BY <1>1, <1>2, DividesOn
<1>6. AllOnes % IoWord = IoWord - 1 /\ AllOnes % r.size = r.size - 1
  BY <1>1, <1>2, <1>5, OnesRemainder
<1>7. Probe(r) = IoWord - r.size + 1
  BY <1>1, <1>2, <1>6 DEF Probe, Keeps, Tag
<1>8. r.base % IoWord = r.base
  BY <1>1, <1>2, SmallRemainder
<1>9. Held(r) = r.base + 1
  BY <1>1, <1>8 DEF Held, Keeps, Tag
<1>10. (r.base + 1) % IoWord = r.base + 1
  <2>1. r.base + 1 \in 0 .. (IoWord - 1)
    <3>1. IoWord % 4 = 0
      BY <1>1, <1>2, DividesOn
    <3> QED BY <1>1, <1>2, <3>1
  <2> QED BY <1>2, <2>1, SmallRemainder
<1>11. (r.base + 1) % r.size = 1
  <2>1. PICK b \in Nat : r.base = r.size * b
    BY <1>1, Whole
  <2>2. 1 \in 0 .. (r.size - 1)
    BY <1>1
  <2> QED BY <1>1, <2>1, <2>2, Remainder
<1>12. Keeps(r, r.base + 1) = r.base + 1
  BY <1>1, <1>10, <1>11 DEF Keeps, Tag
<1>13. /\ Probe(r) # 0 /\ Probe(r) # AllOnes /\ Probe(r) % 2 = 1
       /\ Address(Probe(r)) = IoWord - r.size
  <2>1. PICK x \in Nat : x = IoWord - r.size /\ x % 4 = 0 /\ x > 0 /\ x + 4 <= Word
    <3>1. IoWord <= Word
      <4>1. IoWord * p >= 0
        BY <1>2
      <4> QED BY <1>2, <1>4, <4>1
    <3> QED BY <1>1, <1>2, <3>1
  <2>2. Probe(r) = x + 1
    BY <1>7, <2>1
  <2>3. (x + 1) % 2 = 1 /\ (x + 1) % 4 = 1
    BY <2>1
  <2> QED BY <1>2, <2>1, <2>2, <2>3 DEF Address
<1>14. (Word - (IoWord - r.size)) % IoWord = r.size
  <2>1. Word - (IoWord - r.size) = IoWord * p + r.size /\ r.size \in 0 .. (IoWord - 1)
    BY <1>1, <1>2, <1>4
  <2>2. (IoWord * p + r.size) % IoWord = r.size
    BY <1>2, <2>1, Remainder
  <2> QED BY <2>1, <2>2
<1>15. (r.base + 1) % 4 = 1
  BY <1>1
<1>16. PciBARSize(Probe(r)) = r.size
  <2>1. Address(Probe(r)) # 0
    <3>1. IoWord - r.size # 0
      BY WordFacts, FitsFacts
    <3> QED BY <1>13, <3>1
  <2> QED BY <1>13, <1>14, <2>1 DEF PciBARSize
<1> QED BY <1>1, <1>9, <1>12, <1>13, <1>15, <1>16 DEF Skipped, IsWide

(* The same of a memory register of 32 bits, and of the upper half of one  *)
(* of 64.                                                                  *)
LEMMA MemAnswers ==
  ASSUME NEW r \in Register, r.kind = "mem", Fits(r, 16, Word)
  PROVE  /\ Held(r) = r.base /\ Keeps(r, Held(r)) = Held(r)
         /\ ~Skipped(Probe(r)) /\ ~IsWide(Probe(r)) /\ Probe(r) % 2 = 0
         /\ PciBARSize(Probe(r)) = r.size
         /\ Held(r) - (Held(r) % 16) = r.base
<1>1. /\ r.size \in Nat \ {0} /\ r.size < Word /\ r.size >= 16 /\ r.base \in Nat
      /\ r.base % 16 = 0 /\ r.base % r.size = 0
      /\ Word - r.size \in Nat /\ (Word - r.size) % 16 = 0
      /\ (Word - 1) % r.size = r.size - 1
  BY WordFacts, FitsFacts
<1>2. Word \in Nat \ {0} /\ AllOnes = Word - 1
  BY WordFacts
<1>3. Probe(r) = Word - r.size
  BY <1>1, <1>2 DEF Probe, Keeps, Tag
<1>4. Held(r) = r.base /\ Keeps(r, r.base) = r.base
  BY <1>1 DEF Held, Keeps, Tag
<1>5. PICK x \in Nat : x = Word - r.size /\ x % 16 = 0 /\ x > 0 /\ x < Word - 1
  BY <1>1, <1>2
<1>6. x % 2 = 0 /\ x % 8 = 0 /\ x - (x % 16) = x
  BY <1>5, Sixteens
<1>7. (Word - x) % Word = r.size
  <2>1. Word - x = r.size /\ r.size \in 0 .. (Word - 1)
    BY <1>1, <1>2, <1>5
  <2> QED BY <1>2, <2>1, SmallRemainder
<1>8. Address(x) = x
  BY <1>5, <1>6 DEF Address
<1>9. PciBARSize(x) = r.size
  <2>1. x # 0 /\ x % 2 # 1
    <3>1. x # 0 /\ x \in Nat /\ x % 16 = 0
      BY <1>5
    <3> QED BY <3>1, Sixteens
  <2> QED BY <1>7, <1>8, <2>1 DEF PciBARSize
<1>10. ~Skipped(x) /\ ~IsWide(x)
  <2>1. (x % 8) \div 2 # 2
    BY <1>6
  <2> QED BY <1>2, <1>5, <2>1 DEF Skipped, IsWide
<1>11. r.base - (r.base % 16) = r.base
  BY <1>1
<1> QED BY <1>3, <1>4, <1>5, <1>6, <1>9, <1>10, <1>11

LEMMA HighAnswers ==
  ASSUME NEW r \in Register, r.kind = "high", Fits(r, 1, Word)
  PROVE  Held(r) = r.base /\ Keeps(r, Held(r)) = Held(r) /\ Probe(r) = Word - r.size
<1>1. /\ r.base \in Nat /\ r.base % r.size = 0 /\ (Word - 1) % r.size = r.size - 1
      /\ r.size \in Nat
  BY WordFacts, FitsFacts
<1>2. Word \in Nat /\ AllOnes = Word - 1
  BY WordFacts
<1>3. Held(r) = r.base /\ Keeps(r, r.base) = r.base
  BY <1>1 DEF Held, Keeps
<1>4. Probe(r) = Word - r.size
  BY <1>1, <1>2 DEF Probe, Keeps
<1> QED BY <1>3, <1>4

(* The first half of a register of 64 bits: smaller than a word, or all of *)
(* its bits in the other half.                                             *)
Wide(r) == r.kind = "mem64" /\ (Fits(r, 16, Word) \/ (r.size >= Word /\ r.base = 0))

LEMMA WideAnswers ==
  ASSUME NEW r \in Register, Wide(r)
  PROVE  /\ Held(r) = r.base + 4 /\ Keeps(r, Held(r)) = Held(r)
         /\ ~Skipped(Probe(r)) /\ IsWide(Probe(r))
         /\ Address(Probe(r)) = IF r.size < Word THEN Word - r.size ELSE 0
         /\ Held(r) - (Held(r) % 16) = r.base
<1>1. Word \in Nat \ {0} /\ AllOnes = Word - 1 /\ Word >= 16 /\ Word % 16 = 0
  BY WordFacts
<1>2. r.kind = "mem64" /\ r.size \in Nat /\ r.base \in Nat
  BY DEF Wide, Register
<1>3. PICK x \in Nat : /\ Probe(r) = x + 4 /\ x % 16 = 0 /\ x + 4 < Word - 1
                      /\ x = IF r.size < Word THEN Word - r.size ELSE 0
  <2>1. CASE Fits(r, 16, Word)
    <3>1. /\ (Word - 1) % r.size = r.size - 1 /\ Word - r.size \in Nat /\ r.size < Word
          /\ (Word - r.size) % 16 = 0 /\ r.size >= 16
      BY <1>1, <2>1, FitsFacts
    <3>2. Probe(r) = Word - r.size + 4
      BY <1>1, <1>2, <3>1 DEF Probe, Keeps, Tag
    <3>3. Word - r.size + 4 < Word - 1
      BY <1>1, <1>2, <3>1
    <3> QED BY <3>1, <3>2, <3>3
  <2>2. CASE r.size >= Word /\ r.base = 0
    <3>1. (Word - 1) % r.size = Word - 1
      <4>1. r.size \in Nat \ {0} /\ Word - 1 \in 0 .. (r.size - 1)
        BY <1>1, <1>2, <2>2
      <4> QED BY <4>1, SmallRemainder
    <3>2. Probe(r) = 0 + 4
      BY <1>1, <1>2, <3>1 DEF Probe, Keeps, Tag
    <3>3. 0 + 4 < Word - 1 /\ 0 % 16 = 0 /\ ~(r.size < Word)
      BY <1>1, <1>2, <2>2
    <3> QED BY <3>2, <3>3
  <2> QED BY <2>1, <2>2 DEF Wide
<1>4. /\ (x + 4) % 2 = 0 /\ ((x + 4) % 8) \div 2 = 2 /\ (x + 4) % 16 = 4
      /\ (x + 4) % 2 # 1
  BY <1>3, Sixteens
<1>5. Address(x + 4) = x
  BY <1>4 DEF Address
<1>6. ~Skipped(x + 4) /\ IsWide(x + 4)
  <2>1. x + 4 # 0 /\ x + 4 # Word - 1
    BY <1>1, <1>3
  <2> QED BY <1>1, <1>4, <2>1 DEF Skipped, IsWide
<1>7. /\ r.base % r.size = 0 /\ r.base % 16 = 0 /\ 4 % r.size = 4 /\ (r.base + 4) % r.size = 4
  <2>1. CASE Fits(r, 16, Word)
    <3>1. r.size \in Nat \ {0} /\ r.base % 16 = 0 /\ r.base % r.size = 0 /\ r.size >= 16
      BY <1>1, <2>1, FitsFacts
    <3>2. PICK q \in Nat : r.base = r.size * q
      BY <1>2, <3>1, Whole
    <3>3. 4 \in 0 .. (r.size - 1)
      BY <3>1
    <3>4. r.size \in Nat \ {0} /\ r.base % r.size = 0 /\ r.base % 16 = 0
      BY <3>1
    <3>5. 4 % r.size = 4
      BY <3>3, <3>4, SmallRemainder
    <3>6. (r.base + 4) % r.size = 4
      <4>1. (r.size * q + 4) % r.size = 4
        BY <3>3, <3>4, Remainder
      <4> QED BY <3>2, <4>1
    <3> QED BY <3>4, <3>5, <3>6
  <2>2. CASE r.size >= Word /\ r.base = 0
    <3>1. r.size \in Nat \ {0} /\ 0 \in 0 .. (r.size - 1) /\ 4 \in 0 .. (r.size - 1)
      BY <1>1, <1>2, <2>2
    <3>2. 0 % r.size = 0 /\ 4 % r.size = 4
      BY <3>1, SmallRemainder
    <3> QED BY <2>2, <3>2
  <2> QED BY <2>1, <2>2 DEF Wide
<1>8. Held(r) = r.base + 4
  BY <1>2, <1>7 DEF Held, Keeps, Tag
<1>9. Keeps(r, r.base + 4) = r.base + 4
  BY <1>2, <1>7 DEF Keeps, Tag
<1>10. (r.base + 4) - ((r.base + 4) % 16) = r.base
  BY <1>2, <1>7, Sixteens
<1> QED BY <1>3, <1>5, <1>6, <1>8, <1>9, <1>10

(* Both halves together.                                                   *)
LEMMA PairSize ==
  ASSUME NEW r \in Register, NEW h \in Register, Wide(r), h.kind = "high", Fits(h, 1, Word),
         r.size < Word => h.size = 1
  PROVE  WideSize(Probe(r), Probe(h)) = IF r.size < Word THEN r.size ELSE Word * h.size
<1>1. Word \in Nat \ {0} /\ Word >= 16
  BY WordFacts
<1>2. h.size \in Nat \ {0} /\ h.size < Word /\ Probe(h) = Word - h.size
  BY <1>1, HighAnswers, FitsFacts
<1>3. Address(Probe(r)) = IF r.size < Word THEN Word - r.size ELSE 0
  BY WideAnswers
<1>4. r.size \in Nat
  BY DEF Register
<1> DEFINE w == Word
<1>5. PICK u \in Nat : u = w * w
  BY <1>1
<1>6. u # 0 /\ w <= u
  <2>1. PICK v \in Nat : w = v + 1
    <3>1. w - 1 \in Nat /\ w = (w - 1) + 1
      BY <1>1
    <3> QED BY <3>1
  <2>2. w * w = w * v + w /\ w * v >= 0
    BY <2>1
  <2> QED BY <1>1, <1>5, <2>2
<1>7. CASE r.size < Word
  <2>1. (w - h.size) * w + (w - r.size) = u - r.size
    <3>1. (w - 1) * w = u - w
      BY <1>1, <1>5
    <3> QED BY <1>1, <1>4, <1>5, <1>7, <3>1
  <2>2. u - (u - r.size) = r.size /\ r.size \in 0 .. (u - 1)
    BY <1>1, <1>4, <1>5, <1>6, <1>7
  <2>3. r.size % u = r.size
    BY <1>5, <1>6, <2>2, SmallRemainder
  <2>4. WideSize(Probe(r), Probe(h)) = (u - (u - r.size)) % u
    BY <1>2, <1>3, <1>5, <1>7, <2>1 DEF WideSize
  <2> QED BY <1>7, <2>2, <2>3, <2>4
<1>8. CASE ~(r.size < Word)
  <2>1. PICK n \in Nat : n = w * h.size
    BY <1>1, <1>2
  <2>2. (w - h.size) * w + 0 = u - n
    <3>1. (w - h.size) * w = w * w - w * h.size
      BY <1>1, <1>2
    <3> QED BY <1>5, <2>1, <3>1
  <2>3. n < u
    <3>1. PICK d \in Nat : w = h.size + 1 + d
      <4>1. w - h.size - 1 \in Nat /\ w = h.size + 1 + (w - h.size - 1)
        BY <1>1, <1>2
      <4> QED BY <4>1
    <3>2. w * w = w * h.size + w + w * d /\ w * d >= 0
      BY <1>1, <1>2, <3>1
    <3> QED BY <1>1, <1>5, <2>1, <3>2
  <2>4. u - (u - n) = n /\ n \in 0 .. (u - 1)
    BY <1>5, <2>1, <2>3
  <2>5. n % u = n
    BY <1>5, <1>6, <2>4, SmallRemainder
  <2>6. WideSize(Probe(r), Probe(h)) = (u - (u - n)) % u
    BY <1>2, <1>3, <1>5, <1>8, <2>2 DEF WideSize
  <2> QED BY <1>8, <2>1, <2>4, <2>5, <2>6
<1> QED BY <1>7, <1>8

(* The registers of a machine.                                             *)
LEMMA RegisterFacts ==
  ASSUME machine \in Machines, NEW f \in DOMAIN machine, NEW k \in DOMAIN machine[f].bars
  PROVE  LET r == machine[f].bars[k]
             h == machine[f].bars[k + 1]
             other == k + 1 \in DOMAIN machine[f].bars
         IN  /\ r \in Register /\ k \in Nat \ {0} /\ k <= BarsOf(f)
             /\ r.kind \in {"none", "io", "mem", "mem64", "high"}
             /\ r.kind = "io" => Fits(r, 4, IoWord)
             /\ r.kind = "mem" => Fits(r, 16, Word)
             /\ r.kind = "high" => /\ Fits(r, 1, Word)
                                  /\ k - 1 \in DOMAIN machine[f].bars
                                  /\ machine[f].bars[k - 1].kind = "mem64"
             /\ r.kind = "mem64" =>
                  /\ Wide(r) /\ (other \/ k = BarsOf(f))
                  /\ other => h.kind = "high" /\ (r.size < Word => h.size = 1)
<1>1. machine[f] \in Function
  BY PciAssumption
<1>2. machine[f].bars \in Seq(Register)
  BY <1>1 DEF Function
<1>3. PICK bars : bars = machine[f].bars
  OBVIOUS
<1>4. /\ bars \in Seq(Register) /\ k \in DOMAIN bars /\ DOMAIN bars = 1 .. Len(bars)
      /\ Len(bars) \in Nat
  BY <1>2, <1>3
<1>5. bars[k] \in Register /\ k \in Nat \ {0}
  BY <1>4
<1>6. PICK r : r = bars[k]
  OBVIOUS
<1>7. r.kind \in {"none", "io", "mem", "mem64", "high"}
  BY <1>5, <1>6 DEF Register
<1>8. /\ k <= BarsOf(f)
      /\ r.kind = "io" => Fits(r, 4, IoWord)
      /\ r.kind = "mem" => Fits(r, 16, Word)
      /\ r.kind = "high" => Fits(r, 1, Word) /\ k > 1 /\ bars[k - 1].kind = "mem64"
      /\ r.kind = "mem64" =>
           /\ IF k + 1 \in DOMAIN bars THEN bars[k + 1].kind = "high" ELSE k = BarsOf(f)
           /\ \/ Fits(r, 16, Word) /\ (k + 1 \in DOMAIN bars => bars[k + 1].size = 1)
              \/ r.size >= Word /\ r.base = 0
  BY <1>3, <1>6, RegisterAssumption DEF BarsOf
<1>9. k > 1 => k - 1 \in DOMAIN bars
  BY <1>4
<1>10. r.size \in Nat /\ Word \in Nat
  BY <1>5, <1>6, WordFacts DEF Register
<1>11. r.size >= Word => ~(r.size < Word)
  BY <1>10
<1>12. r.kind = "mem64" => Wide(r)
  BY <1>8 DEF Wide
<1>13. /\ r.kind = "high" => /\ Fits(r, 1, Word) /\ k - 1 \in DOMAIN bars
                             /\ bars[k - 1].kind = "mem64"
       /\ r.kind = "mem64" =>
            /\ Wide(r) /\ (k + 1 \in DOMAIN bars \/ k = BarsOf(f))
            /\ k + 1 \in DOMAIN bars =>
                 bars[k + 1].kind = "high" /\ (r.size < Word => bars[k + 1].size = 1)
  <2>1. CASE r.kind = "high"
    BY <1>8, <1>9, <2>1
  <2>2. CASE r.kind = "mem64"
    <3>1. IF k + 1 \in DOMAIN bars THEN bars[k + 1].kind = "high" ELSE k = BarsOf(f)
      BY <1>8, <2>2
    <3>2. k + 1 \in DOMAIN bars /\ r.size < Word => bars[k + 1].size = 1
      BY <1>8, <1>11, <2>2
    <3> QED BY <1>12, <2>2, <3>1, <3>2
  <2> QED BY <2>1, <2>2
<1> QED BY ONLY <1>3, <1>5, <1>6, <1>7, <1>8, <1>13

(* What a register holds it keeps when it is written back.                 *)
LEMMA HeldStays ==
  ASSUME machine \in Machines, NEW f \in DOMAIN machine, NEW k \in DOMAIN machine[f].bars
  PROVE  Keeps(machine[f].bars[k], Held(machine[f].bars[k])) = Held(machine[f].bars[k])
<1>1. PICK r : r = machine[f].bars[k]
  OBVIOUS
<1>2. CASE r.kind = "none"
  BY <1>1, <1>2 DEF Keeps, Held
<1>3. CASE r.kind # "none"
  BY <1>1, <1>3, RegisterFacts, IoAnswers, MemAnswers, WideAnswers, HighAnswers
<1> QED BY <1>1, <1>2, <1>3

-----------------------------------------------------------------------------
(* What the registers of a function hold while it is probed: they have     *)
(* what firmware left but for the one that was written to, the command     *)
(* register has its decode bits cleared, and what is to be written back is *)
(* what was there.                                                         *)
ProbingSteps == {"probe", "low", "probe high", "high"}
Probing(f) == scan # <<>> /\ Now.step \in ProbingSteps /\ At(Now, f)
Left(f, k) == Held(machine[f].bars[k])
LeftOrNone(f, k) == IF k \in DOMAIN machine[f].bars THEN Left(f, k) ELSE 0
Written(f, k) ==
  /\ Probing(f)
  /\ (Now.step = "low" /\ k = work.i + 1) \/ (Now.step = "high" /\ k = work.i + 2)

Registers(f) ==
  /\ \A k \in DOMAIN machine[f].bars : Written(f, k) \/ bar[f][k] = Left(f, k)
  /\ ~Probing(f) => command[f] = machine[f].command
  /\ Probing(f) =>
       /\ command[f] = Silenced(machine[f].command)
       /\ work.command = machine[f].command
       /\ Now.step = "low" => work.low = LeftOrNone(f, work.i + 1)
       /\ Now.step \in {"probe high", "high"} => work.high = LeftOrNone(f, work.i + 2)
ProbeInv ==
  /\ DOMAIN command = DOMAIN machine /\ DOMAIN bar = DOMAIN machine
  /\ \A f \in DOMAIN machine : DOMAIN bar[f] = DOMAIN machine[f].bars /\ Registers(f)
  /\ work = [i |-> work.i, command |-> work.command, low |-> work.low, high |-> work.high,
             probed |-> work.probed, bases |-> work.bases]
  /\ work.i \in Nat

(* It says what ProbesAreHidden asks, and holds at the start.              *)
LEMMA ProbeHides == ProbeInv => ProbesAreHidden
<1> SUFFICES ASSUME ProbeInv, NEW f \in DOMAIN machine, command[f] \cap Decodes # {}
             PROVE  /\ command[f] = machine[f].command
                    /\ \A k \in DOMAIN bar[f] : bar[f][k] = Left(f, k)
  BY DEF ProbesAreHidden, Left, Held
<1>1. Registers(f) /\ DOMAIN bar[f] = DOMAIN machine[f].bars
  BY DEF ProbeInv
<1>2. ~Probing(f)
  BY <1>1 DEF Registers, Silenced
<1> QED BY <1>1, <1>2 DEF Registers, Written

LEMMA ProbeInit == Init => ProbeInv
<1> SUFFICES ASSUME Init PROVE ProbeInv
  OBVIOUS
<1>1. /\ command = [f \in DOMAIN machine |-> machine[f].command]
      /\ bar = [f \in DOMAIN machine |-> [k \in DOMAIN machine[f].bars |-> Left(f, k)]]
      /\ work = Idle
  BY DEF Init, AtBoot, Left, Held
<1>2. \A f : ~Probing(f)
  <2>1. Now = [Frame(Root, 0) EXCEPT !.step = "boot"]
    BY DEF Init, Now
  <2> QED BY <2>1 DEF Frame, Probing, ProbingSteps
<1> QED BY <1>1, <1>2 DEF ProbeInv, Registers, Idle

(* Steps outside of the probing leave the registers alone.                 *)
LEMMA ProbeElsewhere ==
  ASSUME ProbeInv, UNCHANGED <<machine, command, bar, work>>,
         Now.step \notin ProbingSteps, scan' # <<>> => Now'.step \notin ProbingSteps
  PROVE  ProbeInv'
<1>1. \A f : ~Probing(f) /\ ~Probing(f)'
  BY DEF Probing
<1>2. ASSUME NEW f \in DOMAIN machine PROVE Registers(f)'
  <2>1. Registers(f)
    BY DEF ProbeInv
  <2> QED BY <1>1, <2>1 DEF Registers, Written, Left
<1> QED BY <1>2 DEF ProbeInv

(* The steps that are not part of the reading are outside of the probing.  *)
LEMMA NotProbing ==
  ASSUME NEW B, Known(B),
         \/ PciEnumerate \/ ScanNothing \/ ScanFunction \/ NoBus \/ WritePrimary
         \/ WriteSecondary \/ OpenWindow \/ EndBus \/ CloseWindow
  PROVE  /\ UNCHANGED <<machine, command, bar, work>>
         /\ Now.step \notin ProbingSteps
         /\ scan' # <<>> => Now'.step \notin ProbingSteps
<1>1. PciTypeOK /\ scan # <<>>
  BY DEF Known, PciEnumerate, ScanNothing, ScanFunction, NoBus, WritePrimary, WriteSecondary,
     OpenWindow, EndBus, CloseWindow
<1>2. Now \in FrameType /\ Positioned(B, Now) /\ Len(scan) \in Nat
  BY <1>1, FramesTyped DEF Known, Chained
<1>3. UNCHANGED <<machine, command, bar, work>>
  BY DEF PciEnumerate, ScanNothing, ScanFunction, NoBus, WritePrimary, WriteSecondary,
     OpenWindow, EndBus, CloseWindow
<1>4. Now.step \notin ProbingSteps
  BY DEF PciEnumerate, ScanNothing, ScanFunction, NoBus, WritePrimary, WriteSecondary,
     OpenWindow, EndBus, CloseWindow, ProbingSteps
<1>5. ASSUME NEW s, scan' = <<s>> \o Tail(scan) PROVE Now' = s
  <2>1. Tail(scan) \in Seq(FrameType)
    BY <1>1, TopPopped
  <2> QED BY <1>5, <2>1 DEF Now
<1>6. CASE PciEnumerate
  <2>1. PICK t : t = [Now EXCEPT !.step = "function"]
    OBVIOUS
  <2>2. scan' # <<>> => scan' = <<t>> \o Tail(scan)
    BY <1>6, <2>1 DEF PciEnumerate, Goto
  <2> QED BY <1>2, <1>3, <1>4, <1>5, <2>1, <2>2 DEF FrameType, ProbingSteps
<1>7. CASE ScanNothing \/ NoBus \/ CloseWindow
  <2>1. scan' = <<After(Now)>> \o Tail(scan) /\ Now.step # "end"
    BY <1>7 DEF ScanNothing, NoBus, CloseWindow, Advance
  <2>2. Now.slot < SlotCount
    BY <1>2, <2>1 DEF Positioned
  <2>3. After(Now).step \in {"function", "end"}
    BY <1>1, <1>2, <2>2, AfterPlace
  <2> QED BY <1>3, <1>4, <1>5, <2>1, <2>3 DEF ProbingSteps
<1>8. CASE ScanFunction
  <2>1. PICK f \in Here : scan' = <<[Now EXCEPT !.step = "decode off",
                                       !.multi = IF Now.func = 0 THEN machine[f].multi ELSE @]>>
                                  \o Tail(scan)
    BY <1>8 DEF ScanFunction
  <2>2. PICK t : t = [Now EXCEPT !.step = "decode off",
                                 !.multi = IF Now.func = 0 THEN machine[f].multi ELSE Now.multi]
    OBVIOUS
  <2>3. scan' = <<t>> \o Tail(scan) /\ t.step = "decode off"
    BY <1>2, <2>1, <2>2 DEF FrameType
  <2> QED BY <1>3, <1>4, <1>5, <2>3 DEF ProbingSteps
<1>9. CASE WritePrimary
  <2>1. PICK t : t = [Now EXCEPT !.step = "secondary", !.secondary = NextBusNumber]
    OBVIOUS
  <2>2. scan' = <<t>> \o Tail(scan) /\ t.step = "secondary"
    BY <1>2, <1>9, <2>1 DEF WritePrimary, FrameType
  <2> QED BY <1>3, <1>4, <1>5, <2>2 DEF ProbingSteps
<1>10. CASE WriteSecondary
  <2>1. PICK t : t = [Now EXCEPT !.step = "open"]
    OBVIOUS
  <2>2. scan' = <<t>> \o Tail(scan) /\ t.step = "open"
    BY <1>2, <1>10, <2>1 DEF WriteSecondary, Goto, FrameType
  <2> QED BY <1>3, <1>4, <1>5, <2>2 DEF ProbingSteps
<1>11. CASE OpenWindow
  <2>1. PICK b \in Here :
          scan' = <<Frame(b, Now.secondary), [Now EXCEPT !.step = "close"]>> \o Tail(scan)
    BY <1>11 DEF OpenWindow
  <2>2. PICK p : p = Frame(b, Now.secondary)
    OBVIOUS
  <2>3. PICK t : t = [Now EXCEPT !.step = "close"]
    OBVIOUS
  <2>4. scan' = <<p, t>> \o Tail(scan) /\ Tail(scan) \in Seq(FrameType)
    BY <1>1, <2>1, <2>2, <2>3, TopPopped
  <2>5. Now' = p
    BY <2>4 DEF Now
  <2> QED BY <1>3, <1>4, <2>2, <2>5 DEF ProbingSteps, Frame
<1>12. CASE EndBus
  <2>1. scan' = Tail(scan)
    BY <1>12 DEF EndBus
  <2>2. /\ scan' \in Seq(FrameType) /\ Len(scan') = Len(scan) - 1
        /\ \A i \in 1 .. (Len(scan) - 1) : scan'[i] = scan[i + 1]
    BY <1>1, <2>1, TopPopped
  <2>3. ASSUME scan' # <<>> PROVE Now'.step = "close"
    <3>1. Now' = scan'[1] /\ 1 \in 1 .. (Len(scan) - 1) /\ 2 \in 2 .. Len(scan)
      BY <1>2, <2>2, <2>3 DEF Now
    <3>2. scan[2].step = "close"
      BY <3>1 DEF Known, Chained
    <3> QED BY <2>2, <3>1, <3>2
  <2> QED BY <1>3, <1>4, <2>3 DEF ProbingSteps
<1> QED BY <1>6, <1>7, <1>8, <1>9, <1>10, <1>11, <1>12

(* While a function is read the cycles come to it alone, and where the     *)
(* step goes next the place stays.                                         *)
LEMMA ReadingAt ==
  ASSUME NEW B, Known(B), scan # <<>>, Now.step \in Reading
  PROVE  \E f \in DOMAIN machine : Here = {f} /\ \A g \in DOMAIN machine : At(Now, g) <=> g = f
<1>1. PciTypeOK /\ Positioned(B, Now)
  BY FramesTyped DEF Known, Chained
<1>2. Now.step \notin Quiet /\ Now.step # "end"
  BY DEF Reading, Quiet
<1>3. PICK f \in DOMAIN machine : At(Now, f)
  BY <1>1, <1>2 DEF Positioned
<1>4. Here = {f}
  BY <1>2, <1>3, HereIsOne
<1> QED BY <1>1, <1>3, <1>4, OneAt

(* Where the step goes next the place stays.                               *)
LEMMA GotoPlace ==
  ASSUME PciTypeOK, scan # <<>>, machine' = machine, NEW s, Goto(s)
  PROVE  scan' # <<>> /\ Now'.step = s /\ \A g : At(Now, g)' <=> At(Now, g)
<1>1. Now \in FrameType /\ Tail(scan) \in Seq(FrameType)
  BY FramesTyped, TopPopped
<1>2. PICK t : t = [Now EXCEPT !.step = s]
  OBVIOUS
<1>3. scan' = <<t>> \o Tail(scan)
  BY <1>2 DEF Goto
<1>4. scan' # <<>> /\ Now' = t
  BY <1>1, <1>3 DEF Now
<1>5. t.step = s /\ t.behind = Now.behind /\ t.slot = Now.slot /\ t.func = Now.func
  BY <1>1, <1>2 DEF FrameType
<1> QED BY <1>4, <1>5 DEF At, Wire

(* A write to a base address register changes that one.                    *)
LEMMA BarWritten ==
  ASSUME ProbeInv, NEW f \in DOMAIN machine, Here = {f}, NEW k, NEW v, WriteBar(k, v)
  PROVE  /\ DOMAIN bar' = DOMAIN machine
         /\ \A g \in DOMAIN machine :
              /\ DOMAIN bar'[g] = DOMAIN machine[g].bars
              /\ \A j \in DOMAIN machine[g].bars :
                   bar'[g][j] = IF g = f /\ j = k THEN Keeps(machine[f].bars[k], v)
                                ELSE bar[g][j]
BY DEF ProbeInv, WriteBar

(* A write to a command register changes that function's.                  *)
LEMMA CommandWritten ==
  ASSUME ProbeInv, NEW f \in DOMAIN machine, Here = {f}, NEW set, Commanded(set)
  PROVE  /\ DOMAIN command' = DOMAIN machine
         /\ \A g \in DOMAIN machine : command'[g] = IF g = f THEN set ELSE command[g]
BY DEF ProbeInv, Commanded

(* The functions that are not probed keep what they had.                   *)
LEMMA OthersKeep ==
  ASSUME ProbeInv, machine' = machine, NEW g \in DOMAIN machine, ~Probing(g), ~Probing(g)',
         command'[g] = command[g],
         \A j \in DOMAIN machine[g].bars : bar'[g][j] = bar[g][j]
  PROVE  Registers(g)'
<1>1. Registers(g)
  BY DEF ProbeInv
<1> QED BY <1>1 DEF Registers, Written, Left

(* What is read is what firmware left where nothing has been written, and  *)
(* stays when it is written back.                                          *)
LEMMA ReadLeft ==
  ASSUME ProbeInv, NEW f \in DOMAIN machine, NEW k,
         k \in DOMAIN machine[f].bars => ~Written(f, k)
  PROVE  RegisterOf(f, k) = LeftOrNone(f, k)
BY DEF ProbeInv, Registers, RegisterOf, LeftOrNone

(* What is left is kept when it is written back.                           *)
LEMMA WrittenBack ==
  ASSUME PciTypeOK, NEW f \in DOMAIN machine, NEW k \in DOMAIN machine[f].bars
  PROVE  Keeps(machine[f].bars[k], LeftOrNone(f, k)) = Left(f, k)
BY HeldStays DEF PciTypeOK, LeftOrNone, Left

(* The steps of the probing one by one: decoding is off before the first   *)
(* write and on after the last.                                            *)
LEMMA ProbeDecodeOff ==
  ASSUME NEW B, Known(B), ProbeInv, DecodeOff
  PROVE  ProbeInv'
<1>1. PciTypeOK /\ scan # <<>> /\ Now.step = "decode off" /\ machine' = machine /\ bar' = bar
  BY DEF Known, DecodeOff
<1>2. PICK f \in DOMAIN machine : Here = {f} /\ \A g \in DOMAIN machine : At(Now, g) <=> g = f
  BY <1>1, ReadingAt DEF Reading
<1>3. work' = [Idle EXCEPT !.command = command[f]] /\ Commanded(Silenced(command[f]))
  BY <1>2 DEF DecodeOff
<1>4. scan' # <<>> /\ Now'.step = "probe" /\ \A g : At(Now, g)' <=> At(Now, g)
  BY <1>1, GotoPlace DEF DecodeOff
<1>5. \A g : ~Probing(g)
  BY <1>1 DEF Probing, ProbingSteps
<1>6. \A g \in DOMAIN machine : Probing(g)' <=> g = f
  BY <1>2, <1>4 DEF Probing, ProbingSteps
<1>7. /\ DOMAIN command' = DOMAIN machine
      /\ \A g \in DOMAIN machine : command'[g] = IF g = f THEN Silenced(command[f]) ELSE command[g]
  BY <1>2, <1>3, CommandWritten
<1>8. /\ work' = [i |-> work'.i, command |-> work'.command, low |-> work'.low,
                  high |-> work'.high, probed |-> work'.probed, bases |-> work'.bases]
      /\ work'.i \in Nat /\ work'.command = command[f]
  BY <1>3 DEF Idle
<1>9. Registers(f)'
  <2>1. Registers(f) /\ ~Probing(f) /\ Probing(f)' /\ Now'.step = "probe"
    BY <1>4, <1>5, <1>6 DEF ProbeInv
  <2>2. /\ command[f] = machine[f].command
        /\ \A k \in DOMAIN machine[f].bars : bar[f][k] = Left(f, k)
    BY <2>1 DEF Registers, Written
  <2> QED BY <2>1, <2>2, <1>1, <1>7, <1>8 DEF Registers, Written, Left
<1>10. \A g \in DOMAIN machine : g # f => Registers(g)'
  BY <1>1, <1>5, <1>6, <1>7, OthersKeep
<1> QED BY <1>1, <1>7, <1>8, <1>9, <1>10 DEF ProbeInv

(* The write of the ones, and what is put back after them.                 *)
LEMMA ProbeProbeLow ==
  ASSUME NEW B, Known(B), ProbeInv, ProbeLow
  PROVE  ProbeInv'
<1>1. PciTypeOK /\ scan # <<>> /\ Now.step = "probe" /\ machine' = machine /\ command' = command
  BY DEF Known, ProbeLow
<1>2. PICK f \in DOMAIN machine : Here = {f} /\ \A g \in DOMAIN machine : At(Now, g) <=> g = f
  BY <1>1, ReadingAt DEF Reading
<1>3. work' = [work EXCEPT !.low = RegisterOf(f, work.i + 1)] /\ WriteBar(work.i + 1, AllOnes)
  BY <1>2 DEF ProbeLow
<1>4. scan' # <<>> /\ Now'.step = "low" /\ \A g : At(Now, g)' <=> At(Now, g)
  BY <1>1, GotoPlace DEF ProbeLow
<1>5. \A g \in DOMAIN machine : (Probing(g) <=> g = f) /\ (Probing(g)' <=> g = f)
  BY <1>1, <1>2, <1>4 DEF Probing, ProbingSteps
<1>6. /\ DOMAIN bar' = DOMAIN machine
      /\ \A g \in DOMAIN machine :
           /\ DOMAIN bar'[g] = DOMAIN machine[g].bars
           /\ \A j \in DOMAIN machine[g].bars :
                g # f \/ j # work.i + 1 => bar'[g][j] = bar[g][j]
  BY <1>2, <1>3, BarWritten
<1>7. /\ work' = [i |-> work'.i, command |-> work'.command, low |-> work'.low,
                  high |-> work'.high, probed |-> work'.probed, bases |-> work'.bases]
      /\ work'.i = work.i /\ work'.command = work.command
      /\ work'.low = RegisterOf(f, work.i + 1)
  BY <1>3 DEF ProbeInv
<1>8. RegisterOf(f, work.i + 1) = LeftOrNone(f, work.i + 1)
  BY <1>1, ReadLeft DEF Written
<1>9. Registers(f)'
  <2>1. Registers(f) /\ Probing(f) /\ Probing(f)'
    BY <1>5 DEF ProbeInv
  <2>2. LeftOrNone(f, work.i + 1)' = LeftOrNone(f, work.i + 1)
    BY <1>1, <1>7 DEF LeftOrNone, Left
  <2>3. \A k \in DOMAIN machine[f].bars : Written(f, k)' \/ bar'[f][k] = Left(f, k)
    <3>1. ASSUME NEW k \in DOMAIN machine[f].bars, k = work.i + 1 PROVE Written(f, k)'
      BY <2>1, <3>1, <1>4, <1>7 DEF Written
    <3>2. ASSUME NEW k \in DOMAIN machine[f].bars, k # work.i + 1
          PROVE bar'[f][k] = Left(f, k)
      <4>1. ~Written(f, k)
        BY <3>2, <1>1 DEF Written
      <4> QED BY <2>1, <3>2, <4>1, <1>6 DEF Registers
    <3> QED BY <3>1, <3>2
  <2> QED BY <2>1, <2>2, <2>3, <1>1, <1>4, <1>7, <1>8 DEF Registers, Left
<1>10. \A g \in DOMAIN machine : g # f => Registers(g)'
  BY <1>1, <1>5, <1>6, OthersKeep
<1>11. work'.i \in Nat
  BY <1>7 DEF ProbeInv
<1> QED BY <1>1, <1>6, <1>7, <1>9, <1>10, <1>11 DEF ProbeInv

LEMMA ProbeTakeLow ==
  ASSUME NEW B, Known(B), ProbeInv, TakeLow
  PROVE  ProbeInv'
<1>1. PciTypeOK /\ scan # <<>> /\ Now.step = "low" /\ machine' = machine /\ command' = command
      /\ work.i \in Nat
  BY DEF Known, TakeLow, ProbeInv
<1>2. PICK f \in DOMAIN machine : Here = {f} /\ \A g \in DOMAIN machine : At(Now, g) <=> g = f
  BY <1>1, ReadingAt DEF Reading
<1>3. \/ Goto("probe") /\ \E n \in Nat : \/ work' = [work EXCEPT !.i = n]
                                        \/ \E b : work' = [work EXCEPT !.i = n, !.bases = b]
      \/ Goto("probe high") /\ \E p : work' = [work EXCEPT !.probed = p,
                                                    !.high = RegisterOf(f, work.i + 2)]
  <2>1. PICK low : low = RegisterOf(f, work.i + 1)
    OBVIOUS
  <2>2. \/ /\ work' = [work EXCEPT !.i = @ + 1]
           /\ Goto("probe")
        \/ /\ \E b : work' = [work EXCEPT !.i = @ + 1, !.bases = b]
           /\ Goto("probe")
        \/ /\ work' = [work EXCEPT !.probed = low, !.high = RegisterOf(f, work.i + 2)]
           /\ Goto("probe high")
        \/ /\ work' = [work EXCEPT !.i = 6]
           /\ Goto("probe")
    BY <1>2, <2>1 DEF TakeLow
  <2>3. work.i + 1 \in Nat /\ 6 \in Nat
    BY <1>1
  <2>4. CASE work' = [work EXCEPT !.i = @ + 1] /\ Goto("probe")
    BY <2>3, <2>4
  <2>5. CASE (\E b : work' = [work EXCEPT !.i = @ + 1, !.bases = b]) /\ Goto("probe")
    BY <2>3, <2>5
  <2>6. CASE work' = [work EXCEPT !.i = 6] /\ Goto("probe")
    BY <2>3, <2>6
  <2> QED BY <2>2, <2>4, <2>5, <2>6
<1>4. scan' # <<>> /\ Now'.step \in {"probe", "probe high"} /\ \A g : At(Now, g)' <=> At(Now, g)
  BY <1>1, <1>3, GotoPlace
<1>5. \A g \in DOMAIN machine : (Probing(g) <=> g = f) /\ (Probing(g)' <=> g = f)
  BY <1>1, <1>2, <1>4 DEF Probing, ProbingSteps
<1>6. /\ DOMAIN bar' = DOMAIN machine
      /\ \A g \in DOMAIN machine :
           /\ DOMAIN bar'[g] = DOMAIN machine[g].bars
           /\ \A j \in DOMAIN machine[g].bars :
                bar'[g][j] = IF g = f /\ j = work.i + 1
                             THEN Keeps(machine[f].bars[work.i + 1], work.low) ELSE bar[g][j]
  <2>1. WriteBar(work.i + 1, work.low)
    BY DEF TakeLow
  <2> QED BY <1>2, <2>1, BarWritten
<1>7. /\ work' = [i |-> work'.i, command |-> work'.command, low |-> work'.low,
                  high |-> work'.high, probed |-> work'.probed, bases |-> work'.bases]
      /\ work'.i \in Nat /\ work'.command = work.command
      /\ Now'.step = "probe high" =>
           work'.i = work.i /\ work'.high = RegisterOf(f, work.i + 2)
  <2>1. CASE Goto("probe") /\ \E n \in Nat : \/ work' = [work EXCEPT !.i = n]
                                          \/ \E b : work' = [work EXCEPT !.i = n, !.bases = b]
    <3>1. Now'.step = "probe"
      BY <1>1, <2>1, GotoPlace
    <3> QED BY <2>1, <3>1 DEF ProbeInv
  <2>2. CASE Goto("probe high") /\ \E p : work' = [work EXCEPT !.probed = p,
                                                       !.high = RegisterOf(f, work.i + 2)]
    BY <2>2 DEF ProbeInv
  <2> QED BY <1>3, <2>1, <2>2
<1>8. RegisterOf(f, work.i + 2) = LeftOrNone(f, work.i + 2)
  <2>1. work.i \in Nat
    BY DEF ProbeInv
  <2> QED BY <1>1, <2>1, ReadLeft DEF Written
<1>9. Registers(f)'
  <2>1. Registers(f) /\ Probing(f) /\ Probing(f)'
    BY <1>5 DEF ProbeInv
  <2>2. Now'.step = "probe high" => LeftOrNone(f, work.i + 2)' = LeftOrNone(f, work.i + 2)
    BY <1>1, <1>7 DEF LeftOrNone, Left
  <2>3. \A k \in DOMAIN machine[f].bars : bar'[f][k] = Left(f, k)
    <3>1. work.low = LeftOrNone(f, work.i + 1)
      BY <1>1, <2>1 DEF Registers
    <3>2. ASSUME NEW k \in DOMAIN machine[f].bars, k = work.i + 1 PROVE bar'[f][k] = Left(f, k)
      BY <1>1, <1>6, <3>1, <3>2, WrittenBack
    <3>3. ASSUME NEW k \in DOMAIN machine[f].bars, k # work.i + 1 PROVE bar'[f][k] = Left(f, k)
      BY <1>1, <1>6, <2>1, <3>3 DEF Registers, Written
    <3> QED BY <3>2, <3>3
  <2> QED BY <2>1, <2>2, <2>3, <1>1, <1>4, <1>7, <1>8 DEF Registers, Left
<1>10. \A g \in DOMAIN machine : g # f => Registers(g)'
  BY <1>1, <1>5, <1>6, OthersKeep
<1> QED BY <1>1, <1>6, <1>7, <1>9, <1>10 DEF ProbeInv

LEMMA ProbeProbeHigh ==
  ASSUME NEW B, Known(B), ProbeInv, ProbeHigh
  PROVE  ProbeInv'
<1>1. PciTypeOK /\ scan # <<>> /\ Now.step = "probe high" /\ machine' = machine
      /\ command' = command /\ work' = work /\ Goto("high")
  BY DEF Known, ProbeHigh
<1>2. PICK f \in DOMAIN machine : Here = {f} /\ \A g \in DOMAIN machine : At(Now, g) <=> g = f
  BY <1>1, ReadingAt DEF Reading
<1>3. WriteBar(work.i + 2, AllOnes)
  BY DEF ProbeHigh
<1>4. scan' # <<>> /\ Now'.step = "high" /\ \A g : At(Now, g)' <=> At(Now, g)
  BY <1>1, GotoPlace
<1>5. \A g \in DOMAIN machine : (Probing(g) <=> g = f) /\ (Probing(g)' <=> g = f)
  BY <1>1, <1>2, <1>4 DEF Probing, ProbingSteps
<1>6. /\ DOMAIN bar' = DOMAIN machine
      /\ \A g \in DOMAIN machine :
           /\ DOMAIN bar'[g] = DOMAIN machine[g].bars
           /\ \A j \in DOMAIN machine[g].bars :
                g # f \/ j # work.i + 2 => bar'[g][j] = bar[g][j]
  BY <1>2, <1>3, BarWritten
<1>7. Registers(f)'
  <2>1. Registers(f) /\ Probing(f) /\ Probing(f)'
    BY <1>5 DEF ProbeInv
  <2>2. LeftOrNone(f, work.i + 2)' = LeftOrNone(f, work.i + 2)
    BY <1>1 DEF LeftOrNone, Left
  <2>3. \A k \in DOMAIN machine[f].bars : Written(f, k)' \/ bar'[f][k] = Left(f, k)
    <3>1. ASSUME NEW k \in DOMAIN machine[f].bars, k = work.i + 2 PROVE Written(f, k)'
      BY <2>1, <3>1, <1>1, <1>4 DEF Written
    <3>2. ASSUME NEW k \in DOMAIN machine[f].bars, k # work.i + 2
          PROVE bar'[f][k] = Left(f, k)
      <4>1. ~Written(f, k)
        BY <1>1 DEF Written
      <4> QED BY <2>1, <3>2, <4>1, <1>6 DEF Registers
    <3> QED BY <3>1, <3>2
  <2> QED BY <2>1, <2>2, <2>3, <1>1, <1>4 DEF Registers, Left
<1>8. \A g \in DOMAIN machine : g # f => Registers(g)'
  BY <1>1, <1>5, <1>6, OthersKeep
<1> QED BY <1>1, <1>6, <1>7, <1>8 DEF ProbeInv

LEMMA ProbeTakeHigh ==
  ASSUME NEW B, Known(B), ProbeInv, TakeHigh
  PROVE  ProbeInv'
<1>1. PciTypeOK /\ scan # <<>> /\ Now.step = "high" /\ machine' = machine
      /\ command' = command /\ Goto("probe") /\ work.i \in Nat
  BY DEF Known, TakeHigh, ProbeInv
<1>2. PICK f \in DOMAIN machine : Here = {f} /\ \A g \in DOMAIN machine : At(Now, g) <=> g = f
  BY <1>1, ReadingAt DEF Reading
<1>3. WriteBar(work.i + 2, work.high)
  BY DEF TakeHigh
<1>4. scan' # <<>> /\ Now'.step = "probe" /\ \A g : At(Now, g)' <=> At(Now, g)
  BY <1>1, GotoPlace
<1>5. \A g \in DOMAIN machine : (Probing(g) <=> g = f) /\ (Probing(g)' <=> g = f)
  BY <1>1, <1>2, <1>4 DEF Probing, ProbingSteps
<1>6. /\ DOMAIN bar' = DOMAIN machine
      /\ \A g \in DOMAIN machine :
           /\ DOMAIN bar'[g] = DOMAIN machine[g].bars
           /\ \A j \in DOMAIN machine[g].bars :
                bar'[g][j] = IF g = f /\ j = work.i + 2
                             THEN Keeps(machine[f].bars[work.i + 2], work.high) ELSE bar[g][j]
  BY <1>2, <1>3, BarWritten
<1>7. /\ work' = [i |-> work'.i, command |-> work'.command, low |-> work'.low,
                  high |-> work'.high, probed |-> work'.probed, bases |-> work'.bases]
      /\ work'.i \in Nat /\ work'.command = work.command
  <2>1. PICK n \in Nat : n = NextSlot
    BY <1>1 DEF NextSlot
  <2>2. \E b : work' = [work EXCEPT !.i = n, !.bases = b]
    BY <2>1 DEF TakeHigh
  <2> QED BY <2>2 DEF ProbeInv
<1>8. Registers(f)'
  <2>1. Registers(f) /\ Probing(f) /\ Probing(f)'
    BY <1>5 DEF ProbeInv
  <2>2. \A k \in DOMAIN machine[f].bars : bar'[f][k] = Left(f, k)
    <3>1. work.high = LeftOrNone(f, work.i + 2)
      BY <1>1, <2>1 DEF Registers
    <3>2. ASSUME NEW k \in DOMAIN machine[f].bars, k = work.i + 2 PROVE bar'[f][k] = Left(f, k)
      BY <1>1, <1>6, <3>1, <3>2, WrittenBack
    <3>3. ASSUME NEW k \in DOMAIN machine[f].bars, k # work.i + 2 PROVE bar'[f][k] = Left(f, k)
      BY <1>1, <1>6, <2>1, <3>3 DEF Registers, Written
    <3> QED BY <3>2, <3>3
  <2> QED BY <2>1, <2>2, <1>1, <1>4, <1>7 DEF Registers, Left
<1>9. \A g \in DOMAIN machine : g # f => Registers(g)'
  BY <1>1, <1>5, <1>6, OthersKeep
<1> QED BY <1>1, <1>6, <1>7, <1>8, <1>9 DEF ProbeInv

(* After the reading the function is left, or its bridge is dealt with.    *)
LEMMA RestoreLeaves ==
  ASSUME NEW B, Known(B), RestoreCommand
  PROVE  scan' # <<>> => Now'.step \notin ProbingSteps
<1>1. PciTypeOK /\ scan # <<>> /\ Now.step = "probe" /\ machine' = machine
  BY DEF Known, RestoreCommand
<1>2. Goto("bridge") \/ Advance
  BY DEF RestoreCommand
<1>3. CASE Goto("bridge")
  <2>1. Now'.step = "bridge"
    BY <1>1, <1>3, GotoPlace
  <2> QED BY <2>1 DEF ProbingSteps
<1>4. CASE Advance
  <2>1. Now \in FrameType /\ Positioned(B, Now) /\ Tail(scan) \in Seq(FrameType)
    BY <1>1, FramesTyped, TopPopped DEF Known, Chained
  <2>2. Now.slot < SlotCount
    BY <1>1, <2>1 DEF Positioned
  <2>3. After(Now).step \in {"function", "end"}
    BY <1>1, <2>1, <2>2, AfterPlace
  <2>4. Now' = After(Now)
    BY <1>4, <2>1 DEF Advance, Now
  <2> QED BY <2>3, <2>4 DEF ProbingSteps
<1> QED BY <1>2, <1>3, <1>4

(* Decoding is put back when no probe is left.                             *)
LEMMA ProbeRestore ==
  ASSUME NEW B, Known(B), ProbeInv, RestoreCommand
  PROVE  ProbeInv'
<1>1. PciTypeOK /\ scan # <<>> /\ Now.step = "probe" /\ machine' = machine
      /\ bar' = bar /\ work' = Idle
  BY DEF Known, RestoreCommand
<1>2. PICK f \in DOMAIN machine : Here = {f} /\ \A g \in DOMAIN machine : At(Now, g) <=> g = f
  BY <1>1, ReadingAt DEF Reading
<1>3. scan' # <<>> => Now'.step \notin ProbingSteps
  BY RestoreLeaves
<1>4. \A g \in DOMAIN machine : (Probing(g) <=> g = f) /\ ~Probing(g)'
  BY <1>1, <1>2, <1>3 DEF Probing, ProbingSteps
<1>5. /\ DOMAIN command' = DOMAIN machine
      /\ \A g \in DOMAIN machine : command'[g] = IF g = f THEN work.command ELSE command[g]
  BY <1>2, CommandWritten DEF RestoreCommand
<1>6. /\ work' = [i |-> work'.i, command |-> work'.command, low |-> work'.low,
                  high |-> work'.high, probed |-> work'.probed, bases |-> work'.bases]
      /\ work'.i \in Nat
  BY <1>1 DEF Idle
<1>7. Registers(f)'
  <2>1. Registers(f) /\ Probing(f) /\ ~Probing(f)'
    BY <1>4 DEF ProbeInv
  <2>2. /\ work.command = machine[f].command
        /\ \A k \in DOMAIN machine[f].bars : bar[f][k] = Left(f, k)
    BY <1>1, <2>1 DEF Registers, Written
  <2> QED BY <2>1, <2>2, <1>1, <1>5 DEF Registers, Left
<1>8. \A g \in DOMAIN machine : g # f => Registers(g)'
  BY <1>1, <1>4, <1>5, OthersKeep
<1> QED BY <1>1, <1>5, <1>6, <1>7, <1>8 DEF ProbeInv

(* The registers' invariant is kept by every step.                         *)
LEMMA ProbeStep == ScanInv /\ ProbeInv /\ [Next]_vars => ProbeInv'
<1> SUFFICES ASSUME ScanInv, ProbeInv, [Next]_vars PROVE ProbeInv'
  OBVIOUS
<1>1. PICK B \in SUBSET Bridges : Known(B)
  BY DEF ScanInv
<1>2. CASE UNCHANGED vars
  <2>1. UNCHANGED <<machine, command, bar, work, scan>>
    BY <1>2 DEF vars
  <2>2. ASSUME NEW f \in DOMAIN machine PROVE Registers(f)'
    <3>1. Registers(f)
      BY DEF ProbeInv
    <3>2. Now' = Now /\ (Probing(f)' <=> Probing(f))
      BY <2>1 DEF Probing, Now, At, Wire
    <3>3. \A k : (Written(f, k)' <=> Written(f, k)) /\ Left(f, k)' = Left(f, k)
                 /\ LeftOrNone(f, k)' = LeftOrNone(f, k)
      BY <2>1, <3>2 DEF Written, LeftOrNone, Left
    <3> QED BY <2>1, <3>1, <3>2, <3>3 DEF Registers
  <2> QED BY <2>1, <2>2 DEF ProbeInv
<1>3. CASE DecodeOff \/ ProbeLow \/ TakeLow \/ ProbeHigh \/ TakeHigh \/ RestoreCommand
  BY <1>1, <1>3, ProbeDecodeOff, ProbeProbeLow, ProbeTakeLow, ProbeProbeHigh, ProbeTakeHigh,
     ProbeRestore
<1>4. CASE \/ PciEnumerate \/ ScanNothing \/ ScanFunction \/ NoBus \/ WritePrimary
           \/ WriteSecondary \/ OpenWindow \/ EndBus \/ CloseWindow
  BY <1>1, <1>4, NotProbing, ProbeElsewhere
<1> QED BY <1>2, <1>3, <1>4 DEF Next

(* No register is decoded with the probing ones in it, and whoever decodes *)
(* has the addresses firmware gave it (RESOURCE.C:81-146).                 *)
THEOREM ProbedIsNeverDecoded == Spec => []ProbesAreHidden
<1>1. Init => ScanInv /\ ProbeInv
  BY KnownInit, ProbeInit
<1>2. (ScanInv /\ ProbeInv) /\ [Next]_vars => (ScanInv /\ ProbeInv)'
  BY KnownStep, ProbeStep
<1>3. ScanInv /\ ProbeInv => ProbesAreHidden
  BY ProbeHides
<1> QED BY <1>1, <1>2, <1>3, PTL DEF Spec

-----------------------------------------------------------------------------
(* What the scan has found: each function once, everything that is not     *)
(* ahead of it any more, and, once the registers are read, what they are.  *)
Complete(d) == d.read /\ {d.bases[j] : j \in DOMAIN d.bases} = HasBases(d.fn)
IsFound(f) == \E d \in found : d.fn = f
Reached(B) ==
  /\ \A d, e \in found : d.fn = e.fn => d = e
  /\ \A d \in found :
       Complete(d) \/ (scan # <<>> /\ Now.step \in Reading /\ At(Now, d.fn))
  /\ \A f \in DOMAIN machine, i \in 1 .. Len(scan) :
       Ahead(scan[i], f) => (IsFound(f) <=> At(scan[i], f) /\ scan[i].step \notin Quiet)
  /\ pool > 0 =>
       \A f \in DOMAIN machine : Wire(f) \in Parents(B) =>
         IsFound(f) \/ \E i \in 1 .. Len(scan) : Ahead(scan[i], f)
FoundInv == \E B \in SUBSET Bridges : Known(B) /\ Reached(B)

(* How far the registers of a function are read: the ones before work.i.   *)
Progress(f) ==
  LET bars == machine[f].bars
      k == work.i + 1
  IN  /\ work.bases \in Seq(HasBases(f))
      /\ \A e \in HasBases(f) : e.i < work.i => \E j \in DOMAIN work.bases : work.bases[j] = e
      /\ Now.step # "probe" => work.i < BarsOf(f)
      /\ k \in DOMAIN bars => bars[k].kind # "high"
      /\ Now.step = "low" /\ k \in DOMAIN bars => bar[f][k] = Probe(bars[k])
      /\ Now.step \in {"probe high", "high"} =>
           /\ k \in DOMAIN bars /\ k + 1 \in DOMAIN bars /\ bars[k].kind = "mem64"
           /\ work.low = Held(bars[k]) /\ work.probed = Probe(bars[k])
      /\ Now.step = "high" => bar[f][k + 1] = Probe(bars[k + 1])
ReadInv == \A f \in DOMAIN machine : Probing(f) => Progress(f)

(* What a function has, register by register.                              *)
BaseOf(f, k) ==
  LET bars == machine[f].bars IN
  [i |-> k - 1, io |-> bars[k].kind = "io",
   start |-> bars[k].base + (IF bars[k].kind = "mem64" THEN bars[k + 1].base * Word ELSE 0),
   size |-> IF bars[k].kind # "mem64" THEN bars[k].size
            ELSE IF bars[k].size < Word THEN bars[k].size
            ELSE Word * bars[k + 1].size]
HasAt(f) ==
  LET bars == machine[f].bars IN
  {k \in DOMAIN bars : \/ bars[k].kind \in {"io", "mem"}
                       \/ bars[k].kind = "mem64" /\ k + 1 \in DOMAIN bars}

(* Each base is of the register it names.                                  *)
LEMMA BasesByRegister ==
  ASSUME NEW f \in DOMAIN machine
  PROVE  HasBases(f) = {BaseOf(f, k) : k \in HasAt(f)}
BY DEF HasBases, BaseOf, HasAt

(* The bases before one register more are those before it and its own.     *)
LEMMA BaseBelow ==
  ASSUME machine \in Machines, NEW f \in DOMAIN machine, NEW n \in Nat,
         NEW e \in HasBases(f), e.i < n + 1
  PROVE  e.i < n \/ (n + 1 \in HasAt(f) /\ e = BaseOf(f, n + 1))
<1>1. PICK k \in HasAt(f) : e = BaseOf(f, k)
  BY BasesByRegister
<1>2. k \in DOMAIN machine[f].bars
  BY DEF HasAt
<1>3. k \in Nat \ {0}
  BY <1>2, RegisterFacts
<1>4. e.i = k - 1
  BY <1>1 DEF BaseOf
<1>5. CASE k - 1 < n
  BY <1>4, <1>5
<1>6. CASE k = n + 1
  BY <1>1, <1>6
<1> QED BY <1>3, <1>4, <1>5, <1>6

(* No base is beyond the registers the loop visits.                        *)
LEMMA BasesInRange ==
  ASSUME machine \in Machines, NEW f \in DOMAIN machine, NEW e \in HasBases(f)
  PROVE  e.i \in Nat /\ e.i < BarsOf(f) /\ BarsOf(f) \in {2, 6}
<1>1. PICK k \in HasAt(f) : e = BaseOf(f, k)
  BY BasesByRegister
<1>2. k \in DOMAIN machine[f].bars
  BY DEF HasAt
<1>3. k \in Nat \ {0} /\ k <= BarsOf(f)
  BY <1>2, RegisterFacts
<1>4. e.i = k - 1
  BY <1>1 DEF BaseOf
<1>5. BarsOf(f) \in {2, 6}
  BY DEF BarsOf, MaxBars
<1> QED BY <1>3, <1>4, <1>5

(* What a sequence has when an element is appended.                        *)
LEMMA Appended ==
  ASSUME NEW S, NEW s \in Seq(S), NEW e \in S
  PROVE  /\ Append(s, e) \in Seq(S)
         /\ \E j \in DOMAIN Append(s, e) : Append(s, e)[j] = e
         /\ \A x : (\E j \in DOMAIN s : s[j] = x) =>
                     \E j \in DOMAIN Append(s, e) : Append(s, e)[j] = x
<1>1. /\ Append(s, e) \in Seq(S) /\ Len(s) \in Nat /\ DOMAIN s = 1 .. Len(s)
      /\ DOMAIN Append(s, e) = 1 .. (Len(s) + 1)
      /\ \A j \in 1 .. Len(s) : Append(s, e)[j] = s[j]
      /\ Append(s, e)[Len(s) + 1] = e
  BY AppendProperties
<1> QED BY <1>1

(* What PciReadBases makes of a register of 32 bits, and of one of 64.     *)
LEMMA BaseTaken ==
  ASSUME machine \in Machines, NEW f \in DOMAIN machine, NEW k \in DOMAIN machine[f].bars,
         machine[f].bars[k].kind \in {"io", "mem"}, work.i + 1 = k, work.i \in Nat,
         work.low = Held(machine[f].bars[k]), NEW low, low = Probe(machine[f].bars[k])
  PROVE  /\ ~Skipped(low) /\ ~IsWide(low)
         /\ Base(low % 2 = 1,
                 IF low % 2 = 1 THEN work.low - (work.low % 4) ELSE work.low - (work.low % 16),
                 PciBARSize(low)) = BaseOf(f, k)
<1>1. PICK r : r = machine[f].bars[k]
  OBVIOUS
<1>2. r \in Register /\ r.base \in Nat
  BY <1>1, RegisterFacts DEF Register
<1>3. k - 1 = work.i
  OBVIOUS
<1>4. CASE r.kind = "io"
  <2>1. /\ ~Skipped(low) /\ ~IsWide(low) /\ low % 2 = 1 /\ PciBARSize(low) = r.size
        /\ work.low - (work.low % 4) = r.base
    <3>1. Fits(r, 4, IoWord)
      BY <1>1, <1>4, RegisterFacts
    <3>2. low = Probe(r) /\ work.low = Held(r)
      BY <1>1
    <3> QED BY <1>2, <1>4, <3>1, <3>2, IoAnswers
  <2>2. BaseOf(f, k) = [i |-> work.i, io |-> TRUE, start |-> r.base, size |-> r.size]
    <3>1. r.base + 0 = r.base
      BY <1>2
    <3> QED BY <1>1, <1>3, <1>4, <3>1 DEF BaseOf
  <2> QED BY <2>1, <2>2 DEF Base
<1>5. CASE r.kind = "mem"
  <2>1. /\ ~Skipped(low) /\ ~IsWide(low) /\ low % 2 = 0 /\ PciBARSize(low) = r.size
        /\ work.low - (work.low % 16) = r.base
    <3>1. Fits(r, 16, Word)
      BY <1>1, <1>5, RegisterFacts
    <3>2. low = Probe(r) /\ work.low = Held(r)
      BY <1>1
    <3> QED BY <1>2, <1>5, <3>1, <3>2, MemAnswers
  <2>2. BaseOf(f, k) = [i |-> work.i, io |-> FALSE, start |-> r.base, size |-> r.size]
    <3>1. r.base + 0 = r.base
      BY <1>2
    <3> QED BY <1>1, <1>3, <1>5, <3>1 DEF BaseOf
  <2>3. (low % 2 = 1) = FALSE
    BY <2>1
  <2> QED BY <2>1, <2>2, <2>3 DEF Base
<1> QED BY <1>1, <1>4, <1>5

LEMMA PairTaken ==
  ASSUME machine \in Machines, NEW f \in DOMAIN machine, NEW k \in DOMAIN machine[f].bars,
         machine[f].bars[k].kind = "mem64", k + 1 \in DOMAIN machine[f].bars,
         work.i + 1 = k, work.i \in Nat,
         work.low = Held(machine[f].bars[k]), work.high = Held(machine[f].bars[k + 1]),
         work.probed = Probe(machine[f].bars[k])
  PROVE  Base(FALSE, work.high * Word + work.low - (work.low % 16),
              WideSize(work.probed, Probe(machine[f].bars[k + 1]))) = BaseOf(f, k)
<1>1. PICK r : r = machine[f].bars[k]
  OBVIOUS
<1>2. PICK h : h = machine[f].bars[k + 1]
  OBVIOUS
<1>3. /\ r \in Register /\ h \in Register /\ Wide(r) /\ h.kind = "high" /\ Fits(h, 1, Word)
      /\ r.size < Word => h.size = 1
  BY <1>1, <1>2, RegisterFacts
<1>4. r.base \in Nat /\ h.base \in Nat /\ Word \in Nat
  BY <1>3, WordFacts DEF Register
<1>5. work.low = r.base + 4 /\ work.low - (work.low % 16) = r.base
  BY <1>1, <1>3, WideAnswers
<1>6. work.high = h.base
  BY <1>2, <1>3, HighAnswers
<1>7. WideSize(work.probed, Probe(h)) = IF r.size < Word THEN r.size ELSE Word * h.size
  BY <1>1, <1>3, PairSize
<1>8. work.high * Word + work.low - (work.low % 16) = r.base + h.base * Word
  <2>1. PICK a \in Nat : a = h.base * Word
    BY <1>4
  <2>2. PICK l \in Nat : l = work.low
    BY <1>4, <1>5
  <2>3. PICK m \in Nat : m = work.low % 16
    BY <2>2
  <2>4. l - m = r.base
    BY <1>5, <2>2, <2>3
  <2>5. a + l - m = r.base + a
    BY <1>4, <2>4
  <2> QED BY <1>6, <2>1, <2>2, <2>3, <2>5
<1>9. BaseOf(f, k) = [i |-> work.i, io |-> FALSE, start |-> r.base + h.base * Word,
                      size |-> IF r.size < Word THEN r.size ELSE Word * h.size]
  <2>1. k - 1 = work.i
    OBVIOUS
  <2> QED BY <1>1, <1>2, <2>1 DEF BaseOf
<1> QED BY <1>2, <1>7, <1>8, <1>9 DEF Base

(* The steps of the reading one by one.                                    *)
LEMMA FirstNotHigh ==
  ASSUME machine \in Machines, NEW f \in DOMAIN machine, 1 \in DOMAIN machine[f].bars
  PROVE  machine[f].bars[1].kind # "high"
<1> SUFFICES ASSUME machine[f].bars[1].kind = "high" PROVE FALSE
  OBVIOUS
<1>1. 1 - 1 \in DOMAIN machine[f].bars
  BY RegisterFacts
<1>2. 1 - 1 \in Nat \ {0}
  BY <1>1, RegisterFacts
<1> QED BY <1>2

LEMMA AfterNotHigh ==
  ASSUME machine \in Machines, NEW f \in DOMAIN machine, NEW k \in Nat,
         k + 1 \in DOMAIN machine[f].bars,
         k \in DOMAIN machine[f].bars => machine[f].bars[k].kind # "mem64"
  PROVE  machine[f].bars[k + 1].kind # "high"
<1> SUFFICES ASSUME machine[f].bars[k + 1].kind = "high" PROVE FALSE
  OBVIOUS
<1>1. /\ (k + 1) - 1 \in DOMAIN machine[f].bars
      /\ machine[f].bars[(k + 1) - 1].kind = "mem64"
  BY RegisterFacts
<1>2. (k + 1) - 1 = k
  OBVIOUS
<1> QED BY <1>1, <1>2

(* The reading goes on at one function, so that its progress is all there  *)
(* is to show.                                                             *)
LEMMA ReadOne ==
  ASSUME NEW f \in DOMAIN machine, \A g \in DOMAIN machine : At(Now, g) <=> g = f,
         scan' # <<>> => \A g : At(Now, g)' <=> At(Now, g),
         machine' = machine, Progress(f)'
  PROVE  ReadInv'
BY DEF ReadInv, Probing

LEMMA ReadDecodeOff ==
  ASSUME NEW B, Known(B), DecodeOff
  PROVE  ReadInv'
<1>1. PciTypeOK /\ machine \in Machines /\ scan # <<>> /\ Now.step = "decode off"
      /\ machine' = machine
  BY DEF Known, DecodeOff, PciTypeOK
<1>2. PICK f \in DOMAIN machine : Here = {f} /\ \A g \in DOMAIN machine : At(Now, g) <=> g = f
  BY <1>1, ReadingAt DEF Reading
<1>3. work' = [Idle EXCEPT !.command = command[f]]
  BY <1>2 DEF DecodeOff
<1>4. scan' # <<>> /\ Now'.step = "probe" /\ \A g : At(Now, g)' <=> At(Now, g)
  BY <1>1, GotoPlace DEF DecodeOff
<1>5. work'.i = 0 /\ work'.bases = <<>>
  BY <1>3 DEF Idle
<1>6. Progress(f)'
  <2>1. HasBases(f)' = HasBases(f)
    BY <1>1 DEF HasBases
  <2>2. <<>> \in Seq(HasBases(f))
    OBVIOUS
  <2>3. \A e \in HasBases(f) : ~(e.i < 0)
    <3>1. \A e \in HasBases(f) : e.i \in Nat
      BY <1>1, BasesInRange
    <3> QED BY <3>1
  <2>4. 0 + 1 \in DOMAIN machine[f].bars => machine[f].bars[0 + 1].kind # "high"
    <3>1. 0 + 1 = 1
      OBVIOUS
    <3> QED BY <1>1, <3>1, FirstNotHigh
  <2> QED BY <1>1, <1>4, <1>5, <2>1, <2>2, <2>3, <2>4 DEF Progress
<1> QED BY <1>1, <1>2, <1>4, <1>6, ReadOne

LEMMA ReadProbeLow ==
  ASSUME NEW B, Known(B), ProbeInv, ReadInv, ProbeLow
  PROVE  ReadInv'
<1>1. PciTypeOK /\ scan # <<>> /\ Now.step = "probe" /\ machine' = machine
  BY DEF Known, ProbeLow
<1>2. PICK f \in DOMAIN machine : Here = {f} /\ \A g \in DOMAIN machine : At(Now, g) <=> g = f
  BY <1>1, ReadingAt DEF Reading
<1>3. work' = [work EXCEPT !.low = RegisterOf(f, work.i + 1)] /\ work.i < BarsOf(f)
      /\ WriteBar(work.i + 1, AllOnes)
  BY <1>2 DEF ProbeLow
<1>4. scan' # <<>> /\ Now'.step = "low" /\ \A g : At(Now, g)' <=> At(Now, g)
  BY <1>1, GotoPlace DEF ProbeLow
<1>5. work'.i = work.i /\ work'.bases = work.bases
  BY <1>3 DEF ProbeInv
<1>6. Progress(f)
  BY <1>1, <1>2 DEF ReadInv, Probing, ProbingSteps
<1>7. work.i + 1 \in DOMAIN machine[f].bars =>
        bar'[f][work.i + 1] = Probe(machine[f].bars[work.i + 1])
  BY <1>2, <1>3, BarWritten DEF Probe
<1>8. Progress(f)'
  <2>1. HasBases(f)' = HasBases(f) /\ BarsOf(f)' = BarsOf(f)
    BY <1>1 DEF HasBases, BarsOf
  <2> QED BY <1>1, <1>3, <1>4, <1>5, <1>6, <1>7, <2>1 DEF Progress
<1> QED BY <1>1, <1>2, <1>4, <1>8, ReadOne

LEMMA ReadProbeHigh ==
  ASSUME NEW B, Known(B), ProbeInv, ReadInv, ProbeHigh
  PROVE  ReadInv'
<1>1. PciTypeOK /\ scan # <<>> /\ Now.step = "probe high" /\ machine' = machine
      /\ work' = work /\ Goto("high") /\ WriteBar(work.i + 2, AllOnes)
  BY DEF Known, ProbeHigh
<1>2. PICK f \in DOMAIN machine : Here = {f} /\ \A g \in DOMAIN machine : At(Now, g) <=> g = f
  BY <1>1, ReadingAt DEF Reading
<1>3. scan' # <<>> /\ Now'.step = "high" /\ \A g : At(Now, g)' <=> At(Now, g)
  BY <1>1, GotoPlace
<1>4. Progress(f)
  BY <1>1, <1>2 DEF ReadInv, Probing, ProbingSteps
<1>5. (work.i + 1) + 1 = work.i + 2
  BY DEF ProbeInv
<1>6. work.i + 2 \in DOMAIN machine[f].bars =>
        bar'[f][work.i + 2] = Probe(machine[f].bars[work.i + 2])
  <2>1. WriteBar(work.i + 2, AllOnes)
    BY <1>1
  <2> QED BY <1>2, <2>1, BarWritten DEF Probe
<1>7. Progress(f)'
  <2>1. HasBases(f)' = HasBases(f) /\ BarsOf(f)' = BarsOf(f)
    BY <1>1 DEF HasBases, BarsOf
  <2> QED BY <1>1, <1>3, <1>4, <1>5, <1>6, <2>1 DEF Progress
<1> QED BY <1>1, <1>2, <1>3, <1>7, ReadOne

(* Both halves are there: the base has the address and the size of the     *)
(* register.                                                               *)
LEMMA ReadTakeHigh ==
  ASSUME NEW B, Known(B), ProbeInv, ReadInv, TakeHigh
  PROVE  ReadInv'
<1>1. PciTypeOK /\ machine \in Machines /\ scan # <<>> /\ Now.step = "high" /\ machine' = machine
      /\ Goto("probe") /\ work.i \in Nat
  BY DEF Known, TakeHigh, PciTypeOK, ProbeInv
<1>2. PICK f \in DOMAIN machine : Here = {f} /\ \A g \in DOMAIN machine : At(Now, g) <=> g = f
  BY <1>1, ReadingAt DEF Reading
<1>3. scan' # <<>> /\ Now'.step = "probe" /\ \A g : At(Now, g)' <=> At(Now, g)
  BY <1>1, GotoPlace
<1>4. Progress(f) /\ Registers(f) /\ Probing(f)
  BY <1>1, <1>2 DEF ReadInv, ProbeInv, Probing, ProbingSteps
<1>5. (work.i + 1) + 1 = work.i + 2 /\ work.i + 2 # work.i + 1
  BY <1>1
<1>6. /\ work.i + 1 \in DOMAIN machine[f].bars /\ work.i + 2 \in DOMAIN machine[f].bars
      /\ machine[f].bars[work.i + 1].kind = "mem64"
      /\ work.low = Held(machine[f].bars[work.i + 1])
      /\ work.probed = Probe(machine[f].bars[work.i + 1])
      /\ bar[f][work.i + 2] = Probe(machine[f].bars[work.i + 2])
  BY <1>1, <1>4, <1>5 DEF Progress
<1>7. work.high = Held(machine[f].bars[work.i + 2])
  BY <1>1, <1>4, <1>6 DEF Registers, LeftOrNone, Left
<1>8. RegisterOf(f, work.i + 2) = Probe(machine[f].bars[work.i + 2])
  BY <1>6 DEF RegisterOf
<1> DEFINE b == BaseOf(f, work.i + 1)
<1>9. Base(FALSE, work.high * Word + work.low - (work.low % 16),
           WideSize(work.probed, RegisterOf(f, work.i + 2))) = b
  BY <1>1, <1>5, <1>6, <1>7, <1>8, PairTaken
<1>10. b \in HasBases(f)
  <2>1. work.i + 1 \in HasAt(f)
    BY <1>5, <1>6 DEF HasAt
  <2> QED BY <2>1, BasesByRegister
<1>11. work'.i = work.i + 2 /\ work'.bases = Append(work.bases, b)
  <2>1. work' = [work EXCEPT !.i = NextSlot, !.bases = Append(work.bases, b)]
    BY <1>2, <1>9 DEF TakeHigh, ProbeInv
  <2> HIDE DEF b
  <2> QED BY <2>1 DEF NextSlot, ProbeInv
<1>12. Progress(f)'
  <2>1. HasBases(f)' = HasBases(f) /\ BarsOf(f)' = BarsOf(f)
    BY <1>1 DEF HasBases, BarsOf
  <2>2. work.bases \in Seq(HasBases(f))
    BY <1>4 DEF Progress
  <2>3. /\ Append(work.bases, b) \in Seq(HasBases(f))
        /\ \E j \in DOMAIN Append(work.bases, b) : Append(work.bases, b)[j] = b
        /\ \A x : (\E j \in DOMAIN work.bases : work.bases[j] = x) =>
                    \E j \in DOMAIN Append(work.bases, b) : Append(work.bases, b)[j] = x
    <3> HIDE DEF b
    <3> QED BY <1>10, <2>2, Appended
  <2>4. ASSUME NEW e \in HasBases(f), e.i < work.i + 2
        PROVE  \E j \in DOMAIN Append(work.bases, b) : Append(work.bases, b)[j] = e
    <3>1. work.i + 2 \notin HasAt(f)
      <4>1. machine[f].bars[work.i + 2].kind = "high"
        BY <1>1, <1>5, <1>6, RegisterFacts
      <4> QED BY <4>1 DEF HasAt
    <3>2. e.i < work.i + 1
      BY <1>1, <1>5, <2>4, <3>1, BaseBelow
    <3>3. e.i < work.i \/ e = b
      BY <1>1, <3>2, BaseBelow
    <3>4. e.i < work.i => \E j \in DOMAIN work.bases : work.bases[j] = e
      BY <1>4 DEF Progress
    <3> QED BY <2>3, <3>3, <3>4
  <2>5. ASSUME (work.i + 2) + 1 \in DOMAIN machine[f].bars
        PROVE  machine[f].bars[(work.i + 2) + 1].kind # "high"
    <3>1. machine[f].bars[work.i + 2].kind = "high"
      BY <1>1, <1>5, <1>6, RegisterFacts
    <3> QED BY <1>1, <2>5, <3>1, AfterNotHigh
  <2> HIDE DEF b
  <2> QED BY <1>1, <1>3, <1>11, <2>1, <2>3, <2>4, <2>5 DEF Progress
<1> QED BY <1>1, <1>2, <1>3, <1>12, ReadOne

(* What the first half answers decides: nothing, a base of 32 bits, the    *)
(* first half of one of 64, or such a half in the last slot, which is no   *)
(* base.                                                                   *)
LEMMA ReadTakeLow ==
  ASSUME NEW B, Known(B), ProbeInv, ReadInv, TakeLow
  PROVE  ReadInv'
<1>1. PciTypeOK /\ machine \in Machines /\ scan # <<>> /\ Now.step = "low" /\ machine' = machine
      /\ work.i \in Nat
  BY DEF Known, TakeLow, PciTypeOK, ProbeInv
<1>2. PICK f \in DOMAIN machine : Here = {f} /\ \A g \in DOMAIN machine : At(Now, g) <=> g = f
  BY <1>1, ReadingAt DEF Reading
<1>3. Progress(f) /\ Registers(f) /\ Probing(f)
  BY <1>1, <1>2 DEF ReadInv, ProbeInv, Probing, ProbingSteps
<1>4. PICK k \in Nat : k = work.i + 1
  BY <1>1
<1>5. /\ work.bases \in Seq(HasBases(f)) /\ work.i < BarsOf(f)
      /\ \A e \in HasBases(f) : e.i < work.i =>
           \E j \in DOMAIN work.bases : work.bases[j] = e
      /\ k \in DOMAIN machine[f].bars =>
           machine[f].bars[k].kind # "high" /\ bar[f][k] = Probe(machine[f].bars[k])
  BY <1>1, <1>3, <1>4 DEF Progress
<1>6. PICK low : low = RegisterOf(f, k)
  OBVIOUS
<1>7. /\ k \in DOMAIN machine[f].bars =>
           low = Probe(machine[f].bars[k]) /\ work.low = Held(machine[f].bars[k])
      /\ k \notin DOMAIN machine[f].bars => low = 0
  BY <1>1, <1>3, <1>4, <1>5, <1>6 DEF Registers, LeftOrNone, Left, RegisterOf
<1>8. \/ /\ Skipped(low)
         /\ work' = [work EXCEPT !.i = work.i + 1]
         /\ Goto("probe")
      \/ /\ ~Skipped(low) /\ ~IsWide(low)
         /\ work' = [work EXCEPT !.i = work.i + 1, !.bases =
                       Append(work.bases,
                              Base(low % 2 = 1,
                                   IF low % 2 = 1 THEN work.low - (work.low % 4)
                                   ELSE work.low - (work.low % 16), PciBARSize(low)))]
         /\ Goto("probe")
      \/ /\ ~Skipped(low) /\ IsWide(low) /\ work.i + 1 < BarsOf(f)
         /\ work' = [work EXCEPT !.probed = low, !.high = RegisterOf(f, work.i + 2)]
         /\ Goto("probe high")
      \/ /\ ~Skipped(low) /\ IsWide(low) /\ work.i + 1 >= BarsOf(f)
         /\ work' = [work EXCEPT !.i = 6]
         /\ Goto("probe")
  BY <1>2, <1>4, <1>6 DEF TakeLow, ProbeInv
<1>9. HasBases(f)' = HasBases(f) /\ BarsOf(f)' = BarsOf(f) /\ BarsOf(f) \in {2, 6}
  BY <1>1 DEF HasBases, BarsOf, MaxBars
<1>10. ASSUME Goto("probe"), NEW n \in Nat, work'.i = n, work'.bases \in Seq(HasBases(f)),
              \A e \in HasBases(f) : e.i < n =>
                \E j \in DOMAIN work'.bases : work'.bases[j] = e,
              n + 1 \in DOMAIN machine[f].bars => machine[f].bars[n + 1].kind # "high"
       PROVE  ReadInv'
  <2>1. scan' # <<>> /\ Now'.step = "probe" /\ \A g : At(Now, g)' <=> At(Now, g)
    BY <1>1, <1>10, GotoPlace
  <2>2. Progress(f)'
    BY <1>1, <1>9, <1>10, <2>1 DEF Progress
  <2> QED BY <1>1, <1>2, <2>1, <2>2, ReadOne
<1>11. ASSUME k \in DOMAIN machine[f].bars => machine[f].bars[k].kind # "mem64",
              k + 1 \in DOMAIN machine[f].bars
       PROVE  machine[f].bars[k + 1].kind # "high"
  BY <1>1, <1>11, AfterNotHigh
<1>12. CASE k \notin DOMAIN machine[f].bars \/ machine[f].bars[k].kind = "none"
  <2>1. low = 0
    BY <1>7, <1>12 DEF Probe, Keeps
  <2>2. Goto("probe") /\ work'.i = k /\ work'.bases = work.bases
    BY <1>4, <1>8, <2>1 DEF Skipped, ProbeInv
  <2>3. k \notin HasAt(f)
    BY <1>12 DEF HasAt
  <2>4. \A e \in HasBases(f) : e.i < k => e.i < work.i
    BY <1>1, <1>4, <2>3, BaseBelow
  <2>5. \A e \in HasBases(f) : e.i < k => \E j \in DOMAIN work'.bases : work'.bases[j] = e
    BY <1>5, <2>2, <2>4
  <2>6. k + 1 \in DOMAIN machine[f].bars => machine[f].bars[k + 1].kind # "high"
    BY <1>11, <1>12
  <2> QED BY <1>5, <1>10, <2>2, <2>5, <2>6
<1>13. CASE k \in DOMAIN machine[f].bars /\ machine[f].bars[k].kind \in {"io", "mem"}
  <2>1. /\ ~Skipped(low) /\ ~IsWide(low)
        /\ Base(low % 2 = 1,
                IF low % 2 = 1 THEN work.low - (work.low % 4) ELSE work.low - (work.low % 16),
                PciBARSize(low)) = BaseOf(f, k)
    BY <1>1, <1>4, <1>7, <1>13, BaseTaken
  <2>2. PICK b : b = BaseOf(f, k)
    OBVIOUS
  <2>3. Goto("probe") /\ work' = [work EXCEPT !.i = k, !.bases = Append(work.bases, b)]
    BY <1>4, <1>8, <2>1, <2>2
  <2>4. work'.i = k /\ work'.bases = Append(work.bases, b)
    BY <2>3 DEF ProbeInv
  <2>5. b \in HasBases(f)
    <3>1. k \in HasAt(f)
      BY <1>13 DEF HasAt
    <3> QED BY <2>2, <3>1, BasesByRegister
  <2>6. /\ Append(work.bases, b) \in Seq(HasBases(f))
        /\ \E j \in DOMAIN Append(work.bases, b) : Append(work.bases, b)[j] = b
        /\ \A x : (\E j \in DOMAIN work.bases : work.bases[j] = x) =>
                    \E j \in DOMAIN Append(work.bases, b) : Append(work.bases, b)[j] = x
    <3> DEFINE S == HasBases(f)
               q == work.bases
    <3>1. q \in Seq(S) /\ b \in S
      BY <1>5, <2>5
    <3> HIDE DEF S, q
    <3>2. /\ Append(q, b) \in Seq(S)
          /\ \E j \in DOMAIN Append(q, b) : Append(q, b)[j] = b
          /\ \A x : (\E j \in DOMAIN q : q[j] = x) =>
                      \E j \in DOMAIN Append(q, b) : Append(q, b)[j] = x
      BY <3>1, Appended
    <3> QED BY <3>2 DEF S, q
  <2>7. ASSUME NEW e \in HasBases(f), e.i < k
        PROVE  \E j \in DOMAIN Append(work.bases, b) : Append(work.bases, b)[j] = e
    <3>1. e.i < work.i \/ e = b
      BY <1>1, <1>4, <2>2, <2>7, BaseBelow
    <3> QED BY <1>5, <2>6, <3>1
  <2>8. k + 1 \in DOMAIN machine[f].bars => machine[f].bars[k + 1].kind # "high"
    BY <1>11, <1>13
  <2> QED BY <1>10, <2>3, <2>4, <2>6, <2>7, <2>8
<1>14. CASE k \in DOMAIN machine[f].bars /\ machine[f].bars[k].kind = "mem64"
  <2>1. /\ Wide(machine[f].bars[k]) /\ machine[f].bars[k] \in Register
        /\ k + 1 \in DOMAIN machine[f].bars \/ k = BarsOf(f)
    BY <1>1, <1>14, RegisterFacts
  <2>2. ~Skipped(low) /\ IsWide(low)
    BY <1>7, <1>14, <2>1, WideAnswers
  <2>3. CASE k + 1 \in DOMAIN machine[f].bars
    <3>1. k + 1 <= BarsOf(f)
      BY <1>1, <2>3, RegisterFacts
    <3>2. work.i + 1 < BarsOf(f)
      BY <1>1, <1>4, <1>9, <3>1
    <3>3. /\ work' = [work EXCEPT !.probed = low, !.high = RegisterOf(f, work.i + 2)]
          /\ Goto("probe high")
      <4>1. ~(work.i + 1 >= BarsOf(f))
        BY <1>4, <1>9, <3>2
      <4> QED BY ONLY <1>8, <2>2, <4>1
    <3>4. /\ work'.i = work.i /\ work'.bases = work.bases /\ work'.low = work.low
          /\ work'.probed = low
      BY <3>3 DEF ProbeInv
    <3>5. scan' # <<>> /\ Now'.step = "probe high" /\ \A g : At(Now, g)' <=> At(Now, g)
      BY <1>1, <3>3, GotoPlace
    <3>6. Progress(f)'
      <4>1. work'.i + 1 = k /\ work'.i < BarsOf(f)' /\ HasBases(f)' = HasBases(f)
        BY <1>4, <1>5, <1>9, <3>4
      <4>2. /\ work'.bases \in Seq(HasBases(f)')
            /\ \A e \in HasBases(f)' :
                 e.i < work'.i => \E j \in DOMAIN work'.bases : work'.bases[j] = e
        BY <1>5, <3>4, <4>1
      <4>3. /\ k \in DOMAIN machine'[f].bars /\ k + 1 \in DOMAIN machine'[f].bars
            /\ machine'[f].bars[k].kind = "mem64"
            /\ work'.low = Held(machine'[f].bars[k]) /\ work'.probed = Probe(machine'[f].bars[k])
        BY <1>1, <1>7, <1>14, <2>3, <3>4
      <4>4. machine'[f].bars[k].kind # "high"
        BY <4>3
      <4>5. Now'.step # "low" /\ Now'.step # "high"
        BY <3>5
      <4> QED BY <4>1, <4>2, <4>3, <4>4, <4>5, Zenon DEF Progress
    <3> QED BY <1>1, <1>2, <3>5, <3>6, ReadOne
  <2>4. CASE k + 1 \notin DOMAIN machine[f].bars
    <3>1. k = BarsOf(f) /\ work.i + 1 >= BarsOf(f)
      BY <1>1, <1>4, <1>9, <2>1, <2>4
    <3>2. work' = [work EXCEPT !.i = 6] /\ Goto("probe")
      <4>1. ~(work.i + 1 < BarsOf(f))
        BY <1>4, <1>9, <3>1
      <4> QED BY ONLY <1>8, <2>2, <4>1
    <3>3. work'.i = 6 /\ work'.bases = work.bases
      BY <3>2 DEF ProbeInv
    <3>4. k \notin HasAt(f)
      BY <1>14, <2>4 DEF HasAt
    <3>5. ASSUME NEW e \in HasBases(f) PROVE e.i < work.i
      <4>1. e.i < k
        BY <1>1, <3>1, BasesInRange
      <4> QED BY <1>1, <1>4, <3>4, <4>1, BaseBelow
    <3>6. 6 + 1 \notin DOMAIN machine[f].bars
      <4>1. ~(6 + 1 <= BarsOf(f))
        BY <1>9
      <4> QED BY <1>1, <4>1, RegisterFacts
    <3>7. \A e \in HasBases(f) : e.i < 6 => \E j \in DOMAIN work'.bases : work'.bases[j] = e
      BY <1>5, <3>3, <3>5
    <3> QED BY <1>5, <1>10, <3>2, <3>3, <3>6, <3>7
  <2> QED BY <2>3, <2>4
<1>15. k \in DOMAIN machine[f].bars =>
         machine[f].bars[k].kind \in {"none", "io", "mem", "mem64"}
  BY <1>1, <1>5, RegisterFacts
<1> QED BY <1>12, <1>13, <1>14, <1>15

(* The registers are read one after the other, in every step.              *)
LEMMA ReadInit == Init => ReadInv
<1> SUFFICES ASSUME Init PROVE ReadInv
  OBVIOUS
<1>1. Now = [Frame(Root, 0) EXCEPT !.step = "boot"]
  BY DEF Init, Now
<1> QED BY <1>1 DEF Frame, ReadInv, Probing, ProbingSteps

LEMMA ReadStep == ScanInv /\ ProbeInv /\ ReadInv /\ [Next]_vars => ReadInv'
<1> SUFFICES ASSUME ScanInv, ProbeInv, ReadInv, [Next]_vars PROVE ReadInv'
  OBVIOUS
<1>1. PICK B \in SUBSET Bridges : Known(B)
  BY DEF ScanInv
<1>2. CASE UNCHANGED vars
  <2>1. UNCHANGED <<machine, bar, work, scan>>
    BY <1>2 DEF vars
  <2>2. ASSUME NEW f \in DOMAIN machine, Probing(f)' PROVE Progress(f)'
    <3>1. Progress(f)
      BY <2>1, <2>2 DEF ReadInv, Probing, At, Wire, Now
    <3>2. HasBases(f)' = HasBases(f) /\ BarsOf(f)' = BarsOf(f) /\ Now' = Now
      BY <2>1 DEF HasBases, BarsOf, Now
    <3> QED BY <2>1, <3>1, <3>2 DEF Progress
  <2> QED BY <2>1, <2>2 DEF ReadInv
<1>3. CASE DecodeOff \/ ProbeLow \/ TakeLow \/ ProbeHigh \/ TakeHigh
  BY <1>1, <1>3, ReadDecodeOff, ReadProbeLow, ReadTakeLow, ReadProbeHigh, ReadTakeHigh
<1>4. CASE RestoreCommand
  BY <1>1, <1>4, RestoreLeaves DEF ReadInv, Probing
<1>5. CASE \/ PciEnumerate \/ ScanNothing \/ ScanFunction \/ NoBus \/ WritePrimary
           \/ WriteSecondary \/ OpenWindow \/ EndBus \/ CloseWindow
  BY <1>1, <1>5, NotProbing DEF ReadInv, Probing
<1> QED BY <1>2, <1>3, <1>4, <1>5 DEF Next

(* A step that moves the innermost frame on.                               *)
LEMMA OtherWires ==
  ASSUME NEW B, Known(B), NEW i \in 2 .. Len(scan)
  PROVE  scan[i].behind # Now.behind
<1>1. PciTypeOK
  BY DEF Known
<1>2. scan # <<>> /\ Len(scan) \in Nat
  BY <1>1 DEF PciTypeOK
<1>3. 1 \in 1 .. Len(scan) /\ i \in 1 .. Len(scan) /\ 1 < i /\ Now = scan[1]
  BY <1>1, <1>2, FramesTyped
<1>4. /\ scan[i].number < scan[1].number /\ scan[i].number \in Nat
      /\ scan[1].number = Numbers(B, scan[1].behind)
      /\ scan[i].number = Numbers(B, scan[i].behind)
  BY <1>1, <1>2, <1>3, FramesTyped DEF Known, Chained, Positioned, FrameType
<1> QED BY <1>3, <1>4

(* What a frame is at it has not passed.                                   *)
LEMMA AtAhead ==
  ASSUME PciTypeOK, NEW t, NEW f \in DOMAIN machine, At(t, f)
  PROVE  Ahead(t, f)
<1>1. machine[f].slot \in Nat /\ machine[f].func \in Nat
  BY MachineFacts DEF PciTypeOK
<1> QED BY <1>1 DEF At, Ahead

(* When the innermost frame becomes another, what it says of the buses     *)
(* above stays: their functions are on other wires.                        *)
LEMMA ReachTop ==
  ASSUME NEW B, Known(B), Reached(B), scan # <<>>, NEW t \in FrameType,
         scan' = <<t>> \o Tail(scan), machine' = machine, pool' \in Nat, pool' <= pool,
         \A d, e \in found' : d.fn = e.fn => d = e,
         \A d \in found' : Complete(d) \/ (t.step \in Reading /\ At(t, d.fn)),
         \A f \in DOMAIN machine :
           /\ IsFound(f) => IsFound(f)'
           /\ IsFound(f)' => IsFound(f) \/ At(Now, f)
           /\ Ahead(t, f) => (IsFound(f)' <=> At(t, f) /\ t.step \notin Quiet),
         pool' > 0 => \A f \in DOMAIN machine : Ahead(Now, f) => Ahead(t, f) \/ IsFound(f)'
  PROVE  Reached(B)'
<1>1. PciTypeOK
  BY DEF Known
<1>2. Now = scan[1] /\ 1 \in 1 .. Len(scan) /\ Len(scan) \in Nat
  BY <1>1, FramesTyped
<1>3. /\ scan' # <<>> /\ Len(scan') = Len(scan) /\ Now' = t /\ scan'[1] = t
      /\ \A i \in 2 .. Len(scan) : scan'[i] = scan[i]
  BY <1>1, TopReplaced DEF Now
<1>4. \A s, f : Ahead(s, f)' = Ahead(s, f) /\ At(s, f)' = At(s, f)
  BY DEF Ahead, At, Wire
<1>5. \A f : Wire(f)' = Wire(f) /\ HasBases(f)' = HasBases(f)
  BY DEF Wire, HasBases
<1>6. ASSUME NEW d \in found'
      PROVE  Complete(d)' \/ (scan' # <<>> /\ Now'.step \in Reading /\ At(Now, d.fn)')
  BY <1>3, <1>5 DEF Complete, At, Wire
<1>7. ASSUME NEW f \in DOMAIN machine, NEW i \in 1 .. Len(scan), Ahead(scan'[i], f)
      PROVE  IsFound(f)' <=> At(scan'[i], f) /\ scan'[i].step \notin Quiet
  <2>1. CASE i = 1
    BY <1>3, <1>7, <2>1
  <2>2. CASE i # 1
    <3>1. i \in 2 .. Len(scan)
      BY <1>2, <2>2
    <3>2. scan'[i] = scan[i] /\ scan[i].behind # Now.behind
      BY <1>3, <3>1, OtherWires
    <3>3. ~At(Now, f)
      BY <1>7, <3>2 DEF At, Ahead
    <3>4. IsFound(f) <=> At(scan[i], f) /\ scan[i].step \notin Quiet
      BY <1>7, <3>2 DEF Reached
    <3> QED BY <3>2, <3>3, <3>4
  <2> QED BY <2>1, <2>2
<1>8. ASSUME pool' > 0, NEW f \in DOMAIN machine, Wire(f) \in Parents(B), ~IsFound(f)'
      PROVE  \E i \in 1 .. Len(scan) : Ahead(scan'[i], f)
  <2>1. pool > 0 /\ ~IsFound(f)
    BY <1>1, <1>8 DEF PciTypeOK
  <2>2. PICK i \in 1 .. Len(scan) : Ahead(scan[i], f)
    BY <1>8, <2>1 DEF Reached
  <2>3. CASE i = 1
    BY <1>2, <1>3, <1>8, <2>2, <2>3
  <2>4. CASE i # 1
    BY <1>2, <1>3, <2>2, <2>4
  <2> QED BY <2>3, <2>4
<1>9. \A f \in DOMAIN machine', i \in 1 .. Len(scan') :
        Ahead(scan[i], f)' => (IsFound(f)' <=> At(scan[i], f)' /\ scan'[i].step \notin Quiet)
  <2>1. ASSUME NEW f \in DOMAIN machine, NEW i \in 1 .. Len(scan)
        PROVE  Ahead(scan[i], f)' = Ahead(scan'[i], f) /\ At(scan[i], f)' = At(scan'[i], f)
    BY DEF Ahead, At, Wire
  <2> QED BY <1>3, <1>7, <2>1
<1>10. pool' > 0 => \A f \in DOMAIN machine' : Wire(f)' \in Parents(B) =>
         IsFound(f)' \/ \E i \in 1 .. Len(scan') : Ahead(scan[i], f)'
  <2>1. ASSUME pool' > 0, NEW f \in DOMAIN machine, Wire(f)' \in Parents(B), ~IsFound(f)'
        PROVE  \E i \in 1 .. Len(scan') : Ahead(scan[i], f)'
    <3>1. PICK i \in 1 .. Len(scan) : Ahead(scan'[i], f)
      BY <1>5, <1>8, <2>1
    <3>2. Ahead(scan[i], f)' /\ i \in 1 .. Len(scan')
      BY <1>3, <3>1 DEF Ahead, Wire
    <3> QED BY <3>2
  <2> QED BY <2>1
<1> QED BY <1>6, <1>9, <1>10 DEF Reached, Parents

(* It becomes one at the same place, or one behind it.                     *)
LEMMA ReachGoto ==
  ASSUME NEW B, Known(B), Reached(B), scan # <<>>, NEW t \in FrameType,
         scan' = <<t>> \o Tail(scan), machine' = machine, pool' \in Nat, pool' <= pool,
         found' = found, t.behind = Now.behind, t.slot = Now.slot, t.func = Now.func,
         Now.step \in Quiet <=> t.step \in Quiet, Now.step \in Reading => t.step \in Reading
  PROVE  Reached(B)'
<1>1. PciTypeOK
  BY DEF Known
<1>2. Now = scan[1] /\ 1 \in 1 .. Len(scan)
  BY <1>1, FramesTyped
<1>3. \A f : (At(t, f) <=> At(Now, f)) /\ (Ahead(t, f) <=> Ahead(Now, f))
  BY DEF At, Ahead
<1>4. \A f : IsFound(f)' <=> IsFound(f)
  BY DEF IsFound
<1>5. \A d, e \in found' : d.fn = e.fn => d = e
  BY DEF Reached
<1>6. \A d \in found' : Complete(d) \/ (t.step \in Reading /\ At(t, d.fn))
  BY <1>3 DEF Reached
<1>7. \A f \in DOMAIN machine :
        Ahead(t, f) => (IsFound(f)' <=> At(t, f) /\ t.step \notin Quiet)
  BY <1>2, <1>3, <1>4 DEF Reached
<1> QED BY <1>3, <1>4, <1>5, <1>6, <1>7, ReachTop

LEMMA ReachAdvance ==
  ASSUME NEW B, Known(B), Reached(B), scan # <<>>, Now.step # "end", Advance,
         machine' = machine, pool' \in Nat, pool' <= pool,
         \A d, e \in found' : d.fn = e.fn => d = e, \A d \in found' : Complete(d),
         \A f \in DOMAIN machine : IsFound(f)' <=> IsFound(f),
         pool' > 0 =>
           \A f \in DOMAIN machine : At(Now, f) =>
             IsFound(f) /\ (Now.func = 0 => Now.multi = machine[f].multi)
  PROVE  Reached(B)'
<1>1. PciTypeOK
  BY DEF Known
<1>2. Now = scan[1] /\ 1 \in 1 .. Len(scan) /\ Now \in FrameType
  BY <1>1, FramesTyped
<1>3. Now.slot < SlotCount
  BY <1>2 DEF Known, Chained, Positioned
<1>4. PICK t : t = After(Now)
  OBVIOUS
<1>5. t \in FrameType /\ t.step \in Quiet /\ scan' = <<t>> \o Tail(scan)
  BY <1>1, <1>2, <1>3, <1>4, AfterPlace DEF Quiet, Advance
<1>6. ASSUME NEW f \in DOMAIN machine, Ahead(t, f) PROVE ~IsFound(f)'
  <2>1. Ahead(Now, f) /\ ~At(Now, f)
    BY <1>1, <1>2, <1>3, <1>4, <1>6, AheadAfter
  <2> QED BY <1>2, <2>1 DEF Reached
<1>7. ASSUME pool' > 0, NEW f \in DOMAIN machine, Ahead(Now, f)
      PROVE  Ahead(t, f) \/ IsFound(f)'
  BY <1>1, <1>2, <1>3, <1>4, <1>7, AfterAhead
<1> QED BY <1>5, <1>6, <1>7, ReachTop

(* A description that is complete stays so: the machine does not change.   *)
LEMMA StaysComplete ==
  ASSUME machine' = machine, NEW d, Complete(d)
  PROVE  Complete(d)'
<1>1. HasBases(d.fn)' = HasBases(d.fn)
  BY DEF HasBases
<1>2. d.read /\ {d.bases[j] : j \in DOMAIN d.bases} = HasBases(d.fn)
  BY DEF Complete
<1> QED BY <1>1, <1>2 DEF Complete

(* The steps one by one.  Those that find nothing.                         *)
LEMMA ReachEnumerate ==
  ASSUME NEW B, Known(B), Reached(B), PciEnumerate
  PROVE  Reached(B)'
<1>1. PciTypeOK /\ scan # <<>> /\ Now.step = "boot" /\ found' = found /\ machine' = machine
  BY DEF Known, PciEnumerate
<1>2. Now \in FrameType /\ pool \in Nat
  BY <1>1, FramesTyped DEF PciTypeOK
<1>3. CASE pool = 0
  <2>1. scan' = <<>> /\ pool' = 0
    BY <1>3 DEF PciEnumerate
  <2>2. \A d \in found : Complete(d)
    BY <1>1 DEF Reached, Reading
  <2>3. Len(scan') = 0
    BY <2>1
  <2>4. \A d, e \in found' : d.fn = e.fn => d = e
    BY <1>1 DEF Reached
  <2>5. \A d \in found' : Complete(d)'
    BY <1>1, <2>2, StaysComplete
  <2> QED BY <2>1, <2>3, <2>4, <2>5 DEF Reached
<1>4. CASE pool # 0
  <2>1. PICK t : t = [Now EXCEPT !.step = "function"]
    OBVIOUS
  <2>2. scan' = <<t>> \o Tail(scan) /\ pool' \in Nat /\ pool' <= pool
    BY <1>2, <1>4, <2>1 DEF PciEnumerate, Goto
  <2>3. /\ t \in FrameType /\ t.behind = Now.behind /\ t.slot = Now.slot
        /\ t.func = Now.func /\ t.step = "function"
    BY <1>2, <2>1 DEF FrameType, Steps, Quiet
  <2>4. Now.step \in Quiet /\ t.step \in Quiet /\ Now.step \notin Reading
    BY <1>1, <2>3 DEF Quiet, Reading
  <2> QED BY <1>1, <2>2, <2>3, <2>4, ReachGoto
<1> QED BY <1>3, <1>4

(* Outside of the reading, every descriptor is filled in.                  *)
LEMMA AllComplete ==
  ASSUME NEW B, Reached(B), Now.step \notin Reading
  PROVE  \A d \in found : Complete(d)
BY DEF Reached

LEMMA ReachNothing ==
  ASSUME NEW B, Known(B), Reached(B), ScanNothing
  PROVE  Reached(B)'
<1>1. PciTypeOK /\ scan # <<>> /\ Now.step = "function" /\ found' = found /\ pool' = pool
      /\ machine' = machine /\ Advance
  BY DEF Known, ScanNothing
<1>2. pool = 0 \/ \A f \in DOMAIN machine : ~At(Now, f)
  BY <1>1, HereIsAt DEF ScanNothing
<1>3. \A d \in found : Complete(d)
  BY <1>1, AllComplete DEF Reading
<1>4. pool \in Nat /\ \A f : IsFound(f)' <=> IsFound(f)
  BY <1>1 DEF PciTypeOK, IsFound
<1>5. \A d, e \in found' : d.fn = e.fn => d = e
  BY <1>1 DEF Reached
<1> QED BY <1>1, <1>2, <1>3, <1>4, <1>5, ReachAdvance

LEMMA ReachNoBus ==
  ASSUME NEW B, Known(B), Reached(B), NoBus
  PROVE  Reached(B)'
<1>1. PciTypeOK /\ scan # <<>> /\ Now.step = "bridge" /\ found' = found /\ pool' = 0
      /\ pool = 0 /\ machine' = machine /\ Advance
  BY DEF Known, NoBus
<1>2. \A d \in found : Complete(d)
  BY <1>1, AllComplete DEF Reading
<1>3. \A f : IsFound(f)' <=> IsFound(f)
  BY <1>1 DEF IsFound
<1>4. \A d, e \in found' : d.fn = e.fn => d = e
  BY <1>1 DEF Reached
<1> QED BY <1>1, <1>2, <1>3, <1>4, ReachAdvance

LEMMA ReachClose ==
  ASSUME NEW B, Known(B), Reached(B), CloseWindow
  PROVE  Reached(B)'
<1>1. PciTypeOK /\ scan # <<>> /\ Now.step = "close" /\ found' = found /\ pool' = pool
      /\ machine' = machine /\ Advance
  BY DEF Known, CloseWindow
<1>2. \A d \in found : Complete(d)
  BY <1>1, AllComplete DEF Reading
<1>3. pool \in Nat /\ \A f : IsFound(f)' <=> IsFound(f)
  BY <1>1 DEF PciTypeOK, IsFound
<1>4. \A d, e \in found' : d.fn = e.fn => d = e
  BY <1>1 DEF Reached
<1>5. Now = scan[1] /\ 1 \in 1 .. Len(scan)
  BY <1>1, FramesTyped
<1>6. PICK b \in DOMAIN machine : At(Now, b) /\ (Now.func = 0 => Now.multi = machine[b].multi)
  BY <1>1, <1>5 DEF Known, Chained, Positioned, Quiet
<1>7. ASSUME NEW f \in DOMAIN machine, At(Now, f)
      PROVE  IsFound(f) /\ (Now.func = 0 => Now.multi = machine[f].multi)
  <2>1. f = b
    BY <1>1, <1>6, <1>7, OneAt
  <2>2. IsFound(f)
    BY <1>1, <1>5, <1>7, AtAhead DEF Reached, Quiet
  <2> QED BY <1>6, <2>1, <2>2
<1> QED BY <1>1, <1>2, <1>3, <1>4, <1>7, ReachAdvance

(* Those that stay at the place.                                           *)
LEMMA ReachReading ==
  ASSUME NEW B, Known(B), Reached(B), DecodeOff \/ ProbeLow \/ TakeLow \/ ProbeHigh \/ TakeHigh
  PROVE  Reached(B)'
<1>1. PciTypeOK /\ scan # <<>> /\ Now.step \in Reading /\ found' = found /\ pool' = pool
      /\ machine' = machine
  BY ReadingSteps
<1>2. PICK s \in Reading : Goto(s)
  BY ReadingSteps
<1>3. PICK t : t = [Now EXCEPT !.step = s]
  OBVIOUS
<1>4. Now \in FrameType /\ pool \in Nat
  BY <1>1, FramesTyped DEF PciTypeOK
<1>5. /\ t \in FrameType /\ t.behind = Now.behind /\ t.slot = Now.slot /\ t.func = Now.func
      /\ t.step = s
  BY <1>2, <1>3, <1>4 DEF FrameType, Steps
<1>6. Now.step \notin Quiet /\ t.step \notin Quiet
  BY <1>1, <1>2, <1>5 DEF Quiet, Reading
<1>7. scan' = <<t>> \o Tail(scan)
  BY <1>2, <1>3 DEF Goto
<1> QED BY <1>1, <1>2, <1>4, <1>5, <1>6, <1>7, ReachGoto

LEMMA ReachPrimary ==
  ASSUME NEW B, Known(B), Reached(B), WritePrimary
  PROVE  Reached(B)'
<1>1. PciTypeOK /\ scan # <<>> /\ Now.step = "bridge" /\ found' = found /\ pool > 0
      /\ pool' = pool - 1 /\ machine' = machine
  BY DEF Known, WritePrimary
<1>2. Now \in FrameType /\ pool \in Nat /\ NextBusNumber \in Nat
  BY <1>1, FramesTyped DEF PciTypeOK
<1>3. PICK t : t = [Now EXCEPT !.step = "secondary", !.secondary = NextBusNumber]
  OBVIOUS
<1>4. /\ t \in FrameType /\ t.behind = Now.behind /\ t.slot = Now.slot /\ t.func = Now.func
      /\ t.step = "secondary"
  BY <1>2, <1>3 DEF FrameType, Steps, Begin
<1>5. Now.step \notin Quiet \cup Reading /\ t.step \notin Quiet
  BY <1>1, <1>4 DEF Quiet, Reading
<1>6. scan' = <<t>> \o Tail(scan) /\ pool' \in Nat /\ pool' <= pool
  BY <1>1, <1>2, <1>3 DEF WritePrimary
<1> QED BY <1>1, <1>4, <1>5, <1>6, ReachGoto

LEMMA ReachSecondary ==
  ASSUME NEW B, Known(B), Reached(B), WriteSecondary
  PROVE  Reached(B)'
<1>1. PciTypeOK /\ scan # <<>> /\ Now.step = "secondary" /\ found' = found
      /\ pool' = pool /\ machine' = machine
  BY DEF Known, WriteSecondary
<1>2. Now \in FrameType /\ pool \in Nat
  BY <1>1, FramesTyped DEF PciTypeOK
<1>3. PICK t : t = [Now EXCEPT !.step = "open"]
  OBVIOUS
<1>4. /\ t \in FrameType /\ t.behind = Now.behind /\ t.slot = Now.slot /\ t.func = Now.func
      /\ t.step = "open"
  BY <1>2, <1>3 DEF FrameType, Steps, Begin
<1>5. Now.step \notin Quiet \cup Reading /\ t.step \notin Quiet
  BY <1>1, <1>4 DEF Quiet, Reading
<1>6. scan' = <<t>> \o Tail(scan)
  BY <1>3 DEF WriteSecondary, Goto
<1> QED BY <1>1, <1>2, <1>4, <1>5, <1>6, ReachGoto

(* A function is found: nobody ahead had been.                             *)
LEMMA ReachFunction ==
  ASSUME NEW B, Known(B), Reached(B), ScanFunction
  PROVE  Reached(B)'
<1>1. PciTypeOK /\ scan # <<>> /\ Now.step = "function" /\ pool > 0 /\ pool' = pool - 1
      /\ machine' = machine
  BY DEF Known, ScanFunction
<1>2. Now \in FrameType /\ Now = scan[1] /\ 1 \in 1 .. Len(scan) /\ pool \in Nat
  BY <1>1, FramesTyped DEF PciTypeOK
<1>3. PICK f \in Here :
        /\ scan' = <<[Now EXCEPT !.step = "decode off",
                                 !.multi = IF Now.func = 0 THEN machine[f].multi ELSE @]>>
                   \o Tail(scan)
        /\ found' = found \cup {[number |-> Now.number, slot |-> Now.slot,
                                 func |-> Now.func, fn |-> f,
                                 bases |-> <<>>, read |-> FALSE]}
  BY DEF ScanFunction
<1>4. f \in DOMAIN machine /\ At(Now, f) /\ \A g \in DOMAIN machine : At(Now, g) => g = f
  BY <1>1, HereIsAt, OneAt
<1>5. PICK t : t = [Now EXCEPT !.step = "decode off",
                               !.multi = IF Now.func = 0 THEN machine[f].multi ELSE Now.multi]
  OBVIOUS
<1>6. /\ t \in FrameType /\ t.behind = Now.behind /\ t.slot = Now.slot /\ t.func = Now.func
      /\ t.step = "decode off"
  <2>1. machine[f].multi \in BOOLEAN
    BY <1>1, <1>4, MachineFacts DEF PciTypeOK
  <2> QED BY <1>2, <1>5, <2>1 DEF FrameType, Steps, Reading
<1>7. \A g : (At(t, g) <=> At(Now, g)) /\ (Ahead(t, g) <=> Ahead(Now, g))
  BY <1>6 DEF At, Ahead
<1>8. scan' = <<t>> \o Tail(scan) /\ pool' \in Nat /\ pool' <= pool
  BY <1>1, <1>2, <1>3, <1>5
<1>9. PICK e : e = [number |-> Now.number, slot |-> Now.slot, func |-> Now.func, fn |-> f,
                    bases |-> <<>>, read |-> FALSE]
  OBVIOUS
<1>10. found' = found \cup {e} /\ e.fn = f
  BY <1>3, <1>9
<1>11. \A g : IsFound(g)' <=> IsFound(g) \/ g = f
  BY <1>10 DEF IsFound
<1>12. \A g \in DOMAIN machine : Ahead(Now, g) => ~IsFound(g)
  BY <1>1, <1>2 DEF Reached, Quiet
<1>13. ~IsFound(f)
  BY <1>1, <1>4, <1>12, AtAhead
<1>14. \A d, c \in found' : d.fn = c.fn => d = c
  BY <1>10, <1>13 DEF IsFound, Reached
<1>15. t.step \in Reading /\ t.step \notin Quiet
  BY <1>6 DEF Reading, Quiet
<1>16. \A d \in found' : Complete(d) \/ (t.step \in Reading /\ At(t, d.fn))
  <2>1. \A d \in found : Complete(d)
    BY <1>1, AllComplete DEF Reading
  <2> QED BY <1>4, <1>7, <1>10, <1>15, <2>1
<1>17. \A g \in DOMAIN machine :
         /\ IsFound(g) => IsFound(g)'
         /\ IsFound(g)' => IsFound(g) \/ At(Now, g)
         /\ Ahead(t, g) => (IsFound(g)' <=> At(t, g) /\ t.step \notin Quiet)
  BY <1>4, <1>7, <1>11, <1>12, <1>15
<1> QED BY <1>1, <1>6, <1>7, <1>8, <1>14, <1>16, <1>17, ReachTop

(* The descriptor is filled in, with all bases the function has.           *)
LEMMA ReachRestore ==
  ASSUME NEW B, Known(B), Reached(B), ProbeInv, ReadInv, RestoreCommand
  PROVE  Reached(B)'
<1>1. PciTypeOK /\ machine \in Machines /\ scan # <<>> /\ Now.step = "probe" /\ pool' = pool
      /\ machine' = machine /\ pool \in Nat
  BY DEF Known, RestoreCommand, PciTypeOK
<1>2. Now \in FrameType /\ Positioned(B, Now) /\ Now = scan[1] /\ 1 \in 1 .. Len(scan)
  BY <1>1, FramesTyped DEF Known, Chained
<1>3. PICK f \in DOMAIN machine : Here = {f} /\ \A g \in DOMAIN machine : At(Now, g) <=> g = f
  BY <1>1, ReadingAt DEF Reading
<1>4. work.i >= BarsOf(f) /\ (IF machine[f].bridge THEN Goto("bridge") ELSE Advance)
  BY <1>3 DEF RestoreCommand
<1>5. Probing(f) /\ Progress(f)
  BY <1>1, <1>3 DEF ReadInv, Probing, ProbingSteps
(* All registers are read: what was made of them is what they are.         *)
<1>6. {work.bases[j] : j \in DOMAIN work.bases} = HasBases(f)
  <2>1. work.bases \in Seq(HasBases(f)) /\ work.i \in Nat
    BY <1>5 DEF Progress, ProbeInv
  <2>2. ASSUME NEW e \in HasBases(f) PROVE \E j \in DOMAIN work.bases : work.bases[j] = e
    <3>1. e.i \in Nat /\ e.i < BarsOf(f) /\ BarsOf(f) \in {2, 6}
      BY <1>1, BasesInRange
    <3>2. e.i < work.i
      BY <1>4, <2>1, <3>1
    <3> QED BY <1>5, <3>2 DEF Progress
  <2>3. \A j \in DOMAIN work.bases : work.bases[j] \in HasBases(f)
    BY <2>1
  <2> QED BY <2>2, <2>3
(* The descriptor of the function is the one that has its place.           *)
<1>7. ASSUME NEW d \in found
      PROVE  d.number = Now.number /\ d.slot = Now.slot /\ d.func = Now.func <=> d.fn = f
  <2>1. d.fn \in DOMAIN machine
    BY DEF Known, Descriptors
  <2>2. Answers(d.number, d.slot, d.func) = {d.fn}
    BY KnownReachable, <1>1 DEF FoundStaysReachable, ScanInv, Known, Numbered
  <2>3. ASSUME d.number = Now.number, d.slot = Now.slot, d.func = Now.func PROVE d.fn = f
    BY <1>3, <2>2, <2>3 DEF Here
  <2>4. ASSUME d.fn = f PROVE d.number = Now.number /\ d.slot = Now.slot /\ d.func = Now.func
    BY <1>2, <1>3, <2>4 DEF Known, Descriptors, Positioned, At
  <2> QED BY <2>3, <2>4
<1>8. found' = {IF d.fn = f THEN [d EXCEPT !.bases = work.bases, !.read = TRUE] ELSE d : d \in found}
  <2>1. found' = {IF d.number = Now.number /\ d.slot = Now.slot /\ d.func = Now.func
                  THEN [d EXCEPT !.bases = work.bases, !.read = TRUE] ELSE d : d \in found}
    BY DEF RestoreCommand
  <2> QED BY <1>7, <2>1
<1>9. ASSUME NEW d \in found
      PROVE  \E c \in found' :
               /\ c = IF d.fn = f THEN [d EXCEPT !.bases = work.bases, !.read = TRUE] ELSE d
               /\ c.fn = d.fn
  <2>1. d = [number |-> d.number, slot |-> d.slot, func |-> d.func, fn |-> d.fn,
             bases |-> d.bases, read |-> d.read]
    BY <1>1 DEF PciTypeOK
  <2>2. PICK c : c = IF d.fn = f THEN [d EXCEPT !.bases = work.bases, !.read = TRUE] ELSE d
    OBVIOUS
  <2>3. c \in found'
    BY <1>8, <2>2
  <2>4. c.fn = d.fn
    BY <2>1, <2>2
  <2> QED BY <2>2, <2>3, <2>4
<1>10. ASSUME NEW c \in found'
       PROVE  \E d \in found :
                /\ c = IF d.fn = f THEN [d EXCEPT !.bases = work.bases, !.read = TRUE] ELSE d
                /\ c.fn = d.fn
                /\ d.fn = f => c.read = TRUE /\ c.bases = work.bases
  <2>1. PICK d \in found :
          c = IF d.fn = f THEN [d EXCEPT !.bases = work.bases, !.read = TRUE] ELSE d
    BY <1>8
  <2>2. d = [number |-> d.number, slot |-> d.slot, func |-> d.func, fn |-> d.fn,
             bases |-> d.bases, read |-> d.read]
    BY <1>1 DEF PciTypeOK
  <2> QED BY <2>1, <2>2
<1>11. \A g : IsFound(g)' <=> IsFound(g)
  <2> SUFFICES ASSUME NEW g PROVE IsFound(g)' <=> IsFound(g)
    OBVIOUS
  <2>1. ASSUME IsFound(g) PROVE IsFound(g)'
    <3>1. PICK d \in found : d.fn = g
      BY <2>1 DEF IsFound
    <3>2. PICK c \in found' : c.fn = d.fn
      BY <1>9
    <3> QED BY <3>1, <3>2 DEF IsFound
  <2>2. ASSUME IsFound(g)' PROVE IsFound(g)
    <3>1. PICK c \in found' : c.fn = g
      BY <2>2 DEF IsFound
    <3>2. PICK d \in found : c.fn = d.fn
      BY <1>10
    <3> QED BY <3>1, <3>2 DEF IsFound
  <2> QED BY <2>1, <2>2
<1>12. \A d, e \in found' : d.fn = e.fn => d = e
  <2>1. \A d, e \in found : d.fn = e.fn => d = e
    BY DEF Reached
  <2>2. SUFFICES ASSUME NEW c \in found', NEW e \in found', c.fn = e.fn PROVE c = e
    OBVIOUS
  <2>3. PICK d \in found :
          /\ c = IF d.fn = f THEN [d EXCEPT !.bases = work.bases, !.read = TRUE] ELSE d
          /\ c.fn = d.fn
    BY <1>10
  <2>4. PICK g \in found :
          /\ e = IF g.fn = f THEN [g EXCEPT !.bases = work.bases, !.read = TRUE] ELSE g
          /\ e.fn = g.fn
    BY <1>10
  <2>5. d = g
    BY <2>1, <2>2, <2>3, <2>4
  <2> QED BY <2>3, <2>4, <2>5
<1>13. ASSUME NEW c \in found' PROVE Complete(c)
  <2>1. PICK d \in found :
          /\ c = IF d.fn = f THEN [d EXCEPT !.bases = work.bases, !.read = TRUE] ELSE d
          /\ c.fn = d.fn
          /\ d.fn = f => c.read = TRUE /\ c.bases = work.bases
    BY <1>10
  <2>2. CASE d.fn = f
    BY <1>6, <2>1, <2>2 DEF Complete
  <2>3. CASE d.fn # f
    <3>1. ~At(Now, d.fn)
      BY <1>3, <2>3 DEF Known, Descriptors
    <3> QED BY <2>1, <2>3, <3>1 DEF Reached
  <2> QED BY <2>2, <2>3
<1>14. CASE machine[f].bridge
  <2>1. PICK t : t = [Now EXCEPT !.step = "bridge"]
    OBVIOUS
  <2>2. /\ t \in FrameType /\ t.behind = Now.behind /\ t.slot = Now.slot /\ t.func = Now.func
        /\ t.step = "bridge"
    BY <1>2, <2>1 DEF FrameType, Steps, Begin
  <2>3. scan' = <<t>> \o Tail(scan)
    BY <1>4, <1>14, <2>1 DEF Goto
  <2>4. \A g : (At(t, g) <=> At(Now, g)) /\ (Ahead(t, g) <=> Ahead(Now, g))
    BY <2>2 DEF At, Ahead
  <2>5. Now.step \notin Quiet /\ t.step \notin Quiet
    BY <1>1, <2>2 DEF Quiet
  <2>6. \A g \in DOMAIN machine :
          Ahead(t, g) => (IsFound(g)' <=> At(t, g) /\ t.step \notin Quiet)
    BY <1>2, <1>11, <2>4, <2>5 DEF Reached
  <2> QED BY <1>1, <1>11, <1>12, <1>13, <2>2, <2>3, <2>4, <2>6, ReachTop
<1>15. CASE ~machine[f].bridge
  <2>1. Now.func = 0 => Now.multi = machine[f].multi
    BY <1>1, <1>2, <1>3 DEF Positioned, Quiet
  <2>2. IsFound(f)
    BY <1>1, <1>2, <1>3, AtAhead DEF Reached, Quiet
  <2> QED BY <1>1, <1>3, <1>4, <1>11, <1>12, <1>13, <1>15, <2>1, <2>2, ReachAdvance
<1> QED BY <1>14, <1>15

(* The scan goes down a bridge, and comes back.                            *)
LEMMA ReachOpen ==
  ASSUME NEW B, Known(B), Reached(B), OpenWindow, NEW b \in Bridges \ B, At(Now, b)
  PROVE  Reached(B \cup {b})'
<1>1. PciTypeOK /\ machine \in Machines /\ scan # <<>> /\ Now.step = "open" /\ pool' = pool
      /\ machine' = machine /\ found' = found
  BY DEF Known, OpenWindow, PciTypeOK
<1>2. Now \in FrameType /\ Now = scan[1] /\ 1 \in 1 .. Len(scan) /\ Len(scan) \in Nat
  BY <1>1, FramesTyped
<1>3. b \in DOMAIN machine /\ b # Root /\ Limit \in Nat /\ Now.secondary = Limit
  BY <1>1, <1>2, MachineFacts, LimitTyped DEF Bridges, Known, Chained, Positioned
<1>4. Here = {b}
  BY <1>1, <1>3, HereIsOne
<1>5. PICK p : p = Frame(b, Limit)
  OBVIOUS
<1>6. PICK t : t = [Now EXCEPT !.step = "close"]
  OBVIOUS
<1>7. /\ p \in FrameType /\ p.behind = b /\ p.slot = 0 /\ p.func = 0 /\ p.step = "function"
  BY <1>3, <1>5, PciAssumption DEF FrameType, Frame, Steps, Quiet
<1>8. /\ t \in FrameType /\ t.behind = Now.behind /\ t.slot = Now.slot /\ t.func = Now.func
      /\ t.step = "close"
  BY <1>2, <1>6 DEF FrameType, Steps
<1>9. scan' = <<p, t>> \o Tail(scan)
  BY <1>3, <1>4, <1>5, <1>6 DEF OpenWindow
<1>10. /\ Len(scan') = Len(scan) + 1 /\ Now' = p /\ scan'[1] = p /\ scan'[2] = t
       /\ \A i \in 2 .. Len(scan) : scan'[i + 1] = scan[i]
  BY <1>1, <1>7, <1>8, <1>9, TopPushed
<1>11. \A f : IsFound(f)' <=> IsFound(f)
  BY <1>1 DEF IsFound
<1>12. \A d \in found' : Complete(d)'
  <2>1. \A d \in found : Complete(d)
    BY <1>1, AllComplete DEF Reading
  <2> QED BY <1>1, <2>1, StaysComplete
(* Nobody behind the bridge has been found, and all of them lie ahead.     *)
<1>13. ASSUME NEW f \in DOMAIN machine, Wire(f) = b PROVE ~IsFound(f)
  BY <1>3, <1>13 DEF IsFound, Known, Descriptors, Parents
<1>14. ASSUME NEW f \in DOMAIN machine PROVE Ahead(p, f) <=> Wire(f) = b
  <2>1. machine[f].slot \in Nat /\ machine[f].func \in Nat
    BY <1>1, MachineFacts
  <2> QED BY <1>7, <2>1 DEF Ahead
<1>15. ASSUME NEW i \in 1 .. Len(scan), NEW f
       PROVE  /\ Ahead(scan'[i + 1], f) <=> Ahead(scan[i], f)
              /\ At(scan'[i + 1], f) <=> At(scan[i], f)
              /\ scan'[i + 1].step \in Quiet <=> scan[i].step \in Quiet
  <2>1. CASE i = 1
    BY <1>1, <1>2, <1>8, <1>10, <2>1 DEF Ahead, At, Quiet
  <2>2. CASE i # 1
    <3>1. scan'[i + 1] = scan[i]
      BY <1>2, <1>10, <2>2
    <3> QED BY <3>1
  <2> QED BY <2>1, <2>2
<1>16. ASSUME NEW f \in DOMAIN machine, NEW j \in 1 .. Len(scan'), Ahead(scan'[j], f)
       PROVE  IsFound(f) <=> At(scan'[j], f) /\ scan'[j].step \notin Quiet
  <2>1. CASE j = 1
    BY <1>7, <1>10, <1>13, <1>14, <1>16, <2>1 DEF Quiet
  <2>2. CASE j # 1
    <3>1. PICK i \in 1 .. Len(scan) : j = i + 1
      <4>1. j - 1 \in 1 .. Len(scan) /\ j = (j - 1) + 1
        BY <1>2, <1>10, <2>2
      <4> QED BY <4>1
    <3>2. Ahead(scan[i], f)
      BY <1>15, <1>16, <3>1
    <3>3. IsFound(f) <=> At(scan[i], f) /\ scan[i].step \notin Quiet
      BY <3>2 DEF Reached
    <3> QED BY <1>15, <3>1, <3>3
  <2> QED BY <2>1, <2>2
<1>17. ASSUME pool > 0, NEW f \in DOMAIN machine, Wire(f) \in Parents(B \cup {b}), ~IsFound(f)
       PROVE  \E j \in 1 .. Len(scan') : Ahead(scan'[j], f)
  <2>1. CASE Wire(f) = b
    <3>1. 1 \in 1 .. Len(scan')
      BY <1>2, <1>10
    <3> QED BY <1>10, <1>14, <2>1, <3>1
  <2>2. CASE Wire(f) # b
    <3>1. Wire(f) \in Parents(B)
      BY <1>17, <2>2 DEF Parents
    <3>2. PICK i \in 1 .. Len(scan) : Ahead(scan[i], f)
      BY <1>17, <3>1 DEF Reached
    <3>3. i + 1 \in 1 .. Len(scan')
      BY <1>2, <1>10
    <3> QED BY <1>15, <3>2, <3>3
  <2> QED BY <2>1, <2>2
<1>18. \A s, f : Ahead(s, f)' = Ahead(s, f) /\ At(s, f)' = At(s, f)
  BY <1>1 DEF Ahead, At, Wire
<1>19. ASSUME NEW f \in DOMAIN machine, NEW j \in 1 .. Len(scan')
       PROVE  Ahead(scan[j], f)' = Ahead(scan'[j], f) /\ At(scan[j], f)' = At(scan'[j], f)
  BY <1>1 DEF Ahead, At, Wire
<1>20. \A f \in DOMAIN machine', j \in 1 .. Len(scan') :
         Ahead(scan[j], f)' => (IsFound(f)' <=> At(scan[j], f)' /\ scan'[j].step \notin Quiet)
  BY <1>1, <1>11, <1>16, <1>19
<1>21. ASSUME pool' > 0, NEW f \in DOMAIN machine', Wire(f)' \in Parents(B \cup {b}),
              ~IsFound(f)'
       PROVE  \E j \in 1 .. Len(scan') : Ahead(scan[j], f)'
  <2>1. Wire(f)' = Wire(f)
    BY <1>1 DEF Wire
  <2> QED BY <1>1, <1>11, <1>17, <1>19, <1>21, <2>1
<1>22. \A d, e \in found' : d.fn = e.fn => d = e
  BY <1>1 DEF Reached
<1> QED BY <1>12, <1>20, <1>21, <1>22 DEF Reached, Parents

LEMMA ReachEndBus ==
  ASSUME NEW B, Known(B), Reached(B), EndBus
  PROVE  Reached(B)'
<1>1. PciTypeOK /\ machine \in Machines /\ scan # <<>> /\ Now.step = "end" /\ pool' = pool
      /\ machine' = machine /\ found' = found /\ scan' = Tail(scan)
  BY DEF Known, EndBus, PciTypeOK
<1>2. Now = scan[1] /\ 1 \in 1 .. Len(scan) /\ Len(scan) \in Nat
  BY <1>1, FramesTyped
<1>3. /\ Len(scan') = Len(scan) - 1
      /\ \A i \in 1 .. (Len(scan) - 1) : scan'[i] = scan[i + 1]
  BY <1>1, TopPopped
<1>4. \A f : IsFound(f)' <=> IsFound(f)
  BY <1>1 DEF IsFound
<1>5. \A d \in found' : Complete(d)'
  <2>1. \A d \in found : Complete(d)
    BY <1>1, AllComplete DEF Reading
  <2> QED BY <1>1, <2>1, StaysComplete
<1>6. ASSUME NEW f \in DOMAIN machine PROVE ~Ahead(scan[1], f)
  <2>1. machine[f].slot \in 0 .. (SlotCount - 1) /\ SlotCount \in Nat
    BY <1>1, MachineFacts, PciAssumption
  <2>2. scan[1].slot = SlotCount
    BY <1>1, <1>2 DEF Known, Chained, Positioned
  <2> QED BY <2>1, <2>2 DEF Ahead
<1>7. ASSUME NEW f \in DOMAIN machine, NEW i \in 1 .. Len(scan')
      PROVE  /\ i + 1 \in 1 .. Len(scan) /\ scan'[i] = scan[i + 1]
             /\ Ahead(scan[i], f)' = Ahead(scan[i + 1], f) /\ At(scan[i], f)' = At(scan[i + 1], f)
  <2>1. i \in 1 .. (Len(scan) - 1) /\ i + 1 \in 1 .. Len(scan)
    BY <1>2, <1>3
  <2>2. scan'[i] = scan[i + 1]
    BY <1>3, <2>1
  <2> QED BY <1>1, <2>1, <2>2 DEF Ahead, At, Wire
<1>8. \A f \in DOMAIN machine', i \in 1 .. Len(scan') :
        Ahead(scan[i], f)' => (IsFound(f)' <=> At(scan[i], f)' /\ scan'[i].step \notin Quiet)
  BY <1>1, <1>4, <1>7 DEF Reached
<1>9. ASSUME pool' > 0, NEW f \in DOMAIN machine', Wire(f)' \in Parents(B), ~IsFound(f)'
      PROVE  \E i \in 1 .. Len(scan') : Ahead(scan[i], f)'
  <2>1. Wire(f)' = Wire(f) /\ f \in DOMAIN machine
    BY <1>1 DEF Wire
  <2>2. PICK i \in 1 .. Len(scan) : Ahead(scan[i], f)
    BY <1>1, <1>4, <1>9, <2>1 DEF Reached
  <2>3. i # 1
    BY <1>6, <2>1, <2>2
  <2>4. i - 1 \in 1 .. Len(scan') /\ (i - 1) + 1 = i
    BY <1>2, <1>3, <2>3
  <2> QED BY <1>7, <2>1, <2>2, <2>4
<1>10. \A d, e \in found' : d.fn = e.fn => d = e
  BY <1>1 DEF Reached
<1> QED BY <1>5, <1>8, <1>9, <1>10 DEF Reached, Parents

(* At the start everything lies ahead; every step keeps count.             *)
LEMMA FoundInit == Init => FoundInv
<1> SUFFICES ASSUME Init PROVE FoundInv
  OBVIOUS
<1>1. PICK B \in SUBSET Bridges : Known(B)
  BY KnownInit DEF ScanInv
<1>2. machine \in Machines /\ found = {} /\ scan # <<>> /\ Len(scan) = 1
      /\ scan[1] = [Frame(Root, 0) EXCEPT !.step = "boot"]
  BY DEF Init
<1>3. /\ scan[1].behind = Root /\ scan[1].slot = 0 /\ scan[1].func = 0 /\ scan[1].step = "boot"
  BY <1>2 DEF Frame
<1>4. scan[1].step \in Quiet
  BY <1>3 DEF Quiet
<1>5. \A f : ~IsFound(f)
  BY <1>2 DEF IsFound
<1>6. 1 \in 1 .. Len(scan) /\ \A i \in 1 .. Len(scan) : i = 1
  BY <1>2
<1>7. B = {}
  <2>1. Positioned(B, scan[1])
    BY <1>1, <1>6 DEF Known, Chained
  <2> QED BY <1>3, <2>1 DEF Positioned
<1>8. ASSUME NEW f \in DOMAIN machine, Wire(f) \in Parents(B) PROVE Ahead(scan[1], f)
  <2>1. machine[f].slot \in Nat /\ machine[f].func \in Nat
    BY <1>2, MachineFacts
  <2> QED BY <1>3, <1>7, <1>8, <2>1 DEF Ahead, Parents
<1>9. Reached(B)
  BY <1>2, <1>4, <1>5, <1>6, <1>8 DEF Reached
<1> QED BY <1>1, <1>9 DEF FoundInv

LEMMA FoundStep == FoundInv /\ ProbeInv /\ ReadInv /\ [Next]_vars => FoundInv'
<1> SUFFICES ASSUME FoundInv, ProbeInv, ReadInv, [Next]_vars PROVE FoundInv'
  OBVIOUS
<1>1. PICK B \in SUBSET Bridges : Known(B) /\ Reached(B)
  BY DEF FoundInv
<1>2. CASE OpenWindow
  <2>1. PICK b \in Bridges \ B : At(Now, b) /\ Known(B \cup {b})'
    BY <1>1, <1>2, OpenKeeps
  <2>2. Reached(B \cup {b})'
    BY <1>1, <1>2, <2>1, ReachOpen
  <2>3. B \cup {b} \in (SUBSET Bridges)'
    BY <1>1, <1>2, <2>1 DEF OpenWindow, Bridges
  <2> QED BY <2>1, <2>2, <2>3 DEF FoundInv
<1>3. CASE ~OpenWindow
  <2>1. Known(B)' /\ machine' = machine
    BY <1>1, <1>3, KnownOn
  <2>2. B \in (SUBSET Bridges)'
    BY <2>1 DEF Bridges
  <2>3. Reached(B)'
    <3>1. CASE UNCHANGED vars
      <4>1. machine' = machine /\ found' = found /\ scan' = scan /\ pool' = pool
        BY <3>1 DEF vars
      <4>2. \A d : Complete(d) => Complete(d)'
        BY <4>1, StaysComplete
      <4>3. /\ \A f : IsFound(f)' <=> IsFound(f)
            /\ \A t, f : (At(t, f)' <=> At(t, f)) /\ (Ahead(t, f)' <=> Ahead(t, f))
            /\ \A f : Wire(f)' = Wire(f)
            /\ Now' = Now /\ Parents(B)' = Parents(B)
        BY <4>1 DEF IsFound, At, Ahead, Wire, Now, Parents
      <4> QED BY <1>1, <4>1, <4>2, <4>3 DEF Reached
    <3>2. CASE Next
      BY <1>1, <1>3, <3>2, ReachEnumerate, ReachNothing, ReachFunction, ReachReading,
         ReachRestore, ReachNoBus, ReachPrimary, ReachSecondary, ReachEndBus, ReachClose DEF Next
    <3> QED BY <3>1, <3>2
  <2> QED BY <2>1, <2>2, <2>3 DEF FoundInv
<1> QED BY <1>2, <1>3

(* When the scan is over, all bridges have a number: of those that had not *)
(* one would be on a wire that has.                                        *)
LEMMA FoundAll == FoundInv => EveryFunctionFoundOnce
<1> SUFFICES ASSUME FoundInv, Done, pool > 0, NEW f \in DOMAIN machine
             PROVE  \E d \in found :
                      /\ {e \in found : e.fn = f} = {d}
                      /\ d.read
                      /\ {d.bases[j] : j \in DOMAIN d.bases} = HasBases(f)
  BY DEF EveryFunctionFoundOnce
<1>1. PICK B \in SUBSET Bridges : Known(B) /\ Reached(B)
  BY DEF FoundInv
<1>2. scan = <<>> /\ Len(scan) = 0 /\ machine \in Machines
  BY <1>1 DEF Done, Known, PciTypeOK
<1>3. \A u \in Bridges \ B : Wire(u) \notin Parents(B)
  BY <1>1, <1>2 DEF Known, Covered
<1>4. Bridges \subseteq B
  <2>1. \A u \in DOMAIN machine : Wire(u) \in Bridges \cup {Root}
    BY <1>2, BusAssumption DEF Bridges, Wire
  <2>2. \A u \in Bridges \ B : Wire(u) \in Bridges \ B
    BY <1>3, <2>1 DEF Parents, Bridges, BridgesOf
  <2>3. Bridges \ B = {}
    BY <1>2, <2>2, BusAssumption DEF Bridges, Wire
  <2> QED BY <2>3
<1>5. Wire(f) \in Parents(B)
  BY <1>2, <1>4, MachineFacts DEF Bridges, Wire, Parents
<1>6. PICK d \in found : d.fn = f
  BY <1>1, <1>2, <1>5 DEF Reached, IsFound
<1>7. Complete(d)
  BY <1>1, <1>2 DEF Reached
<1>8. {e \in found : e.fn = f} = {d}
  BY <1>1, <1>6 DEF Reached
<1> QED BY <1>6, <1>7, <1>8 DEF Complete

(* If the pool does not run out, the scan finds every function exactly     *)
(* once, through any tree of bridges, and reads its base address registers *)
(* as they are: kinds, addresses and sizes, 64-bit ones too                *)
(* (ENUM.C:35-190, RESOURCE.C:66-170).                                     *)
THEOREM EveryFunctionIsFound == Spec => []EveryFunctionFoundOnce
<1>1. Init => ScanInv /\ ProbeInv /\ ReadInv /\ FoundInv
  BY KnownInit, ProbeInit, ReadInit, FoundInit
<1>2. ScanInv /\ ProbeInv /\ ReadInv /\ FoundInv /\ [Next]_vars
        => (ScanInv /\ ProbeInv /\ ReadInv /\ FoundInv)'
  BY KnownStep, ProbeStep, ReadStep, FoundStep
<1>3. ScanInv /\ ProbeInv /\ ReadInv /\ FoundInv => EveryFunctionFoundOnce
  BY FoundAll
<1> QED BY <1>1, <1>2, <1>3, PTL DEF Spec

-----------------------------------------------------------------------------
(* The regions of Mcfg.                                                    *)

(* No two regions of one segment share a bus; an earlier one was tested    *)
(* against when the later one came.                                        *)
Disjoint ==
  \A i, j \in DOMAIN regions :
    i < j /\ regions[i].segment = regions[j].segment =>
      regions[i].end < regions[j].start \/ regions[j].end < regions[i].start

(* A root table's entries have the types the firmware's tables have.       *)
LEMMA FoundTyped ==
  ASSUME NEW a \in Firmware, NEW t \in McfgFind(a)
  PROVE  t.entries \in Seq(McfgEntry)
<1>1. a.xsdt \in RootTable /\ a.rsdt \in RootTable
  BY McfgAssumption
<1>2. RootOf(a) \in RootTable
  BY <1>1 DEF RootOf
<1>3. RootOf(a).tables \in Seq(SdtTable)
  BY <1>2 DEF RootTable
<1>4. PICK i \in Usable(a) : t = RootOf(a).tables[i]
  BY DEF McfgFind
<1>5. i \in DOMAIN RootOf(a).tables
  BY <1>4 DEF Usable
<1>6. t \in SdtTable
  BY <1>3, <1>4, <1>5
<1> QED BY <1>6 DEF SdtTable

(* Initially nothing is taken.                                             *)
LEMMA McfgTypeInit == McfgInit => McfgTypeOK /\ Disjoint
BY McfgAssumption DEF McfgInit, McfgTypeOK, Disjoint

(* Every step keeps the types, the table full included (MCFG.C:296-299).   *)
LEMMA McfgTypeStep == McfgTypeOK /\ [PciMcfgInit]_mcfgVars => McfgTypeOK'
<1> SUFFICES ASSUME McfgTypeOK, [PciMcfgInit]_mcfgVars PROVE McfgTypeOK'
  OBVIOUS
<1> USE DEF McfgTypeOK
<1>1. CASE FindTable
  BY <1>1, FoundTyped DEF FindTable
<1>2. CASE TakeEntry
  <2> DEFINE e == Head(entries)
             r == [segment |-> e.segment, start |-> e.start, end |-> e.end]
  <2>1. entries # <<>>
    BY <1>2 DEF TakeEntry
  <2>2. e \in McfgEntry /\ Tail(entries) \in Seq(McfgEntry)
    BY <2>1, HeadTailProperties
  <2>3. r \in Region
    BY <2>2 DEF McfgEntry, Region
  <2>4. CASE ~Acceptable(e)
    BY <1>2, <2>2, <2>4 DEF TakeEntry
  <2>5. CASE Acceptable(e) /\ Len(regions) = PCI_ECAM_MAX_REGIONS
    BY <1>2, <2>2, <2>5 DEF TakeEntry
  <2>6. CASE Acceptable(e) /\ Len(regions) # PCI_ECAM_MAX_REGIONS
    <3>1. /\ regions' = Append(regions, r) /\ entries' = Tail(entries)
          /\ UNCHANGED <<mcfg, acpi>>
      BY <1>2, <2>6 DEF TakeEntry
    <3>2. regions' \in Seq(Region) /\ Len(regions') = Len(regions) + 1
      BY <2>3, <3>1, AppendProperties
    <3>3. Len(regions) \in Nat /\ PCI_ECAM_MAX_REGIONS \in Nat
      BY McfgAssumption, LenProperties
    <3>4. Len(regions) + 1 <= PCI_ECAM_MAX_REGIONS
      <4> HIDE DEF McfgTypeOK
      <4>1. Len(regions) <= PCI_ECAM_MAX_REGIONS
        BY DEF McfgTypeOK
      <4> QED BY <2>6, <3>3, <4>1
    <3> QED BY <2>2, <3>1, <3>2, <3>4
  <2> QED BY <2>4, <2>5, <2>6
<1>3. CASE EndOfTable
  BY <1>3 DEF EndOfTable
<1>4. CASE UNCHANGED mcfgVars
  BY <1>4 DEF mcfgVars
<1> QED BY <1>1, <1>2, <1>3, <1>4 DEF PciMcfgInit

(* A region is taken only if it passes the test against all before it.     *)
LEMMA DisjointStep == McfgTypeOK /\ Disjoint /\ [PciMcfgInit]_mcfgVars => Disjoint'
<1> SUFFICES ASSUME McfgTypeOK, Disjoint, [PciMcfgInit]_mcfgVars PROVE Disjoint'
  OBVIOUS
<1>1. CASE UNCHANGED regions
  BY <1>1 DEF Disjoint
<1>2. CASE TakeEntry /\ ~UNCHANGED regions
  <2> DEFINE e == Head(entries)
             r == [segment |-> e.segment, start |-> e.start, end |-> e.end]
  <2>1. Acceptable(e) /\ regions' = Append(regions, r)
    BY <1>2 DEF TakeEntry
  <2>2. e \in McfgEntry
    BY <1>2 DEF TakeEntry, McfgTypeOK
  <2>3. regions \in Seq(Region)
    BY DEF McfgTypeOK
  <2>4. /\ DOMAIN regions' = 1 .. (Len(regions) + 1)
        /\ DOMAIN regions = 1 .. Len(regions)
        /\ regions'[Len(regions) + 1] = r
        /\ \A i \in DOMAIN regions : regions'[i] = regions[i]
    BY <2>1, <2>3
  <2>5. \A i \in DOMAIN regions :
          regions[i].segment = r.segment =>
            regions[i].end < r.start \/ r.end < regions[i].start
    <3> SUFFICES ASSUME NEW i \in DOMAIN regions, regions[i].segment = r.segment
                 PROVE  regions[i].end < r.start \/ r.end < regions[i].start
      OBVIOUS
    <3>1. ~(e.start <= regions[i].end /\ e.end >= regions[i].start)
      BY <2>1 DEF Acceptable, RegionOverlaps
    <3>2. regions[i] \in Region
      BY <2>3, ElementOfSeq, LenProperties
    <3>3. /\ regions[i].start \in Nat /\ regions[i].end \in Nat
          /\ e.start \in Nat /\ e.end \in Nat
      BY <2>2, <3>2, McfgAssumption DEF McfgEntry, Region
    <3> QED BY <3>1, <3>3
  <2> SUFFICES ASSUME NEW i \in DOMAIN regions', NEW j \in DOMAIN regions',
                      i < j, regions'[i].segment = regions'[j].segment
               PROVE  regions'[i].end < regions'[j].start \/ regions'[j].end < regions'[i].start
    BY DEF Disjoint
  <2>6. i \in DOMAIN regions /\ Len(regions) \in Nat
    BY <2>3, <2>4
  <2>7. CASE j \in DOMAIN regions
    BY <2>4, <2>6, <2>7 DEF Disjoint
  <2>8. CASE j = Len(regions) + 1
    BY <2>4, <2>5, <2>6, <2>8
  <2> QED BY <2>4, <2>6, <2>7, <2>8
<1> QED BY <1>1, <1>2 DEF PciMcfgInit, FindTable, EndOfTable, mcfgVars

(* Disjoint regions answer for a bus once.                                 *)
LEMMA DisjointAnswersOnce == McfgTypeOK /\ Disjoint => OneRegionPerBus
<1> SUFFICES ASSUME McfgTypeOK, Disjoint,
                    NEW s \in Segments, NEW b \in Buses,
                    NEW i \in PciEcamHits(s, b), NEW j \in PciEcamHits(s, b), i # j
             PROVE  FALSE
  BY DEF OneRegionPerBus
<1>1. /\ i \in DOMAIN regions /\ j \in DOMAIN regions
      /\ regions[i].segment = regions[j].segment
      /\ b \in regions[i].start .. regions[i].end
      /\ b \in regions[j].start .. regions[j].end
  BY DEF PciEcamHits
<1>2. /\ regions[i] \in Region /\ regions[j] \in Region
      /\ i \in Nat /\ j \in Nat
  <2>1. regions \in Seq(Region) /\ DOMAIN regions = 1 .. Len(regions)
    BY LenProperties DEF McfgTypeOK
  <2> QED BY <1>1, <2>1, ElementOfSeq
<1>3. /\ regions[i].start \in Nat /\ regions[i].end \in Nat
      /\ regions[j].start \in Nat /\ regions[j].end \in Nat /\ b \in Nat
  BY <1>2, McfgAssumption DEF Region
<1>4. i < j \/ j < i
  BY <1>2
<1>5. \/ regions[i].end < regions[j].start \/ regions[j].end < regions[i].start
  BY <1>1, <1>4 DEF Disjoint
<1> QED BY <1>1, <1>3, <1>5

(* The scan of the buses leaves the regions alone.                         *)
LEMMA PciInitStep == [PciInit]_<<vars, mcfgVars>> => [PciMcfgInit]_mcfgVars
BY DEF PciInit, Regions, Enumeration, mcfgVars

(* For every set of ACPI tables, the region table keeps its types and      *)
(* never outgrows PCI_ECAM_MAX_REGIONS (MCFG.C:71-74, 296-299).            *)
THEOREM RegionsTyped == PciInitSpec => []McfgTypeOK
<1>1. PciInitInit => McfgTypeOK
  BY McfgTypeInit DEF PciInitInit
<1>2. McfgTypeOK /\ [PciInit]_<<vars, mcfgVars>> => McfgTypeOK'
  BY McfgTypeStep, PciInitStep
<1> QED BY <1>1, <1>2, PTL DEF PciInitSpec

(* For every set of ACPI tables, any number of overlapping entries in any  *)
(* order included, no bus has two regions (MCFG.C:235-249, 320-334).       *)
THEOREM BusHasOneRegion == PciInitSpec => []OneRegionPerBus
<1> DEFINE Inv == McfgTypeOK /\ Disjoint
<1>1. PciInitInit => Inv
  BY McfgTypeInit DEF PciInitInit
<1>2. Inv /\ [PciInit]_<<vars, mcfgVars>> => Inv'
  BY McfgTypeStep, DisjointStep, PciInitStep
<1>3. Inv => OneRegionPerBus
  BY DisjointAnswersOnce
<1> QED BY <1>1, <1>2, <1>3, PTL DEF PciInitSpec

(* PciInit runs the scan of Pci after the regions of Mcfg, so that what is *)
(* proved of the one holds in the other (INIT.C:39-62).                    *)
THEOREM PciInitScans == PciInitSpec => Spec
<1>1. PciInitInit => Init
  BY DEF PciInitInit
<1>2. [PciInit]_<<vars, mcfgVars>> => [Next]_vars
  BY DEF PciInit, Regions, Enumeration, vars
<1> QED BY <1>1, <1>2, PTL DEF PciInitSpec, Spec
=============================================================================

----------------------------- MODULE KbdProofs -----------------------------
(***************************************************************************)
(* The ring between KbdIrqHandler and KbdRead, for every ring size, every  *)
(* keyboard and any amount of typing: whatever the interleaving, it is a   *)
(* first-in first-out queue that loses only incoming events, and counts    *)
(* those.  The invariant says what a KbdRead that has been interrupted may *)
(* still rely on.                                                          *)
(***************************************************************************)
EXTENDS Kbd, Integers, SequenceTheorems, FiniteSetTheorems, FunctionTheorems,
        WellFoundedInduction, TLAPS

(* The slots between the indices hold events, never stale contents.        *)
WaitingAreEvents == Contents \in Seq(SentEvents)

(* Between its accesses the reader may count on this: the ring it found    *)
(* nonempty stays so, the slot at its tail is not overwritten, and neither *)
(* is the one it has just released while its copy is outstanding.          *)
ReaderIsSafe ==
  /\ reader \in {"nonempty", "copied"} => head # tail
  /\ reader = "copied" => key = ring[tail]
  /\ reader = "advanced" => ring[Back(tail)] \in SentEvents

IInv ==
  /\ TypeOK
  /\ WaitingAreEvents
  /\ ReaderIsSafe
  /\ EventsAccounted

Ev == SentEvents \cup {NoKey}

-----------------------------------------------------------------------------
(***************************************************************************)
(* The arithmetic of the key ring, for every KBD_RING_SIZE: what a push    *)
(* and a read do to the sequence of waiting events.  The indices wrap by   *)
(* remainder, so every fact about them is a case on whether they wrapped.  *)
(***************************************************************************)

(* A remainder over less than two rounds is a case distinction.            *)
LEMMA Remainder ==
  ASSUME NEW n \in Nat \ {0}, NEW a \in 0 .. (2 * n - 1)
  PROVE  a % n = IF a < n THEN a ELSE a - n
<1> DEFINE q == a \div n
           r == a % n
<1>1. /\ q \in Int /\ r \in 0 .. (n - 1)
      /\ a = n * q + r
  OBVIOUS
<1>2. ASSUME q < 0 PROVE FALSE
  <2>1. n * q <= n * (-1)
    BY <1>1, <1>2
  <2>. QED BY <1>1, <2>1
<1>3. ASSUME q > 1 PROVE FALSE
  <2>1. n * q >= n * 2
    BY <1>1, <1>3
  <2>. QED BY <1>1, <2>1
<1>4. q = 0 \/ q = 1
  BY <1>1, <1>2, <1>3
<1>. QED
  BY <1>1, <1>4

LEMMA Wraps ==
  ASSUME NEW a \in 0 .. (2 * Size - 1)
  PROVE  a % Size = IF a < Size THEN a ELSE a - Size
<1>1. Size \in Nat \ {0}
  BY SizeAssumption
<1>. QED
  BY <1>1, Remainder

LEMMA StepValue ==
  ASSUME NEW i \in Slots
  PROVE  Step(i) = (IF i + 1 < Size THEN i + 1 ELSE 0) /\ Step(i) \in Slots
<1>1. i + 1 \in 0 .. (2 * Size - 1)
  BY SizeAssumption DEF Slots
<1>2. Step(i) = IF i + 1 < Size THEN i + 1 ELSE i + 1 - Size
  BY <1>1, Wraps, SizeAssumption DEF Step, Slots
<1>. QED
  BY <1>2, SizeAssumption DEF Slots

LEMMA BackValue ==
  ASSUME NEW i \in Slots
  PROVE  /\ Back(i) = (IF i = 0 THEN Size - 1 ELSE i - 1)
         /\ Back(i) \in Slots
         /\ Back(Step(i)) = i
         /\ Step(Back(i)) = i
<1>1. ASSUME NEW j \in Slots PROVE Back(j) = IF j = 0 THEN Size - 1 ELSE j - 1
  <2>1. j + Size - 1 \in 0 .. (2 * Size - 1)
    BY SizeAssumption DEF Slots
  <2>2. Back(j) = IF j + Size - 1 < Size THEN j + Size - 1 ELSE j + Size - 1 - Size
    BY <2>1, Wraps, SizeAssumption DEF Back, Slots
  <2>. QED
    BY <2>2, SizeAssumption DEF Slots
<1>. QED
  BY <1>1, StepValue, SizeAssumption DEF Slots

(* The slot of the i-th waiting event, when the oldest is in slot t.       *)
LEMMA SlotValue ==
  ASSUME NEW t \in Slots, NEW i \in 1 .. Size
  PROVE  /\ (t + i - 1) % Size = IF t + i - 1 < Size THEN t + i - 1 ELSE t + i - 1 - Size
         /\ (t + i - 1) % Size \in Slots
<1>1. t + i - 1 \in 0 .. (2 * Size - 1)
  BY SizeAssumption DEF Slots
<1>2. (t + i - 1) % Size = IF t + i - 1 < Size THEN t + i - 1 ELSE t + i - 1 - Size
  BY <1>1, Wraps, SizeAssumption DEF Slots
<1>. QED
  BY <1>2, SizeAssumption DEF Slots

LEMMA Distance ==
  ASSUME NEW h \in Slots, NEW t \in Slots
  PROVE  (h + Size - t) % Size = IF h >= t THEN h - t ELSE h + Size - t
<1>1. h + Size - t \in 0 .. (2 * Size - 1)
  BY SizeAssumption DEF Slots
<1>2. (h + Size - t) % Size = IF h + Size - t < Size THEN h + Size - t ELSE h + Size - t - Size
  BY <1>1, Wraps, SizeAssumption DEF Slots
<1>. QED
  BY <1>2, SizeAssumption DEF Slots

LEMMA CountValue ==
  ASSUME head \in Slots, tail \in Slots
  PROVE  /\ Count = IF head >= tail THEN head - tail ELSE head + Size - tail
         /\ Count \in 0 .. (Size - 1)
         /\ Count = 0 <=> head = tail
<1>1. Count = IF head >= tail THEN head - tail ELSE head + Size - tail
  BY Distance DEF Count
<1>. QED
  BY <1>1, SizeAssumption DEF Slots

-----------------------------------------------------------------------------
(* A full ring holds Size - 1 events; in a ring that is not, the pushed    *)
(* event comes last and the others stay where they are.                    *)
LEMMA FullRing ==
  ASSUME head \in Slots, tail \in Slots, Step(head) = tail
  PROVE  Count = Size - 1
BY CountValue, StepValue, SizeAssumption DEF Slots

LEMMA Pushed ==
  ASSUME NEW E, NEW e \in E, ring \in [Slots -> E], head \in Slots, tail \in Slots,
         Step(head) # tail, ring' = [ring EXCEPT ![head] = e], head' = Step(head), tail' = tail
  PROVE  /\ Count < Size - 1
         /\ Count' = Count + 1
         /\ Contents' = Append(Contents, e)
<1>1. Count' = IF head' >= tail' THEN head' - tail' ELSE head' + Size - tail'
  <2>1. head' \in Slots /\ tail' \in Slots
    BY StepValue
  <2>. QED
    BY <2>1, Distance DEF Count
<1>0. Step(head) = IF head + 1 < Size THEN head + 1 ELSE 0
  BY StepValue
<1>2. Count < Size - 1 /\ Count' = Count + 1 /\ Count \in Nat
  BY <1>0, <1>1, CountValue, SizeAssumption DEF Slots
<1>3. ASSUME NEW i \in 1 .. Count'
      PROVE  ring'[(tail' + i - 1) % Size] = IF i <= Count THEN ring[(tail + i - 1) % Size] ELSE e
  <2>1. i \in 1 .. Size
    BY <1>2, <1>3, SizeAssumption
  <2>2. (tail + i - 1) % Size = head <=> i = Count + 1
    BY <1>2, <1>3, <2>1, SlotValue, CountValue, SizeAssumption DEF Slots
  <2>3. (tail + i - 1) % Size \in Slots
    BY <2>1, SlotValue
  <2>. QED
    BY <1>2, <1>3, <2>2, <2>3
<1>4. Contents' = [i \in 1 .. (Count + 1) |->
                     IF i <= Count THEN ring[(tail + i - 1) % Size] ELSE e]
  BY <1>2, <1>3 DEF Contents
<1>5. Contents = [i \in 1 .. Count |-> ring[(tail + i - 1) % Size]]
  BY DEF Contents
<1>6. Contents \in Seq(E) /\ Len(Contents) = Count
  <2>1. ASSUME NEW i \in 1 .. Count PROVE ring[(tail + i - 1) % Size] \in E
    <3>1. i \in 1 .. Size
      BY <1>2, SizeAssumption
    <3>. QED
      BY <3>1, SlotValue
  <2>. QED
    BY <1>2, <1>5, <2>1
<1>. QED
  BY <1>2, <1>4, <1>5, <1>6

(* A read takes the oldest event and leaves the rest in order; the event   *)
(* taken is now in the slot behind the tail.                               *)
LEMMA Taken ==
  ASSUME NEW E, ring \in [Slots -> E], head \in Slots, tail \in Slots, head # tail,
         ring' = ring, head' = head, tail' = Step(tail)
  PROVE  /\ Count' = Count - 1
         /\ Contents # << >>
         /\ Head(Contents) = ring[tail]
         /\ Contents' = Tail(Contents)
         /\ Back(tail') = tail
<1>1. Count' = IF head' >= tail' THEN head' - tail' ELSE head' + Size - tail'
  <2>1. head' \in Slots /\ tail' \in Slots
    BY StepValue
  <2>. QED
    BY <2>1, Distance DEF Count
<1>0. Step(tail) = IF tail + 1 < Size THEN tail + 1 ELSE 0
  BY StepValue
<1>2. Count' = Count - 1 /\ Count \in 1 .. (Size - 1)
  BY <1>0, <1>1, CountValue, SizeAssumption DEF Slots
<1>3. ASSUME NEW i \in 1 .. Count'
      PROVE  (tail' + i - 1) % Size = (tail + (i + 1) - 1) % Size
  <2>1. i \in 1 .. Size /\ i + 1 \in 1 .. Size
    BY <1>2, <1>3, SizeAssumption
  <2>2. (tail' + i - 1) % Size = IF tail' + i - 1 < Size THEN tail' + i - 1 ELSE tail' + i - 1 - Size
    BY <2>1, StepValue, SlotValue
  <2>3. (tail + (i + 1) - 1) % Size
          = IF tail + (i + 1) - 1 < Size THEN tail + (i + 1) - 1 ELSE tail + (i + 1) - 1 - Size
    BY <2>1, SlotValue
  <2>. QED
    BY <1>0, <1>2, <2>1, <2>2, <2>3, SizeAssumption DEF Slots
<1>4. Contents = [i \in 1 .. Count |-> ring[(tail + i - 1) % Size]]
  BY DEF Contents
<1>5. Contents \in Seq(E) /\ Len(Contents) = Count
  <2>1. ASSUME NEW i \in 1 .. Count PROVE ring[(tail + i - 1) % Size] \in E
    <3>1. i \in 1 .. Size
      BY <1>2, SizeAssumption
    <3>. QED
      BY <3>1, SlotValue
  <2>. QED
    BY <1>2, <1>4, <2>1
<1>6. Contents' = [i \in 1 .. (Count - 1) |-> ring[(tail + (i + 1) - 1) % Size]]
  BY <1>2, <1>3 DEF Contents
<1>7. Tail(Contents) = [i \in 1 .. (Count - 1) |-> Contents[i + 1]]
  <2>0. Contents # << >>
    BY <1>2, <1>5
  <2>1. Tail(Contents) \in Seq(E) /\ Len(Tail(Contents)) = Count - 1
    BY <1>5, <2>0
  <2>2. \A i \in 1 .. (Count - 1) : Tail(Contents)[i] = Contents[i + 1]
    BY <1>2, <1>5, <2>0
  <2>3. Tail(Contents) \in [1 .. (Count - 1) -> E]
    BY <2>1, LenProperties
  <2>. QED
    BY <2>2, <2>3
<1>8. \A i \in 1 .. (Count - 1) : Contents[i + 1] = ring[(tail + (i + 1) - 1) % Size]
  BY <1>2, <1>4
<1>9. Head(Contents) = ring[tail]
  <2>1. (tail + 1 - 1) % Size = tail
    BY SlotValue, SizeAssumption DEF Slots
  <2>. QED
    BY <1>2, <1>4, <1>5, <2>1
<1>. QED
  BY <1>2, <1>5, <1>6, <1>7, <1>8, <1>9, BackValue

-----------------------------------------------------------------------------
(* The parser: a byte leaves a parse state and at most one event.          *)
LEMMA KindIsOneOf ==
  ASSUME NEW s, NEW b
  PROVE  Kind(s, b) \in {"swallow", "error", "pause", "prefix", "arm", "sysrq", "key"}
BY DEF Kind

LEMMA AtMostOneEvent ==
  ASSUME NEW s \in ParseState, NEW b \in SentBytes
  PROVE  \/ Emits(s, b) = << >>
         \/ Emits(s, b)[1] \in SentEvents /\ Emits(s, b) = <<Emits(s, b)[1]>>
<1>1. Emits(s, b) = << >> \/ \E e : Emits(s, b) = <<e>>
  BY KindIsOneOf DEF Emits
<1>2. ASSUME Emits(s, b) # << >>
      PROVE  Emits(s, b)[1] \in SentEvents
  <2>1. <<s, b>> \in {y \in ParseState \X SentBytes : Emits(y[1], y[2]) # << >>}
    BY <1>2
  <2>. QED
    BY <2>1 DEF SentEvents
<1>. QED
  BY <1>1, <1>2

LEMMA StateAfterByte ==
  ASSUME NEW s \in ParseState, NEW b
  PROVE  After(s, b) \in ParseState
<1>1. s.pause \in 0 .. (PauseLength - 1) /\ s.extended \in BOOLEAN /\ s.sysrq \in BOOLEAN
  BY DEF ParseState
<1>2. Kind(s, b) = "swallow" => s.pause # 0
  BY DEF Kind
<1>3. After(s, b).pause \in 0 .. (PauseLength - 1)
  BY <1>1, <1>2 DEF After, PauseLength
<1>. QED
  BY <1>1, <1>3 DEF After, ParseState

-----------------------------------------------------------------------------
LEMMA InitIInv == Init => IInv
<1> SUFFICES ASSUME Init PROVE IInv
  OBVIOUS
<1> USE SizeAssumption DEF Init, RingInit, ReadInit
<1>1. 0 \in Slots
  BY DEF Slots
<1>2. Count = 0
  BY <1>1, CountValue
<1>3. TypeOK
  <2>1. ring \in [Slots -> SentEvents \cup {NoKey}]
    OBVIOUS
  <2>2. parse \in ParseState
    BY DEF Idle, ParseState, PauseLength
  <2>3. calls \in 0 .. MaxCalls
    BY KeyboardAssumption
  <2>. QED
    BY <1>1, <2>1, <2>2, <2>3 DEF TypeOK
<1>4. WaitingAreEvents
  BY <1>2 DEF WaitingAreEvents, Contents
<1>5. ReaderIsSafe /\ EventsAccounted
  BY <1>2 DEF ReaderIsSafe, EventsAccounted
<1>. QED
  BY <1>3, <1>4, <1>5 DEF IInv

(* What an interrupt does to the ring while the reader stands anywhere.    *)
LEMMA PushPreserves ==
  ASSUME IInv, NEW e \in SentEvents, KbdRingPush(e), UNCHANGED readVars,
         offered' = Append(offered, e)
  PROVE  /\ ring' \in [Slots -> Ev] /\ head' \in Slots /\ tail' \in Slots /\ dropped' \in Nat
         /\ WaitingAreEvents' /\ ReaderIsSafe' /\ EventsAccounted'
         /\ reader = "advanced" => ring'[Back(tail')] = ring[Back(tail)]
<1> USE DEF readVars, Ev
<1>1. /\ ring \in [Slots -> Ev] /\ head \in Slots /\ tail \in Slots /\ dropped \in Nat
      /\ delivered \in Seq(SentEvents) /\ offered \in Seq(SentEvents)
      /\ WaitingAreEvents /\ ReaderIsSafe /\ EventsAccounted
  BY DEF IInv, TypeOK
<1>2. Count \in Nat
  BY <1>1, CountValue, SizeAssumption
<1>3. Len(offered') = Len(offered) + 1
  BY <1>1
<1>4. CASE Step(head) = tail
  <2>1. dropped' = dropped + 1 /\ UNCHANGED <<ring, head, tail>>
    BY <1>4 DEF KbdRingPush
  <2>2. Count' = Count /\ Contents' = Contents
    BY <2>1 DEF Count, Contents
  <2>3. EventsAccounted'
    BY <1>1, <1>2, <1>3, <2>1, <2>2 DEF EventsAccounted
  <2>. QED
    BY <1>1, <2>1, <2>2, <2>3 DEF WaitingAreEvents, ReaderIsSafe
<1>5. CASE Step(head) # tail
  <2>1. ring' = [ring EXCEPT ![head] = e] /\ head' = Step(head) /\ UNCHANGED <<tail, dropped>>
    BY <1>5 DEF KbdRingPush
  <2>2. Count' = Count + 1 /\ Contents' = Append(Contents, e)
    BY <1>1, <1>5, <2>1, Pushed
  <2>3. head' \in Slots /\ Back(tail) \in Slots /\ Back(tail) # head
    BY <1>1, <1>5, <2>1, StepValue, BackValue
  <2>4. EventsAccounted'
    BY <1>1, <1>2, <1>3, <2>1, <2>2 DEF EventsAccounted
  <2>5. ring' \in [Slots -> Ev] /\ ring'[Back(tail)] = ring[Back(tail)]
    BY <1>1, <2>1, <2>3
  <2>6. head # tail => ring'[tail] = ring[tail]
    BY <1>1, <2>1
  <2>7. Back(tail') = Back(tail)
    BY <2>1
  <2>8. ReaderIsSafe'
    BY <1>1, <1>5, <2>1, <2>5, <2>6, <2>7 DEF ReaderIsSafe
  <2>9. WaitingAreEvents'
    BY <1>1, <2>2 DEF WaitingAreEvents
  <2>. QED
    BY <1>1, <2>1, <2>3, <2>4, <2>5, <2>7, <2>8, <2>9
<1>. QED
  BY <1>4, <1>5

(* Moving the tail, before or after the copy.                              *)
LEMMA AdvanceTakes ==
  ASSUME IInv, reader \in {"nonempty", "copied"}, tail' = Step(tail), UNCHANGED <<ring, head>>
  PROVE  /\ tail' \in Slots
         /\ Contents # << >> /\ Contents' = Tail(Contents) /\ Head(Contents) = ring[tail]
         /\ Count' = Count - 1 /\ Count \in Nat
         /\ WaitingAreEvents'
         /\ ring[tail] \in SentEvents /\ ring'[Back(tail')] = ring[tail]
<1>1. /\ ring \in [Slots -> Ev] /\ head \in Slots /\ tail \in Slots /\ head # tail
      /\ Contents \in Seq(SentEvents)
  BY DEF IInv, TypeOK, ReaderIsSafe, WaitingAreEvents, Ev
<1>2. /\ Count' = Count - 1 /\ Contents # << >> /\ Head(Contents) = ring[tail]
      /\ Contents' = Tail(Contents) /\ Back(tail') = tail
  BY <1>1, Taken
<1>3. Count \in Nat
  BY <1>1, CountValue, SizeAssumption
<1>4. ring[tail] \in SentEvents /\ WaitingAreEvents'
  BY <1>1, <1>2 DEF WaitingAreEvents
<1>. QED
  BY <1>1, <1>2, <1>3, <1>4, StepValue

(* A step that leaves the ring and the reader alone.                       *)
LEMMA RingAlone ==
  ASSUME IInv, UNCHANGED ringVars, UNCHANGED readVars, Len(offered') = Len(offered)
  PROVE  WaitingAreEvents' /\ ReaderIsSafe' /\ EventsAccounted'
<1>1. WaitingAreEvents /\ ReaderIsSafe /\ EventsAccounted
  BY DEF IInv
<1>2. Count' = Count /\ Contents' = Contents
  BY DEF Count, Contents, ringVars
<1>. QED
  BY <1>1, <1>2 DEF WaitingAreEvents, ReaderIsSafe, EventsAccounted, Back, ringVars, readVars

-----------------------------------------------------------------------------
(* Every step preserves the invariant.                                     *)
LEMMA SentStrokes ==
  ASSUME NEW s \in Strokes
  PROVE  /\ s.bytes \in Seq(SentBytes)
         /\ \A waiting \in BOOLEAN : s.events[waiting] \in Seq(Key) /\ s.arms[waiting] \in BOOLEAN
<1>1. s \in StrokeType
  BY KeyboardAssumption
<1>2. s.bytes \in Seq(Bytes) /\ s.events \in [BOOLEAN -> Seq(Key)] /\ s.arms \in [BOOLEAN -> BOOLEAN]
  BY <1>1 DEF StrokeType
<1>3. \A i \in DOMAIN s.bytes : s.bytes[i] \in SentBytes
  BY DEF SentBytes
<1>4. /\ DOMAIN s.bytes = 1 .. Len(s.bytes) /\ Len(s.bytes) \in Nat
      /\ s.bytes = [i \in 1 .. Len(s.bytes) |-> s.bytes[i]]
  BY <1>2
<1>5. s.bytes \in Seq(SentBytes)
  BY <1>3, <1>4
<1>. QED
  BY <1>2, <1>5

(* What a press, a repeat or a release puts on the wire.                   *)
Sends(bytes, events, open) ==
  /\ bytes \in Seq(SentBytes) /\ events \in Seq(Key) /\ open \in BOOLEAN
  /\ wire' = wire \o bytes /\ typed' = typed \o events /\ armed' = open
  /\ UNCHANGED <<ringVars, readVars, buffer, garbled, inIrq, parse, calls, offered>>
  /\ down' \subseteq Keyboard
  /\ Breaks(bytes) <= Releases(events)
  /\ KeysTranslate => Parsing(Between(armed), bytes)[Len(bytes)]
                        = [state |-> Between(open), events |-> events]

LEMMA KeySends ==
  ASSUME IInv, NEW k \in Keyboard, Press(k) \/ Release(k)
  PROVE  \E bytes, events, open : Sends(bytes, events, open)
<1>1. k.press \in Strokes /\ k.repeat \in Strokes /\ k.release \in Strokes
  BY DEF Strokes, StrokesOf
<1>2. PICK s \in Strokes : Stroke(s) /\ down' \subseteq Keyboard
  <2>1. down \subseteq Keyboard
    BY DEF IInv, TypeOK
  <2>2. CASE Press(k)
    <3>1. CASE k \in down
      BY <1>1, <2>1, <2>2, <3>1 DEF Press
    <3>2. CASE k \notin down
      BY <1>1, <2>1, <2>2, <3>2 DEF Press
    <3>. QED
      BY <3>1, <3>2
  <2>3. CASE Release(k)
    BY <1>1, <2>1, <2>3 DEF Release
  <2>. QED
    BY <2>2, <2>3
<1>3. armed \in BOOLEAN
  BY DEF IInv, TypeOK
<1>4. /\ s.bytes \in Seq(SentBytes) /\ s.events[armed] \in Seq(Key) /\ s.arms[armed] \in BOOLEAN
  BY <1>3, SentStrokes
<1>5. Breaks(s.bytes) <= Releases(s.events[armed])
  BY <1>3, EnterAssumption
<1>6. KeysTranslate => Parsing(Between(armed), s.bytes)[Len(s.bytes)]
                         = [state |-> Between(s.arms[armed]), events |-> s.events[armed]]
  BY <1>3 DEF KeysTranslate, Means
<1>7. /\ wire' = wire \o s.bytes /\ typed' = typed \o s.events[armed] /\ armed' = s.arms[armed]
      /\ UNCHANGED <<ringVars, readVars, buffer, garbled, inIrq, parse, calls, offered>>
  BY <1>2 DEF Stroke
<1>8. Sends(s.bytes, s.events[armed], s.arms[armed])
  BY <1>2, <1>4, <1>5, <1>6, <1>7 DEF Sends
<1>. QED
  BY <1>8

LEMMA StrokePreserves ==
  ASSUME IInv, NEW bytes, NEW events, NEW open, Sends(bytes, events, open)
  PROVE  IInv'
<1>1. TypeOK'
  <2>1. wire \in Seq(SentBytes) /\ wire' = wire \o bytes /\ bytes \in Seq(SentBytes)
    BY DEF IInv, TypeOK, Sends
  <2>2. wire' \in Seq(SentBytes)
    BY <2>1
  <2>. QED
    BY <2>2 DEF IInv, TypeOK, Sends, ringVars, readVars
<1>2. WaitingAreEvents' /\ ReaderIsSafe' /\ EventsAccounted'
  BY RingAlone DEF Sends
<1>. QED
  BY <1>1, <1>2 DEF IInv

LEMMA DeliverPreserves == IInv /\ Deliver => IInv'
<1> SUFFICES ASSUME IInv, Deliver PROVE IInv'
  OBVIOUS
<1>1. TypeOK'
  <2>1. wire \in Seq(SentBytes) /\ wire # << >> /\ wire' = Tail(wire)
    BY DEF IInv, TypeOK, Deliver
  <2>2. wire' \in Seq(SentBytes) /\ Head(wire) \in SentBytes
    BY <2>1
  <2>3. \E g \in BOOLEAN : buffer' = <<[byte |-> Head(wire), garbled |-> g]>>
    BY DEF Deliver
  <2>4. \E m \in [byte : SentBytes, garbled : BOOLEAN] : buffer' = <<m>>
    BY <2>2, <2>3
  <2>. QED
    BY <2>2, <2>4 DEF IInv, TypeOK, Deliver, ringVars, readVars
<1>2. WaitingAreEvents' /\ ReaderIsSafe' /\ EventsAccounted'
  BY RingAlone DEF Deliver
<1>. QED
  BY <1>1, <1>2 DEF IInv

(* The handler entering, dropping a garbled byte or leaving.               *)
LEMMA HandlerAsidePreserves == IInv /\ (IrqEnter \/ IrqGarbage \/ IrqLeave) => IInv'
<1> SUFFICES ASSUME IInv, IrqEnter \/ IrqGarbage \/ IrqLeave PROVE IInv'
  OBVIOUS
<1>1. TypeOK'
  BY DEF IInv, TypeOK, IrqEnter, IrqGarbage, IrqLeave, ringVars, readVars
<1>2. UNCHANGED ringVars /\ UNCHANGED readVars /\ UNCHANGED offered
  BY DEF IrqEnter, IrqGarbage, IrqLeave
<1>3. WaitingAreEvents' /\ ReaderIsSafe' /\ EventsAccounted'
  BY <1>2, RingAlone
<1>. QED
  BY <1>1, <1>3 DEF IInv

(* What IrqByte does to the ring: it pushes one event or none.             *)
LEMMA ByteHandled ==
  ASSUME IInv, IrqByte
  PROVE  /\ parse' \in ParseState
         /\ \/ UNCHANGED ringVars /\ offered' = offered
            \/ \E e \in SentEvents : KbdRingPush(e) /\ offered' = Append(offered, e)
<1> DEFINE b == buffer[1].byte
<1>1. b \in SentBytes /\ parse \in ParseState /\ offered \in Seq(SentEvents)
  <2>1. \E m \in [byte : SentBytes, garbled : BOOLEAN] : buffer = <<m>>
    BY DEF IInv, TypeOK, IrqByte
  <2>. QED
    BY <2>1 DEF IInv, TypeOK
<1>2. /\ offered' = offered \o Emits(parse, b)
      /\ IF Emits(parse, b) = << >> THEN UNCHANGED ringVars ELSE KbdRingPush(Emits(parse, b)[1])
      /\ parse' = After(parse, b)
  BY DEF IrqByte
<1>3. parse' \in ParseState
  BY <1>1, <1>2, StateAfterByte
<1>4. CASE Emits(parse, b) = << >>
  BY <1>1, <1>2, <1>3, <1>4
<1>5. CASE Emits(parse, b) # << >>
  <2> DEFINE e == Emits(parse, b)[1]
  <2>1. e \in SentEvents /\ Emits(parse, b) = <<e>>
    BY <1>1, <1>5, AtMostOneEvent
  <2>2. offered' = offered \o <<e>> /\ KbdRingPush(e)
    BY <1>2, <1>5, <2>1
  <2>3. offered \o <<e>> = Append(offered, e)
    BY <1>1, <2>1
  <2>. QED
    BY <1>3, <2>1, <2>2, <2>3
<1>. QED
  BY <1>4, <1>5

LEMMA IrqBytePreserves == IInv /\ IrqByte => IInv'
<1> SUFFICES ASSUME IInv, IrqByte PROVE IInv'
  OBVIOUS
<1>1. parse' \in ParseState /\ UNCHANGED readVars /\ buffer' = << >>
  BY ByteHandled DEF IrqByte
<1>2. /\ delivered' \in Seq(SentEvents) /\ wire' \in Seq(SentBytes) /\ inIrq' \in BOOLEAN
      /\ down' \subseteq Keyboard /\ calls' \in 0 .. MaxCalls /\ armed' \in BOOLEAN
      /\ reader' \in {"away", "polling", "nonempty", "copied", "advanced", "returning"}
      /\ key' \in SentEvents \cup {NoKey}
  BY DEF IInv, TypeOK, IrqByte, readVars
<1>3. CASE UNCHANGED ringVars /\ offered' = offered
  <2>1. WaitingAreEvents' /\ ReaderIsSafe' /\ EventsAccounted'
    BY <1>1, <1>3, RingAlone
  <2>2. TypeOK'
    BY <1>1, <1>2, <1>3 DEF IInv, TypeOK, ringVars
  <2>. QED
    BY <2>1, <2>2 DEF IInv
<1>4. CASE \E e \in SentEvents : KbdRingPush(e) /\ offered' = Append(offered, e)
  <2>1. PICK e \in SentEvents : KbdRingPush(e) /\ offered' = Append(offered, e)
    BY <1>4
  <2>2. /\ ring' \in [Slots -> Ev] /\ head' \in Slots /\ tail' \in Slots /\ dropped' \in Nat
        /\ WaitingAreEvents' /\ ReaderIsSafe' /\ EventsAccounted'
    BY <1>1, <2>1, PushPreserves
  <2>3. offered' \in Seq(SentEvents)
    BY <2>1 DEF IInv, TypeOK
  <2>4. TypeOK'
    BY <1>1, <1>2, <2>2, <2>3 DEF TypeOK, Ev
  <2>. QED
    BY <2>2, <2>4 DEF IInv
<1>. QED
  BY <1>3, <1>4, ByteHandled

(* Kbr between its accesses to the ring.                                   *)
LEMMA KbrAsidePreserves == IInv /\ (KbrCall \/ KbrDecide \/ (KbdReadTest /\ UNCHANGED kbdVars)) => IInv'
<1> SUFFICES ASSUME IInv, KbrCall \/ KbrDecide \/ (KbdReadTest /\ UNCHANGED kbdVars) PROVE IInv'
  OBVIOUS
<1>1. UNCHANGED <<ringVars, key, delivered, offered>>
  BY DEF KbrCall, KbrDecide, KbdReadTest, kbdVars
<1>2. /\ reader # "advanced" /\ reader' \in {"away", "polling", "nonempty"}
      /\ reader' = "nonempty" => head # tail
  BY DEF KbrCall, KbrDecide, KbdReadTest
<1>3. calls' \in 0 .. MaxCalls
  BY KeyboardAssumption DEF KbrCall, KbrDecide, KbdReadTest, kbdVars, IInv, TypeOK
<1>4. /\ wire' = wire /\ buffer' = buffer /\ inIrq' = inIrq /\ parse' = parse /\ down' = down
      /\ armed' = armed
  BY DEF KbrCall, KbrDecide, KbdReadTest, kbdVars
<1>5. TypeOK'
  BY <1>1, <1>2, <1>3, <1>4 DEF IInv, TypeOK, ringVars
<1>6. Count' = Count /\ Contents' = Contents
  BY <1>1 DEF Count, Contents, ringVars
<1>7. WaitingAreEvents' /\ EventsAccounted'
  BY <1>1, <1>2, <1>6 DEF IInv, WaitingAreEvents, EventsAccounted, ringVars
<1>8. ReaderIsSafe'
  BY <1>1, <1>2 DEF ReaderIsSafe, ringVars
<1>. QED
  BY <1>5, <1>7, <1>8 DEF IInv

LEMMA CopyPreserves == IInv /\ KbdReadCopy /\ UNCHANGED kbdVars => IInv'
<1> SUFFICES ASSUME IInv, KbdReadCopy, UNCHANGED kbdVars PROVE IInv'
  OBVIOUS
<1>1. UNCHANGED ringVars /\ Count' = Count /\ Contents' = Contents
  BY DEF KbdReadCopy, Count, Contents, ringVars
<1>2. /\ ring \in [Slots -> Ev] /\ head \in Slots /\ tail \in Slots /\ dropped \in Nat
      /\ delivered \in Seq(SentEvents) /\ offered' = offered /\ Count \in Nat
  BY CountValue, SizeAssumption DEF IInv, TypeOK, Ev, kbdVars
<1>3. CASE reader = "nonempty"
  <2>1. key' = ring[tail] /\ reader' = "copied" /\ delivered' = delivered
    BY <1>3 DEF KbdReadCopy
  <2>2. TypeOK'
    BY <1>1, <1>2, <2>1 DEF IInv, TypeOK, Ev, kbdVars, ringVars
  <2>3. WaitingAreEvents' /\ EventsAccounted'
    BY <1>1, <1>2, <1>3, <2>1 DEF IInv, WaitingAreEvents, EventsAccounted, ringVars
  <2>4. ReaderIsSafe'
    BY <1>1, <1>3, <2>1 DEF IInv, ReaderIsSafe, ringVars
  <2>. QED
    BY <2>2, <2>3, <2>4 DEF IInv
<1>4. CASE reader = "advanced"
  <2>1. /\ key' = ring[Back(tail)] /\ key' \in SentEvents /\ reader' = "returning"
        /\ delivered' = Append(delivered, key')
    BY <1>4 DEF KbdReadCopy, IInv, ReaderIsSafe
  <2>2. delivered' \in Seq(SentEvents) /\ Len(delivered') = Len(delivered) + 1
    BY <1>2, <2>1
  <2>3. TypeOK'
    BY <1>1, <1>2, <2>1, <2>2 DEF IInv, TypeOK, kbdVars, ringVars
  <2>4. WaitingAreEvents' /\ ReaderIsSafe'
    BY <1>1, <2>1 DEF IInv, WaitingAreEvents, ReaderIsSafe
  <2>5. EventsAccounted'
    BY <1>1, <1>2, <1>4, <2>1, <2>2 DEF IInv, EventsAccounted, ringVars
  <2>. QED
    BY <2>3, <2>4, <2>5 DEF IInv
<1>. QED
  BY <1>3, <1>4 DEF KbdReadCopy

LEMMA AdvancePreserves == IInv /\ KbdReadAdvance /\ UNCHANGED kbdVars => IInv'
<1> SUFFICES ASSUME IInv, KbdReadAdvance, UNCHANGED kbdVars PROVE IInv'
  OBVIOUS
<1>1. /\ reader \in {"nonempty", "copied"} /\ tail' = Step(tail) /\ UNCHANGED <<ring, head>>
      /\ UNCHANGED <<dropped, key>>
  BY DEF KbdReadAdvance
<1>2. /\ tail' \in Slots /\ WaitingAreEvents' /\ Count' = Count - 1 /\ Count \in Nat
      /\ ring[tail] \in SentEvents /\ ring'[Back(tail')] = ring[tail]
  BY <1>1, AdvanceTakes
<1>3. dropped \in Nat /\ delivered \in Seq(SentEvents) /\ offered' = offered
  BY DEF IInv, TypeOK, kbdVars
<1>4. CASE reader = "copied"
  <2>1. reader' = "returning" /\ delivered' = Append(delivered, key) /\ key \in SentEvents
    BY <1>2, <1>4 DEF KbdReadAdvance, IInv, ReaderIsSafe
  <2>2. delivered' \in Seq(SentEvents) /\ Len(delivered') = Len(delivered) + 1
    BY <1>3, <2>1
  <2>3. TypeOK'
    BY <1>1, <1>2, <2>1, <2>2 DEF IInv, TypeOK, kbdVars
  <2>4. ReaderIsSafe'
    BY <2>1 DEF ReaderIsSafe
  <2>5. EventsAccounted'
    BY <1>1, <1>2, <1>3, <1>4, <2>1, <2>2 DEF IInv, EventsAccounted
  <2>. QED
    BY <1>2, <2>3, <2>4, <2>5 DEF IInv
<1>5. CASE reader = "nonempty"
  <2>1. reader' = "advanced" /\ delivered' = delivered
    BY <1>5 DEF KbdReadAdvance
  <2>2. TypeOK'
    BY <1>1, <1>2, <2>1 DEF IInv, TypeOK, kbdVars
  <2>3. ReaderIsSafe'
    BY <1>2, <2>1 DEF ReaderIsSafe
  <2>4. EventsAccounted'
    BY <1>1, <1>2, <1>3, <1>5, <2>1 DEF IInv, EventsAccounted
  <2>. QED
    BY <1>2, <2>2, <2>3, <2>4 DEF IInv
<1>. QED
  BY <1>1, <1>4, <1>5

LEMMA StutterPreserves == IInv /\ UNCHANGED vars => IInv'
<1> SUFFICES ASSUME IInv, UNCHANGED vars PROVE IInv'
  OBVIOUS
<1>1. TypeOK'
  BY DEF IInv, TypeOK, vars, ringVars, readVars, kbdVars
<1>2. WaitingAreEvents' /\ ReaderIsSafe' /\ EventsAccounted'
  BY RingAlone DEF vars, kbdVars
<1>. QED
  BY <1>1, <1>2 DEF IInv

LEMMA NextPreservesIInv == IInv /\ [Next]_vars => IInv'
<1> SUFFICES ASSUME IInv, [Next]_vars PROVE IInv'
  OBVIOUS
<1>1. ASSUME NEW k \in Keyboard, Press(k) PROVE IInv'
  BY <1>1, KeySends, StrokePreserves
<1>2. ASSUME NEW k \in Keyboard, Release(k) PROVE IInv'
  BY <1>2, KeySends, StrokePreserves
<1>3. CASE Deliver
  BY <1>3, DeliverPreserves
<1>4. CASE Handler
  BY <1>4, HandlerAsidePreserves, IrqBytePreserves DEF Handler
<1>5. CASE KbrCall
  BY <1>5, KbrAsidePreserves
<1>6. CASE KbrRead
  BY <1>6, KbrAsidePreserves, CopyPreserves, AdvancePreserves DEF KbrRead
<1>7. CASE KbrDecide
  BY <1>7, KbrAsidePreserves
<1>8. CASE UNCHANGED vars
  BY <1>8, StutterPreserves
<1>. QED
  BY <1>1, <1>2, <1>3, <1>4, <1>5, <1>6, <1>7, <1>8 DEF Next, Kbr

-----------------------------------------------------------------------------
(* The driver's state is well typed: what KbdRead returns is always an     *)
(* event some key sent, never the contents of an unwritten slot            *)
(* (KBD.C:37-97).                                                          *)
THEOREM TypeCorrect == Spec => []TypeOK
<1>1. IInv => TypeOK
  BY DEF IInv
<1>. QED
  BY InitIInv, NextPreservesIInv, <1>1, PTL DEF Spec

(* No interleaving of the handler with KbdRead loses an event silently or  *)
(* returns one twice (KBD.C:64-97).                                        *)
THEOREM EveryEventAccounted == Spec => []EventsAccounted
<1>1. IInv => EventsAccounted
  BY DEF IInv
<1>. QED
  BY InitIInv, NextPreservesIInv, <1>1, PTL DEF Spec

-----------------------------------------------------------------------------
(* The ring implements the queue: what the queue has received runs ahead   *)
(* of delivered by the event whose copy is still outstanding.              *)
Received == IF reader = "advanced" THEN Append(delivered, ring[Back(tail)]) ELSE delivered
queueVars == <<Contents, Received, dropped>>

LEMMA StepImplementsQueue == IInv /\ [Next]_vars => [Queue!Next]_queueVars
<1> SUFFICES ASSUME IInv, [Next]_vars PROVE Queue!Next \/ UNCHANGED queueVars
  BY DEF queueVars
<1>1. /\ ring \in [Slots -> Ev] /\ head \in Slots /\ tail \in Slots /\ dropped \in Nat
      /\ Contents \in Seq(SentEvents)
      /\ Count \in Nat /\ Len(Contents) = Count
  <2>1. ring \in [Slots -> Ev] /\ head \in Slots /\ tail \in Slots /\ dropped \in Nat
        /\ Contents \in Seq(SentEvents)
    BY DEF IInv, TypeOK, Ev, WaitingAreEvents
  <2>2. Count \in Nat
    BY <2>1, CountValue, SizeAssumption
  <2>3. DOMAIN Contents = 1 .. Count
    BY DEF Contents
  <2>. QED
    BY <2>1, <2>2, <2>3
<1>2. ASSUME UNCHANGED ringVars, UNCHANGED readVars
      PROVE  UNCHANGED queueVars
  BY <1>2 DEF queueVars, Received, Contents, Count, ringVars, readVars
<1>3. ASSUME IrqByte PROVE Queue!Next \/ UNCHANGED queueVars
  <2>1. UNCHANGED readVars
    BY <1>3 DEF IrqByte
  <2>2. CASE UNCHANGED ringVars
    BY <1>2, <2>1, <2>2
  <2>3. ASSUME NEW e \in SentEvents, KbdRingPush(e), offered' = Append(offered, e)
        PROVE  Queue!Next
    <3>1. Received' = Received
      <4>1. reader = "advanced" => ring'[Back(tail')] = ring[Back(tail)]
        BY <2>1, <2>3, PushPreserves
      <4>. QED
        BY <2>1, <4>1 DEF Received, readVars
    <3>2. CASE Step(head) = tail
      <4>1. dropped' = dropped + 1 /\ UNCHANGED <<ring, head, tail>>
        BY <2>3, <3>2 DEF KbdRingPush
      <4>2. Contents' = Contents /\ Len(Contents) = Size - 1
        BY <1>1, <3>2, <4>1, FullRing DEF Contents, Count
      <4>3. Queue!Lose
        BY <3>1, <4>1, <4>2 DEF Queue!Lose, Received
      <4>. QED
        BY <4>3 DEF Queue!Next
    <3>3. CASE Step(head) # tail
      <4>1. /\ ring' = [ring EXCEPT ![head] = e] /\ head' = Step(head)
            /\ tail' = tail /\ dropped' = dropped
        BY <2>3, <3>3 DEF KbdRingPush
      <4>2. Count < Size - 1 /\ Contents' = Append(Contents, e)
        BY <1>1, <3>3, <4>1, Pushed DEF Ev
      <4>3. Queue!Offer(e)
        BY <1>1, <3>1, <4>1, <4>2 DEF Queue!Offer, Received
      <4>. QED
        BY <4>3 DEF Queue!Next
    <3>. QED
      BY <3>2, <3>3
  <2>. QED
    BY <1>3, <2>2, <2>3, ByteHandled
<1>4. ASSUME KbdReadCopy PROVE UNCHANGED queueVars
  <2>1. UNCHANGED ringVars
    BY <1>4 DEF KbdReadCopy
  <2>2. Contents' = Contents /\ dropped' = dropped
    BY <2>1 DEF Contents, Count, ringVars
  <2>3. Received' = Received
    BY <1>4, <2>1 DEF KbdReadCopy, Received
  <2>. QED
    BY <2>2, <2>3 DEF queueVars
<1>5. ASSUME KbdReadAdvance PROVE Queue!Next
  <2>1. /\ reader \in {"nonempty", "copied"} /\ tail' = Step(tail) /\ UNCHANGED <<ring, head>>
        /\ dropped' = dropped
    BY <1>5 DEF KbdReadAdvance
  <2>2. /\ Contents # << >> /\ Contents' = Tail(Contents) /\ Head(Contents) = ring[tail]
        /\ ring'[Back(tail')] = ring[tail]
    BY <2>1, AdvanceTakes
  <2>3. Received' = Append(Received, ring[tail])
    BY <1>5, <2>2 DEF KbdReadAdvance, IInv, ReaderIsSafe, Received
  <2>4. Queue!Take
    BY <2>1, <2>2, <2>3 DEF Queue!Take, Received
  <2>. QED
    BY <2>4 DEF Queue!Next
<1>6. CASE \E k \in Keyboard : Press(k) \/ Release(k)
  BY <1>2, <1>6 DEF Press, Release, Stroke
<1>7. CASE Deliver
  BY <1>2, <1>7 DEF Deliver
<1>8. CASE Handler
  BY <1>2, <1>3, <1>8 DEF Handler, IrqEnter, IrqGarbage, IrqLeave
<1>9. CASE KbrRead
  <2>1. KbdReadTest => UNCHANGED queueVars
    BY DEF KbdReadTest, queueVars, Received, Contents, Count, ringVars
  <2>. QED
    BY <1>4, <1>5, <1>9, <2>1 DEF KbrRead
<1>10. CASE KbrCall \/ KbrDecide
  BY <1>10 DEF KbrCall, KbrDecide, queueVars, Received, Contents, Count, ringVars
<1>11. CASE UNCHANGED vars
  BY <1>2, <1>11 DEF vars
<1>. QED
  BY <1>6, <1>7, <1>8, <1>9, <1>10, <1>11 DEF Next, Kbr

(* Whatever the reader is interrupted at, and in whichever order the       *)
(* compiler emits its copy and its store, the ring is a bounded first-in   *)
(* first-out queue that loses only incoming events (KBD.C:37-97).          *)
THEOREM RingImplementsQueue == Spec => ImplementsQueue
<1>1. Init => Queue!Init
  <2> SUFFICES ASSUME Init PROVE Queue!Init
    OBVIOUS
  <2>1. Count = 0
    BY CountValue, SizeAssumption DEF Init, RingInit, Slots
  <2>2. Contents = << >>
    BY <2>1 DEF Contents
  <2>. QED
    BY <2>2 DEF Init, RingInit, ReadInit, Queue!Init
<1>2. IInv /\ [Next]_vars => [Queue!Next]_queueVars
  BY StepImplementsQueue
<1>. QED
  BY InitIInv, NextPreservesIInv, <1>1, <1>2, PTL
     DEF Spec, ImplementsQueue, Queue!Spec, queueVars, Received

-----------------------------------------------------------------------------
(* Towards BufferDrains and RingDrains: what is left to do before          *)
(* everything is quiet.  A byte on the wire outweighs the round of the     *)
(* handler that takes it, and the event it may push; an event outweighs    *)
(* the round of Kbr that reads it.                                         *)
BufferWork ==
  IF buffer = << >> THEN IF inIrq THEN 1 ELSE 0
                    ELSE IF inIrq THEN 6 ELSE 7
ReaderWork ==
  CASE reader = "advanced"  -> 4
    [] reader = "returning" -> 3
    [] reader = "polling"   -> 2
    [] reader = "nonempty"  -> 1
    [] OTHER                -> 0
KbdWork == 8 * Len(wire) + BufferWork + 4 * Count + ReaderWork

LEMMA WorkTyped ==
  ASSUME TypeOK
  PROVE  /\ Len(wire) \in Nat /\ Count \in Nat
         /\ BufferWork \in 0 .. 7 /\ ReaderWork \in 0 .. 4
         /\ KbdWork \in Nat
<1>1. /\ Len(wire) \in Nat /\ Count \in Nat
      /\ BufferWork \in 0 .. 7 /\ ReaderWork \in 0 .. 4
  BY CountValue, SizeAssumption DEF TypeOK, BufferWork, ReaderWork
<1> DEFINE l == Len(wire)
           c == Count
           b == BufferWork
           r == ReaderWork
<1> HIDE DEF l, c, b, r
<1>2. l \in Nat /\ c \in Nat /\ b \in 0 .. 7 /\ r \in 0 .. 4
  BY <1>1 DEF l, c, b, r
<1>3. 8 * l + b + 4 * c + r \in Nat
  BY <1>2
<1>. QED
  BY <1>1, <1>3 DEF l, c, b, r, KbdWork

(* The ways in which a step leaves less to do.                             *)
LEMMA LessWork ==
  ASSUME TypeOK, TypeOK',
         \/ /\ Len(wire') = Len(wire) - 1 /\ BufferWork' <= BufferWork + 7
            /\ Count' = Count /\ ReaderWork' = ReaderWork
         \/ /\ Len(wire') = Len(wire) /\ BufferWork' < BufferWork
            /\ Count' = Count /\ ReaderWork' = ReaderWork
         \/ /\ Len(wire') = Len(wire) /\ BufferWork' = BufferWork - 5
            /\ Count' = Count + 1 /\ ReaderWork' = ReaderWork
         \/ /\ Len(wire') = Len(wire) /\ BufferWork' = BufferWork
            /\ Count' = Count /\ ReaderWork' < ReaderWork
         \/ /\ Len(wire') = Len(wire) /\ BufferWork' = BufferWork
            /\ Count' = Count - 1 /\ ReaderWork' <= ReaderWork + 3
  PROVE  KbdWork' < KbdWork
<1> DEFINE l == Len(wire)
           c == Count
           b == BufferWork
           r == ReaderWork
           m == Len(wire')
           d == Count'
           a == BufferWork'
           q == ReaderWork'
<1>1. l \in Nat /\ c \in Nat /\ b \in 0 .. 7 /\ r \in 0 .. 4
  BY WorkTyped
<1>2. a \in 0 .. 7 /\ q \in 0 .. 4
  BY DEF TypeOK, BufferWork, ReaderWork
<1>3. KbdWork = 8 * l + b + 4 * c + r /\ KbdWork' = 8 * m + a + 4 * d + q
  BY DEF KbdWork
<1>4. \/ m = l - 1 /\ a <= b + 7 /\ d = c /\ q = r
      \/ m = l /\ a < b /\ d = c /\ q = r
      \/ m = l /\ a = b - 5 /\ d = c + 1 /\ q = r
      \/ m = l /\ a = b /\ d = c /\ q < r
      \/ m = l /\ a = b /\ d = c - 1 /\ q <= r + 3
  OBVIOUS
<1> HIDE DEF l, c, b, r, m, d, a, q
<1>. QED
  BY <1>1, <1>2, <1>3, <1>4

(* Who moves the work along: the controller, the handler and Kbr.          *)
LEMMA DeliverShrinks ==
  ASSUME TypeOK, TypeOK', Deliver
  PROVE  KbdWork' < KbdWork
<1>1. Len(wire') = Len(wire) - 1
  <2>1. wire \in Seq(SentBytes) /\ wire # << >> /\ wire' = Tail(wire)
    BY DEF TypeOK, Deliver
  <2>. QED BY <2>1
<1>2. /\ buffer = << >> /\ buffer' # << >> /\ inIrq' = inIrq
      /\ UNCHANGED <<ringVars, readVars>>
  BY DEF Deliver
<1>3. Count' = Count /\ ReaderWork' = ReaderWork
  BY <1>2 DEF Count, ReaderWork, ringVars, readVars
<1>4. BufferWork' <= BufferWork + 7
  BY <1>2 DEF BufferWork, TypeOK
<1>. QED
  BY <1>1, <1>3, <1>4, LessWork

LEMMA HandlerShrinks ==
  ASSUME IInv, TypeOK', Handler
  PROVE  KbdWork' < KbdWork
<1>0. TypeOK
  BY DEF IInv
<1>1. CASE IrqEnter \/ IrqGarbage \/ IrqLeave
  <2>1. UNCHANGED <<ringVars, readVars, wire>>
    BY <1>1 DEF IrqEnter, IrqGarbage, IrqLeave
  <2>2. Count' = Count /\ ReaderWork' = ReaderWork /\ Len(wire') = Len(wire)
    BY <2>1 DEF Count, ReaderWork, ringVars, readVars
  <2>3. BufferWork' < BufferWork
    BY <1>0, <1>1 DEF IrqEnter, IrqGarbage, IrqLeave, BufferWork
  <2>. QED
    BY <1>0, <2>2, <2>3, LessWork
<1>2. CASE IrqByte
  <2>1. /\ inIrq /\ inIrq' = inIrq /\ buffer # << >> /\ buffer' = << >>
        /\ UNCHANGED <<readVars, wire>>
    BY <1>2 DEF IrqByte
  <2>2. BufferWork = 6 /\ BufferWork' = 1
    BY <2>1 DEF BufferWork
  <2>3. ReaderWork' = ReaderWork /\ Len(wire') = Len(wire)
    BY <2>1 DEF ReaderWork, readVars
  <2>4. Count' = Count \/ Count' = Count + 1
    <3>1. CASE UNCHANGED ringVars
      BY <3>1 DEF ringVars, Count
    <3>2. ASSUME NEW e \in SentEvents, KbdRingPush(e) PROVE Count' = Count \/ Count' = Count + 1
      <4>1. CASE Step(head) = tail
        BY <3>2, <4>1 DEF KbdRingPush, Count
      <4>2. CASE Step(head) # tail
        <5>1. /\ ring \in [Slots -> Ev] /\ head \in Slots /\ tail \in Slots /\ e \in Ev
          BY <1>0, <3>2 DEF TypeOK, Ev
        <5>2. ring' = [ring EXCEPT ![head] = e] /\ head' = Step(head) /\ tail' = tail
          BY <3>2, <4>2 DEF KbdRingPush
        <5>. QED
          BY <4>2, <5>1, <5>2, Pushed
      <4>. QED BY <4>1, <4>2
    <3>. QED
      BY <1>2, <3>1, <3>2, ByteHandled
  <2>. QED
    BY <1>0, <2>2, <2>3, <2>4, LessWork
<1>. QED
  BY <1>1, <1>2 DEF Handler

LEMMA KbrShrinks ==
  ASSUME IInv, TypeOK', Kbr
  PROVE  KbdWork' < KbdWork
<1>0. TypeOK
  BY DEF IInv
<1>1. UNCHANGED <<wire, buffer, inIrq>>
  BY DEF Kbr, KbrRead, KbrDecide, kbdVars
<1>2. Len(wire') = Len(wire) /\ BufferWork' = BufferWork
  BY <1>1 DEF BufferWork
<1>3. CASE reader \in {"polling", "advanced", "returning"} \/ reader' = "copied"
  <2>1. UNCHANGED ringVars /\ reader # "away"
    BY <1>3 DEF Kbr, KbrRead, KbrDecide, KbdReadTest, KbdReadCopy, KbdReadAdvance, kbdVars
  <2>2. \/ reader = "polling" /\ reader' = "nonempty"
        \/ reader = "nonempty" /\ reader' = "copied"
        \/ reader = "advanced" /\ reader' = "returning"
        \/ reader = "returning" /\ reader' \in {"away", "polling"}
    BY <1>3 DEF Kbr, KbrRead, KbrDecide, KbdReadTest, KbdReadCopy, KbdReadAdvance
  <2>3. ReaderWork' < ReaderWork
    BY <2>2 DEF ReaderWork
  <2>4. Count' = Count
    BY <2>1 DEF Count, ringVars
  <2>. QED
    BY <1>0, <1>2, <2>3, <2>4, LessWork
<1>4. CASE KbdReadAdvance
  <2>1. /\ reader \in {"nonempty", "copied"} /\ tail' = Step(tail) /\ UNCHANGED <<ring, head>>
        /\ \/ reader = "nonempty" /\ reader' = "advanced"
           \/ reader = "copied" /\ reader' = "returning"
    BY <1>4 DEF KbdReadAdvance
  <2>2. Count' = Count - 1
    BY <2>1, AdvanceTakes
  <2>3. ReaderWork' <= ReaderWork + 3
    BY <2>1 DEF ReaderWork
  <2>. QED
    BY <1>0, <1>2, <2>2, <2>3, LessWork
<1>. QED
  BY <1>3, <1>4 DEF Kbr, KbrRead, KbrDecide, KbdReadTest, KbdReadCopy, KbdReadAdvance

(* Nothing the driver does can go on for ever by itself: but for a new     *)
(* stroke and a new call of Kbr, every step of the controller, the handler *)
(* and the loop of Kbr leaves less to do, wherever the interrupt falls; and*)
(* when nothing is left the wire, the buffer and the ring are empty        *)
(* (KBD.C:118-182, KBD.C:343-355).                                         *)
THEOREM DriverShrinks ==
  Spec => /\ [](KbdWork \in Nat /\ (KbdWork = 0 => Quiet /\ head = tail))
          /\ [][\/ \E k \in Keyboard : Press(k) \/ Release(k)
                \/ KbrCall
                \/ KbdWork' < KbdWork]_vars
<1>1. IInv => KbdWork \in Nat /\ (KbdWork = 0 => Quiet /\ head = tail)
  <2> SUFFICES ASSUME IInv
               PROVE  KbdWork \in Nat /\ (KbdWork = 0 => Quiet /\ head = tail)
    OBVIOUS
  <2>1. TypeOK
    BY DEF IInv
  <2>2. ASSUME KbdWork = 0 PROVE Len(wire) = 0 /\ BufferWork = 0 /\ Count = 0
    <3> DEFINE l == Len(wire)
               c == Count
               b == BufferWork
               r == ReaderWork
    <3>1. l \in Nat /\ c \in Nat /\ b \in 0 .. 7 /\ r \in 0 .. 4
      BY <2>1, WorkTyped
    <3>2. 8 * l + b + 4 * c + r = 0
      BY <2>2 DEF KbdWork
    <3> HIDE DEF l, c, b, r
    <3>3. l = 0 /\ b = 0 /\ c = 0
      BY <3>1, <3>2
    <3>. QED BY <3>3 DEF l, c, b
  <2>3. Len(wire) = 0 => wire = << >>
    BY <2>1 DEF TypeOK
  <2>4. BufferWork = 0 => buffer = << >> /\ ~inIrq
    BY <2>1 DEF BufferWork, TypeOK
  <2>5. Count = 0 => head = tail
    BY <2>1, CountValue DEF TypeOK
  <2>. QED
    BY <2>1, <2>2, <2>3, <2>4, <2>5, WorkTyped DEF Quiet
<1>2. ASSUME IInv, IInv', [Next]_vars
      PROVE  [\/ \E k \in Keyboard : Press(k) \/ Release(k)
              \/ KbrCall
              \/ KbdWork' < KbdWork]_vars
  <2>1. TypeOK /\ TypeOK'
    BY <1>2 DEF IInv
  <2>2. Deliver \/ Handler \/ Kbr => KbdWork' < KbdWork
    BY <1>2, <2>1, DeliverShrinks, HandlerShrinks, KbrShrinks
  <2>. QED
    BY <1>2, <2>2 DEF Next
<1>. QED
  BY <1>1, <1>2, InitIInv, NextPreservesIInv, PTL DEF Spec

-----------------------------------------------------------------------------
(***************************************************************************)
(* Breakpoints.  Events and bytes that stand for a release of Enter are    *)
(* counted wherever they are: on the wire, in the ring, in KbdRead's       *)
(* hands.  Nothing on the way makes one of none, or two of one.            *)
(***************************************************************************)
Occ(s, H) == Cardinality({i \in DOMAIN s : s[i] \in H})
EnterReleases == {e \in Key : e.code = Enter /\ ~e.pressed}
EnterBreak == {Enter + 128}

LEMMA OccurrencesFinite ==
  ASSUME NEW S, NEW s \in Seq(S), NEW H
  PROVE  /\ IsFiniteSet({i \in DOMAIN s : s[i] \in H})
         /\ Occ(s, H) \in Nat
<1>1. Len(s) \in Nat /\ DOMAIN s = 1 .. Len(s)
  OBVIOUS
<1>2. IsFiniteSet(1 .. Len(s))
  BY <1>1, FS_Interval
<1>3. {i \in DOMAIN s : s[i] \in H} \in SUBSET (1 .. Len(s))
  BY <1>1
<1>4. IsFiniteSet({i \in DOMAIN s : s[i] \in H})
  BY <1>2, <1>3, FS_Subset
<1>. QED
  BY <1>4, FS_CardinalityType DEF Occ

LEMMA OccurrencesAppend ==
  ASSUME NEW S, NEW s \in Seq(S), NEW e \in S, NEW H
  PROVE  Occ(Append(s, e), H) = Occ(s, H) + (IF e \in H THEN 1 ELSE 0)
<1> DEFINE A == {i \in DOMAIN s : s[i] \in H}
           B == {i \in DOMAIN Append(s, e) : Append(s, e)[i] \in H}
           n == Len(s) + 1
<1>1. /\ Len(s) \in Nat /\ DOMAIN s = 1 .. Len(s) /\ DOMAIN Append(s, e) = 1 .. n
      /\ Append(s, e)[n] = e /\ \A i \in 1 .. Len(s) : Append(s, e)[i] = s[i]
  OBVIOUS
<1>2. /\ IsFiniteSet(A) /\ n \notin A /\ Cardinality(A) \in Nat
      /\ Occ(s, H) = Cardinality(A) /\ Occ(Append(s, e), H) = Cardinality(B)
  <2>1. IsFiniteSet(A)
    BY OccurrencesFinite
  <2>2. n \notin A
    BY <1>1
  <2>3. Cardinality(A) \in Nat
    BY <2>1, FS_CardinalityType
  <2>. QED
    BY <2>1, <2>2, <2>3 DEF Occ
<1>3. e \in H => B = A \cup {n}
  BY <1>1
<1>4. e \notin H => B = A
  BY <1>1
<1> HIDE DEF A, B
<1>5. Cardinality(A \cup {n}) = Cardinality(A) + 1
  BY <1>2, FS_AddElement
<1>6. CASE e \in H
  BY <1>2, <1>3, <1>5, <1>6
<1>7. CASE e \notin H
  BY <1>2, <1>4, <1>7
<1>. QED
  BY <1>6, <1>7

LEMMA OccurrencesEmpty ==
  ASSUME NEW H
  PROVE  Occ(<< >>, H) = 0
<1>1. {i \in DOMAIN << >> : << >>[i] \in H} = {}
  OBVIOUS
<1>. QED
  BY <1>1, FS_EmptySet DEF Occ

LEMMA OccurrencesConcat ==
  ASSUME NEW S, NEW s \in Seq(S), NEW t \in Seq(S), NEW H
  PROVE  Occ(s \o t, H) = Occ(s, H) + Occ(t, H)
<1> DEFINE A == {i \in DOMAIN s : s[i] \in H}
           B == {i \in DOMAIN t : t[i] \in H}
           C == {i \in DOMAIN (s \o t) : (s \o t)[i] \in H}
           D == {i \in C : i > Len(s)}
           f == [i \in B |-> i + Len(s)]
<1>1. /\ Len(s) \in Nat /\ DOMAIN s = 1 .. Len(s) /\ Len(t) \in Nat /\ DOMAIN t = 1 .. Len(t)
      /\ DOMAIN (s \o t) = 1 .. (Len(s) + Len(t))
      /\ \A i \in 1 .. (Len(s) + Len(t)) :
           (s \o t)[i] = IF i <= Len(s) THEN s[i] ELSE t[i - Len(s)]
  BY ConcatProperties
<1>2. IsFiniteSet(A) /\ IsFiniteSet(B)
  BY OccurrencesFinite
<1>3. C = A \cup D /\ A \cap D = {}
  BY <1>1
<1>4. ExistsBijection(B, D)
  <2>1. f \in [B -> D]
    BY <1>1
  <2>2. \A i, j \in B : f[i] = f[j] => i = j
    BY <1>1
  <2>3. \A d \in D : \E i \in B : f[i] = d
    <3> SUFFICES ASSUME NEW d \in D PROVE \E i \in B : f[i] = d
      OBVIOUS
    <3>1. d - Len(s) \in B
      BY <1>1
    <3>2. f[d - Len(s)] = d
      BY <1>1, <3>1
    <3>. QED
      BY <3>1, <3>2
  <2>. QED
    BY <2>1, <2>2, <2>3, Fun_IsBij, Fun_ExistsBij
<1>5. IsFiniteSet(D) /\ Cardinality(D) = Cardinality(B)
  BY <1>2, <1>4, FS_Bijection
<1>6. Cardinality(C) = Cardinality(A) + Cardinality(D) - Cardinality({})
  <2>1. IsFiniteSet(A) /\ IsFiniteSet(D) /\ C = A \cup D /\ A \cap D = {}
    BY <1>2, <1>3, <1>5
  <2> HIDE DEF A, B, C, D
  <2>. QED
    BY <2>1, FS_Union
<1>7. Cardinality({}) = 0 /\ Cardinality(A) \in Nat /\ Cardinality(B) \in Nat
  BY <1>2, FS_EmptySet, FS_CardinalityType
<1>8. /\ Occ(s, H) = Cardinality(A) /\ Occ(t, H) = Cardinality(B)
      /\ Occ(s \o t, H) = Cardinality(C)
  BY DEF Occ
<1> HIDE DEF A, B, C, D
<1>. QED
  BY <1>5, <1>6, <1>7, <1>8

LEMMA OccurrencesTail ==
  ASSUME NEW S, NEW s \in Seq(S), s # << >>, NEW H
  PROVE  Occ(s, H) = Occ(Tail(s), H) + (IF Head(s) \in H THEN 1 ELSE 0)
<1>1. Head(s) \in S /\ Tail(s) \in Seq(S) /\ <<Head(s)>> \in Seq(S)
  OBVIOUS
<1>2. s = <<Head(s)>> \o Tail(s)
  <2>1. /\ Len(<<Head(s)>> \o Tail(s)) = Len(s)
        /\ \A i \in 1 .. Len(s) : (<<Head(s)>> \o Tail(s))[i] = s[i]
    BY <1>1
  <2>. QED
    BY <1>1, <2>1, ConcatProperties, SeqEqual
<1>3. Occ(<<Head(s)>>, H) = IF Head(s) \in H THEN 1 ELSE 0
  <2>1. << >> \in Seq(S) /\ Append(<< >>, Head(s)) = <<Head(s)>>
    OBVIOUS
  <2>2. Occ(Append(<< >>, Head(s)), H) = Occ(<< >>, H) + (IF Head(s) \in H THEN 1 ELSE 0)
    BY <1>1, <2>1, OccurrencesAppend
  <2>. QED
    BY <2>1, <2>2, OccurrencesEmpty
<1>4. Occ(s, H) = Occ(<<Head(s)>>, H) + Occ(Tail(s), H)
  <2>1. Occ(<<Head(s)>> \o Tail(s), H) = Occ(<<Head(s)>>, H) + Occ(Tail(s), H)
    BY <1>1, OccurrencesConcat
  <2>. QED
    BY <1>2, <2>1
<1>5. Occ(Tail(s), H) \in Nat
  BY <1>1, OccurrencesFinite
<1>. QED
  BY <1>3, <1>4, <1>5

(* Only the byte that releases Enter is taken for its release.             *)
LEMMA SentAreKeys == SentBytes \subseteq Bytes
<1> SUFFICES ASSUME NEW s \in Strokes, NEW i \in DOMAIN s.bytes PROVE s.bytes[i] \in Bytes
  BY DEF SentBytes
<1>1. s.bytes \in Seq(Bytes)
  BY KeyboardAssumption DEF StrokeType
<1>. QED
  BY <1>1

LEMMA EventIsKey ==
  ASSUME NEW s \in ParseState, NEW b \in Bytes, Emits(s, b) # << >>
  PROVE  /\ Emits(s, b)[1] \in Key
         /\ Emits(s, b)[1] \in EnterReleases => b \in EnterBreak
<1>1. b \in 0 .. 255 /\ s.extended \in BOOLEAN /\ Enter \in 0 .. 127 /\ Enter # 55
  BY EnterAssumption DEF Bytes, ParseState, SysRqId
<1>2. /\ Code(b) \in 0 .. 255 /\ Pressed(b) \in BOOLEAN
      /\ ~Pressed(b) => b = Code(b) + 128
  BY <1>1 DEF Code, Pressed
<1>3. CASE Kind(s, b) = "pause"
  <2>1. Emits(s, b) = <<[code |-> 225, pressed |-> TRUE, extended |-> FALSE]>>
    BY <1>3 DEF Emits, Pause
  <2>. QED
    BY <2>1 DEF EnterReleases, Key, Bytes
<1>4. CASE Kind(s, b) = "sysrq"
  <2>1. Emits(s, b) = <<[code |-> 55, pressed |-> Pressed(b), extended |-> TRUE]>>
    BY <1>4 DEF Emits, SysRqId
  <2>. QED
    BY <1>1, <1>2, <2>1 DEF EnterReleases, Key, Bytes
<1>5. CASE Kind(s, b) = "key"
  <2>1. Emits(s, b) = <<[code |-> Code(b), pressed |-> Pressed(b), extended |-> s.extended]>>
    BY <1>5 DEF Emits
  <2>. QED
    BY <1>1, <1>2, <2>1 DEF EnterReleases, EnterBreak, Key, Bytes
<1>6. CASE Kind(s, b) \in {"swallow", "error", "prefix", "arm"}
  BY <1>6 DEF Emits
<1>. QED
  BY <1>3, <1>4, <1>5, <1>6, KindIsOneOf

LEMMA SentEventsAreKeys == SentEvents \subseteq Key
<1> SUFFICES ASSUME NEW x \in ParseState \X SentBytes, Emits(x[1], x[2]) # << >>
             PROVE  Emits(x[1], x[2])[1] \in Key
  BY DEF SentEvents
<1>. QED
  BY SentAreKeys, EventIsKey

-----------------------------------------------------------------------------
(* The bytes that are still to come, the one in the buffer first.          *)
Pending == (IF buffer = << >> THEN << >> ELSE <<buffer[1].byte>>) \o wire
Spent ==
  (calls - WaitingNow) + (IF reader = "returning" /\ IsEnterRelease(key) THEN 1 ELSE 0)

BreakpointInv ==
  /\ typed \in Seq(Key)
  /\ Occ(Received, EnterReleases) + Occ(Contents, EnterReleases) + Occ(Pending, EnterBreak)
       <= Occ(typed, EnterReleases)
  /\ Occ(delivered, EnterReleases) <= Occ(Received, EnterReleases)
  /\ Spent <= Occ(delivered, EnterReleases)

LEMMA Countable ==
  ASSUME IInv
  PROVE  /\ Pending \in Seq(SentBytes) /\ Received \in Seq(Key) /\ Contents \in Seq(Key)
         /\ delivered \in Seq(Key) /\ calls \in Nat /\ Spent \in Int
         /\ Occ(Pending, EnterBreak) \in Nat
         /\ Occ(Received, EnterReleases) \in Nat /\ Occ(Contents, EnterReleases) \in Nat
         /\ Occ(delivered, EnterReleases) \in Nat
<1>1. /\ wire \in Seq(SentBytes) /\ delivered \in Seq(SentEvents) /\ Contents \in Seq(SentEvents)
      /\ calls \in Nat
      /\ reader = "advanced" => ring[Back(tail)] \in SentEvents
      /\ buffer = << >> \/ \E m \in [byte : SentBytes, garbled : BOOLEAN] : buffer = <<m>>
  BY KeyboardAssumption DEF IInv, TypeOK, WaitingAreEvents, ReaderIsSafe
<1>2. Pending \in Seq(SentBytes)
  <2>1. CASE buffer = << >>
    BY <1>1, <2>1 DEF Pending
  <2>2. ASSUME NEW m \in [byte : SentBytes, garbled : BOOLEAN], buffer = <<m>>
        PROVE  Pending \in Seq(SentBytes)
    <3>1. <<m.byte>> \in Seq(SentBytes) /\ buffer # << >> /\ buffer[1] = m
      BY <2>2
    <3>. QED
      BY <1>1, <3>1, ConcatProperties DEF Pending
  <2>. QED
    BY <1>1, <2>1, <2>2
<1>3. delivered \in Seq(Key) /\ Contents \in Seq(Key)
  BY <1>1, SentEventsAreKeys, SeqMonotonic
<1>4. Received \in Seq(Key)
  BY <1>1, <1>3, SentEventsAreKeys DEF Received
<1>5. Spent \in Int
  BY <1>1 DEF Spent, WaitingNow
<1>. QED
  BY <1>1, <1>2, <1>3, <1>4, <1>5, OccurrencesFinite

(* A step that leaves the ring and the reader alone, and puts no more      *)
(* releases on the wire than were typed.                                   *)
LEMMA WireCounts ==
  ASSUME IInv, BreakpointInv, UNCHANGED <<ringVars, readVars, calls>>,
         typed' \in Seq(Key), Pending' \in Seq(SentBytes),
         Occ(Pending', EnterBreak) + Occ(typed, EnterReleases)
           <= Occ(Pending, EnterBreak) + Occ(typed', EnterReleases)
  PROVE  BreakpointInv'
<1>1. Received' = Received /\ Contents' = Contents /\ delivered' = delivered /\ Spent' = Spent
  BY DEF Received, Contents, Count, Spent, WaitingNow, ringVars, readVars
<1>2. /\ Occ(Pending, EnterBreak) \in Nat /\ Occ(Pending', EnterBreak) \in Nat
      /\ Occ(Received, EnterReleases) \in Nat /\ Occ(Contents, EnterReleases) \in Nat
      /\ Occ(typed, EnterReleases) \in Nat /\ Occ(typed', EnterReleases) \in Nat
  <2>1. Occ(Pending', EnterBreak) \in Nat
    BY OccurrencesFinite
  <2>. QED
    BY <2>1, Countable, OccurrencesFinite DEF BreakpointInv
<1>3. /\ Occ(Received', EnterReleases) + Occ(Contents', EnterReleases) + Occ(Pending', EnterBreak)
           <= Occ(typed', EnterReleases)
  BY <1>1, <1>2 DEF BreakpointInv
<1>. QED
  BY <1>1, <1>3 DEF BreakpointInv, Occ

(* What the steps of the wire and the handler do to the bytes to come.     *)
LEMMA StrokeBytes ==
  ASSUME IInv, NEW bytes \in Seq(SentBytes), NEW events, NEW open, Sends(bytes, events, open)
  PROVE  Pending' = Pending \o bytes
<1>1. wire \in Seq(SentBytes) /\ wire' = wire \o bytes /\ buffer' = buffer
  BY DEF IInv, TypeOK, Sends
<1>2. CASE buffer = << >>
  <2>1. Pending = << >> \o wire /\ Pending' = << >> \o (wire \o bytes)
    BY <1>1, <1>2 DEF Pending
  <2>. QED
    BY <1>1, <2>1, ConcatProperties, ConcatEmptySeq
<1>3. ASSUME NEW m \in [byte : SentBytes, garbled : BOOLEAN], buffer = <<m>>
      PROVE  Pending' = Pending \o bytes
  <2>1. <<m.byte>> \in Seq(SentBytes) /\ buffer # << >> /\ buffer[1] = m
    BY <1>3
  <2>2. Pending = <<m.byte>> \o wire /\ Pending' = <<m.byte>> \o (wire \o bytes)
    BY <1>1, <2>1 DEF Pending
  <2>. QED
    BY <1>1, <2>1, <2>2, ConcatAssociative
<1>. QED
  BY <1>2, <1>3 DEF IInv, TypeOK

LEMMA DeliverBytes ==
  ASSUME IInv, Deliver
  PROVE  Pending' = Pending
<1>1. wire \in Seq(SentBytes) /\ wire # << >> /\ wire' = Tail(wire) /\ buffer = << >>
  BY DEF IInv, TypeOK, Deliver
<1>2. PICK g \in BOOLEAN : buffer' = <<[byte |-> Head(wire), garbled |-> g]>>
  BY DEF Deliver
<1>3. Pending' = <<Head(wire)>> \o Tail(wire)
  <2>1. buffer' # << >> /\ buffer'[1].byte = Head(wire)
    BY <1>2
  <2>. QED
    BY <1>1, <2>1 DEF Pending
<1>4. Pending = wire
  BY <1>1, ConcatEmptySeq DEF Pending
<1>5. <<Head(wire)>> \o Tail(wire) = wire
  <2>1. Head(wire) \in SentBytes /\ Tail(wire) \in Seq(SentBytes) /\ <<Head(wire)>> \in Seq(SentBytes)
    BY <1>1
  <2>2. /\ Len(<<Head(wire)>> \o Tail(wire)) = Len(wire)
        /\ \A i \in 1 .. Len(wire) : (<<Head(wire)>> \o Tail(wire))[i] = wire[i]
    BY <1>1, <2>1
  <2>. QED
    BY <1>1, <2>1, <2>2, ConcatProperties, SeqEqual
<1>. QED
  BY <1>3, <1>4, <1>5

(* The handler takes the first of them, good or bad.                       *)
LEMMA TakenByte ==
  ASSUME IInv, IrqByte \/ IrqGarbage
  PROVE  /\ Pending # << >> /\ Pending' = Tail(Pending)
         /\ Head(Pending) = buffer[1].byte /\ Head(Pending) \in SentBytes
<1>1. /\ wire \in Seq(SentBytes) /\ wire' = wire /\ buffer' = << >> /\ buffer # << >>
  BY DEF IInv, TypeOK, IrqByte, IrqGarbage
<1>2. PICK m \in [byte : SentBytes, garbled : BOOLEAN] : buffer = <<m>>
  BY <1>1 DEF IInv, TypeOK
<1>3. m.byte \in SentBytes /\ <<m.byte>> \in Seq(SentBytes) /\ buffer[1] = m
  BY <1>2
<1>4. Pending = <<m.byte>> \o wire
  BY <1>1, <1>3 DEF Pending
<1>5. Pending' = wire
  BY <1>1, ConcatEmptySeq DEF Pending
<1>6. /\ <<m.byte>> \o wire # << >> /\ Head(<<m.byte>> \o wire) = m.byte
      /\ Tail(<<m.byte>> \o wire) = wire
  <2>1. /\ <<m.byte>> \o wire \in Seq(SentBytes) /\ Len(<<m.byte>> \o wire) = 1 + Len(wire)
        /\ \A i \in 1 .. (1 + Len(wire)) :
             (<<m.byte>> \o wire)[i] = IF i <= 1 THEN m.byte ELSE wire[i - 1]
    BY <1>1, <1>3, ConcatProperties
  <2>2. <<m.byte>> \o wire # << >> /\ Head(<<m.byte>> \o wire) = m.byte
    BY <1>1, <2>1
  <2>3. /\ Tail(<<m.byte>> \o wire) \in Seq(SentBytes)
        /\ Len(Tail(<<m.byte>> \o wire)) = Len(wire)
        /\ \A i \in 1 .. Len(wire) : Tail(<<m.byte>> \o wire)[i] = wire[i]
    BY <1>1, <2>1, <2>2
  <2>. QED
    BY <1>1, <2>2, <2>3, SeqEqual
<1>. QED
  BY <1>3, <1>4, <1>5, <1>6

LEMMA SamePending ==
  ASSUME UNCHANGED <<wire, buffer>>
  PROVE  Pending' = Pending
BY DEF Pending

LEMMA StrokeCounts ==
  ASSUME IInv, BreakpointInv, NEW k \in Keyboard, Press(k) \/ Release(k)
  PROVE  BreakpointInv'
<1>0. PICK bytes, events, open : Sends(bytes, events, open)
  BY KeySends
<1>1. /\ bytes \in Seq(SentBytes) /\ events \in Seq(Key)
      /\ Breaks(bytes) <= Releases(events)
  BY <1>0 DEF Sends
<1>2. Occ(bytes, EnterBreak) = Breaks(bytes)
  BY DEF Occ, Breaks, EnterBreak
<1>3. Occ(events, EnterReleases) = Releases(events)
  <2>1. \A i \in DOMAIN events : events[i] \in EnterReleases <=>
          events[i].code = Enter /\ ~events[i].pressed
    BY <1>1 DEF EnterReleases
  <2>2. {i \in DOMAIN events : events[i] \in EnterReleases}
          = {i \in DOMAIN events : events[i].code = Enter /\ ~events[i].pressed}
    BY <2>1
  <2>. QED
    BY <2>2 DEF Occ, Releases
<1>4. typed \in Seq(Key) /\ Pending \in Seq(SentBytes)
  BY Countable DEF BreakpointInv
<1>5. /\ typed' = typed \o events /\ typed' \in Seq(Key)
      /\ Pending' = Pending \o bytes /\ Pending' \in Seq(SentBytes)
  <2>1. typed' = typed \o events
    BY <1>0 DEF Sends
  <2>2. Pending' = Pending \o bytes
    BY <1>0, <1>1, StrokeBytes
  <2>. QED
    BY <1>1, <1>4, <2>1, <2>2, ConcatProperties
<1>6. /\ Occ(Pending', EnterBreak) = Occ(Pending, EnterBreak) + Occ(bytes, EnterBreak)
      /\ Occ(typed', EnterReleases) = Occ(typed, EnterReleases) + Occ(events, EnterReleases)
  <2>1. Occ(Pending \o bytes, EnterBreak) = Occ(Pending, EnterBreak) + Occ(bytes, EnterBreak)
    BY <1>1, <1>4, OccurrencesConcat
  <2>2. Occ(typed \o events, EnterReleases) = Occ(typed, EnterReleases) + Occ(events, EnterReleases)
    BY <1>1, <1>4, OccurrencesConcat
  <2>. QED
    BY <1>5, <2>1, <2>2
<1>7. /\ Occ(Pending, EnterBreak) \in Nat /\ Occ(bytes, EnterBreak) \in Nat
      /\ Occ(typed, EnterReleases) \in Nat /\ Occ(events, EnterReleases) \in Nat
  BY <1>1, <1>4, OccurrencesFinite
<1>8. Occ(Pending', EnterBreak) + Occ(typed, EnterReleases)
        <= Occ(Pending, EnterBreak) + Occ(typed', EnterReleases)
  BY <1>1, <1>2, <1>3, <1>6, <1>7
<1>9. UNCHANGED <<ringVars, readVars, calls>>
  BY <1>0 DEF Sends
<1>. QED
  BY <1>5, <1>8, <1>9, WireCounts

(* The wire, and the handler entering, leaving or dropping a bad byte.     *)
LEMMA AsideCounts ==
  ASSUME IInv, BreakpointInv, Deliver \/ IrqEnter \/ IrqGarbage \/ IrqLeave \/ UNCHANGED vars
  PROVE  BreakpointInv'
<1>1. /\ UNCHANGED <<ringVars, readVars, calls>> /\ typed' = typed /\ typed \in Seq(Key)
  BY DEF Deliver, IrqEnter, IrqGarbage, IrqLeave, vars, kbdVars, BreakpointInv
<1>2. Pending \in Seq(SentBytes) /\ Occ(Pending, EnterBreak) \in Nat
      /\ Occ(typed, EnterReleases) \in Nat
  BY <1>1, Countable, OccurrencesFinite
<1>3. CASE Pending' = Pending
  BY <1>1, <1>2, <1>3, WireCounts
<1>4. CASE IrqGarbage
  <2>1. Pending # << >> /\ Pending' = Tail(Pending)
    BY <1>4, TakenByte
  <2>2. Pending' \in Seq(SentBytes) /\ Occ(Tail(Pending), EnterBreak) <= Occ(Pending, EnterBreak)
    <3>1. Tail(Pending) \in Seq(SentBytes)
      BY <1>2, <2>1
    <3>2. Occ(Tail(Pending), EnterBreak) \in Nat
      BY <3>1, OccurrencesFinite
    <3>3. Occ(Pending, EnterBreak)
            = Occ(Tail(Pending), EnterBreak) + (IF Head(Pending) \in EnterBreak THEN 1 ELSE 0)
      BY <1>2, <2>1, OccurrencesTail
    <3>. QED
      BY <2>1, <3>1, <3>2, <3>3
  <2>3. Occ(Pending', EnterBreak) \in Nat
    BY <2>2, OccurrencesFinite
  <2>. QED
    BY <1>1, <1>2, <2>1, <2>2, <2>3, WireCounts
<1>5. CASE Deliver
  BY <1>3, <1>5, DeliverBytes
<1>6. CASE IrqEnter \/ IrqLeave \/ UNCHANGED vars
  BY <1>3, <1>6, SamePending DEF IrqEnter, IrqLeave, vars, kbdVars
<1>. QED
  BY <1>4, <1>5, <1>6

(* The handler turns a byte into an event: a release of Enter only out of  *)
(* the byte that releases it.  A full ring loses the event.                *)
LEMMA ByteCounts ==
  ASSUME IInv, BreakpointInv, IrqByte
  PROVE  BreakpointInv'
<1> DEFINE b == buffer[1].byte
           hit == IF b \in EnterBreak THEN 1 ELSE 0
<1>1. /\ Pending # << >> /\ Pending' = Tail(Pending) /\ Head(Pending) = b /\ b \in SentBytes
      /\ Pending \in Seq(SentBytes)
  BY TakenByte, Countable
<1>2. /\ Occ(Pending, EnterBreak) = Occ(Tail(Pending), EnterBreak) + hit
      /\ Occ(Tail(Pending), EnterBreak) \in Nat
  <2>1. Tail(Pending) \in Seq(SentBytes)
    BY <1>1
  <2>2. Occ(Tail(Pending), EnterBreak) \in Nat
    BY <2>1, OccurrencesFinite
  <2>3. Occ(Pending, EnterBreak)
          = Occ(Tail(Pending), EnterBreak) + (IF Head(Pending) \in EnterBreak THEN 1 ELSE 0)
    BY <1>1, OccurrencesTail
  <2>. QED
    BY <1>1, <2>2, <2>3
<1>3. UNCHANGED readVars /\ typed' = typed /\ calls' = calls
  BY DEF IrqByte
<1>4. delivered' = delivered /\ Spent' = Spent
  BY <1>3 DEF readVars, Spent, WaitingNow
<1>5. /\ Received' = Received
      /\ \/ Contents' = Contents
         \/ \E e \in Key : Contents' = Append(Contents, e) /\ (e \in EnterReleases => b \in EnterBreak)
  <2>1. CASE Emits(parse, b) = << >>
    <3>1. UNCHANGED ringVars
      BY <2>1 DEF IrqByte
    <3>. QED
      BY <1>3, <3>1 DEF Received, Contents, Count, ringVars, readVars
  <2>2. CASE Emits(parse, b) # << >>
    <3> DEFINE e == Emits(parse, b)[1]
    <3>1. parse \in ParseState /\ b \in Bytes /\ offered \in Seq(SentEvents)
      BY <1>1, SentAreKeys DEF IInv, TypeOK
    <3>2. e \in SentEvents /\ Emits(parse, b) = <<e>>
      BY <1>1, <2>2, <3>1, AtMostOneEvent
    <3>3. e \in Key /\ (e \in EnterReleases => b \in EnterBreak)
      BY <2>2, <3>1, EventIsKey
    <3>4. KbdRingPush(e) /\ offered' = offered \o <<e>>
      BY <2>2, <3>2 DEF IrqByte
    <3>5. offered' = Append(offered, e)
      BY <3>1, <3>2, <3>4
    <3>6. reader = "advanced" => ring'[Back(tail')] = ring[Back(tail)]
      BY <1>3, <3>2, <3>4, <3>5, PushPreserves
    <3>7. Received' = Received
      BY <1>3, <3>6 DEF Received, readVars
    <3>8. CASE Step(head) = tail
      <4>1. UNCHANGED <<ring, head, tail>>
        BY <3>4, <3>8 DEF KbdRingPush
      <4>. QED
        BY <3>7, <4>1 DEF Contents, Count
    <3>9. CASE Step(head) # tail
      <4>1. ring' = [ring EXCEPT ![head] = e] /\ head' = Step(head) /\ tail' = tail
        BY <3>4, <3>9 DEF KbdRingPush
      <4>2. ring \in [Slots -> Ev] /\ head \in Slots /\ tail \in Slots /\ e \in Ev
        BY <3>2 DEF IInv, TypeOK, Ev
      <4>3. Contents' = Append(Contents, e)
        BY <3>9, <4>1, <4>2, Pushed
      <4>. QED
        BY <3>3, <3>7, <4>3
    <3>. QED
      BY <3>8, <3>9
  <2>. QED
    BY <2>1, <2>2
<1>6. /\ Contents \in Seq(Key) /\ Occ(Contents, EnterReleases) \in Nat
      /\ Occ(Received, EnterReleases) \in Nat /\ Occ(Pending, EnterBreak) \in Nat
  BY Countable
<1>7. Occ(Contents', EnterReleases) <= Occ(Contents, EnterReleases) + hit
      /\ Occ(Contents', EnterReleases) \in Nat
  <2>1. CASE Contents' = Contents
    BY <1>6, <2>1
  <2>2. ASSUME NEW e \in Key, Contents' = Append(Contents, e), e \in EnterReleases => b \in EnterBreak
        PROVE  /\ Occ(Contents', EnterReleases) <= Occ(Contents, EnterReleases) + hit
               /\ Occ(Contents', EnterReleases) \in Nat
    <3>1. Occ(Append(Contents, e), EnterReleases)
            = Occ(Contents, EnterReleases) + (IF e \in EnterReleases THEN 1 ELSE 0)
      BY <1>6, OccurrencesAppend
    <3>. QED
      BY <1>6, <2>2, <3>1
  <2>. QED
    BY <1>5, <2>1, <2>2
<1>8. Occ(Received', EnterReleases) + Occ(Contents', EnterReleases) + Occ(Pending', EnterBreak)
        <= Occ(typed', EnterReleases)
  <2>1. /\ Occ(Received, EnterReleases) + Occ(Contents, EnterReleases) + Occ(Pending, EnterBreak)
             <= Occ(typed, EnterReleases)
        /\ Occ(typed, EnterReleases) \in Nat
    BY OccurrencesFinite DEF BreakpointInv
  <2>2. /\ Occ(Received', EnterReleases) = Occ(Received, EnterReleases)
        /\ Occ(typed', EnterReleases) = Occ(typed, EnterReleases)
        /\ Occ(Pending', EnterBreak) = Occ(Tail(Pending), EnterBreak)
    BY <1>1, <1>3, <1>5
  <2>. QED
    BY <1>2, <1>6, <1>7, <2>1, <2>2
<1>. QED
  BY <1>3, <1>4, <1>5, <1>8 DEF BreakpointInv, Occ

(* KbdRead moves one event from the ring to its caller: at the tail's move *)
(* out of the ring, at the copy, if that comes later, into delivered.      *)
LEMMA ReadMoves ==
  ASSUME IInv, KbdReadCopy \/ KbdReadAdvance, UNCHANGED kbdVars
  PROVE  /\ \/ Received' = Received /\ Contents' = Contents
            \/ \E e \in Key : /\ Contents # << >> /\ Head(Contents) = e
                              /\ Contents' = Tail(Contents) /\ Received' = Append(Received, e)
         /\ \/ /\ reader' # "returning" /\ reader' # "away" /\ delivered' = delivered
            \/ /\ reader' = "returning" /\ key' \in Key /\ delivered' = Append(delivered, key')
               /\ Received' = delivered'
<1>1. CASE KbdReadCopy
  <2>1. UNCHANGED ringVars /\ Contents' = Contents
    BY <1>1 DEF KbdReadCopy, Contents, Count, ringVars
  <2>2. CASE reader = "nonempty"
    BY <1>1, <2>1, <2>2 DEF KbdReadCopy, Received
  <2>3. CASE reader = "advanced"
    <3>1. /\ key' = ring[Back(tail)] /\ key' \in SentEvents /\ reader' = "returning"
          /\ delivered' = Append(delivered, key')
      BY <1>1, <2>3 DEF KbdReadCopy, IInv, ReaderIsSafe
    <3>. QED
      BY <2>1, <2>3, <3>1, SentEventsAreKeys DEF Received
  <2>. QED
    BY <1>1, <2>2, <2>3 DEF KbdReadCopy
<1>2. CASE KbdReadAdvance
  <2>1. reader \in {"nonempty", "copied"} /\ tail' = Step(tail) /\ UNCHANGED <<ring, head, key>>
    BY <1>2 DEF KbdReadAdvance
  <2>2. /\ Contents # << >> /\ Contents' = Tail(Contents) /\ Head(Contents) = ring[tail]
        /\ ring[tail] \in SentEvents /\ ring'[Back(tail')] = ring[tail]
    BY <2>1, AdvanceTakes
  <2>3. Received' = Append(Received, ring[tail]) /\ ring[tail] \in Key
    BY <1>2, <2>2, SentEventsAreKeys DEF KbdReadAdvance, IInv, ReaderIsSafe, Received
  <2>4. CASE reader = "copied"
    <3>1. reader' = "returning" /\ delivered' = Append(delivered, key) /\ key = ring[tail]
      BY <1>2, <2>4 DEF KbdReadAdvance, IInv, ReaderIsSafe
    <3>2. Received' = delivered'
      BY <3>1 DEF Received
    <3>. QED
      BY <2>1, <2>2, <2>3, <3>1, <3>2
  <2>5. CASE reader = "nonempty"
    <3>1. reader' = "advanced" /\ delivered' = delivered
      BY <1>2, <2>5 DEF KbdReadAdvance
    <3>. QED
      BY <2>2, <2>3, <3>1
  <2>. QED
    BY <2>1, <2>4, <2>5
<1>. QED
  BY <1>1, <1>2

LEMMA ReadCounts ==
  ASSUME IInv, BreakpointInv, KbdReadCopy \/ KbdReadAdvance, UNCHANGED kbdVars, reader # "away"
  PROVE  BreakpointInv'
<1> DEFINE hit == IF key' \in EnterReleases THEN 1 ELSE 0
<1>1. /\ Received \in Seq(Key) /\ Contents \in Seq(Key) /\ delivered \in Seq(Key)
      /\ Occ(Received, EnterReleases) \in Nat /\ Occ(Contents, EnterReleases) \in Nat
      /\ Occ(Pending, EnterBreak) \in Nat /\ Occ(delivered, EnterReleases) \in Nat
      /\ calls \in Nat /\ Spent \in Int
  BY Countable
<1>2. Pending' = Pending /\ typed' = typed /\ calls' = calls
  BY SamePending DEF kbdVars
<1>3. Occ(typed, EnterReleases) \in Nat
  BY OccurrencesFinite DEF BreakpointInv
<1>4. /\ Occ(Received', EnterReleases) + Occ(Contents', EnterReleases)
           = Occ(Received, EnterReleases) + Occ(Contents, EnterReleases)
      /\ Occ(Received', EnterReleases) \in Nat
      /\ Occ(Received, EnterReleases) <= Occ(Received', EnterReleases)
      /\ Occ(Contents', EnterReleases) \in Nat
  <2>1. CASE Received' = Received /\ Contents' = Contents
    BY <1>1, <2>1
  <2>2. ASSUME NEW e \in Key, Contents # << >>, Head(Contents) = e,
               Contents' = Tail(Contents), Received' = Append(Received, e)
        PROVE  /\ Occ(Received', EnterReleases) + Occ(Contents', EnterReleases)
                    = Occ(Received, EnterReleases) + Occ(Contents, EnterReleases)
               /\ Occ(Received', EnterReleases) \in Nat
               /\ Occ(Received, EnterReleases) <= Occ(Received', EnterReleases)
               /\ Occ(Contents', EnterReleases) \in Nat
    <3>1. Occ(Append(Received, e), EnterReleases)
            = Occ(Received, EnterReleases) + (IF e \in EnterReleases THEN 1 ELSE 0)
      BY <1>1, OccurrencesAppend
    <3>2. Occ(Contents, EnterReleases)
            = Occ(Tail(Contents), EnterReleases) + (IF Head(Contents) \in EnterReleases THEN 1 ELSE 0)
      BY <1>1, <2>2, OccurrencesTail
    <3>3. Tail(Contents) \in Seq(Key)
      BY <1>1, <2>2
    <3>4. Occ(Tail(Contents), EnterReleases) \in Nat
      BY <3>3, OccurrencesFinite
    <3>5. /\ Occ(Received', EnterReleases) = Occ(Append(Received, e), EnterReleases)
          /\ Occ(Contents', EnterReleases) = Occ(Tail(Contents), EnterReleases)
      BY <2>2
    <3>6. Occ(Contents, EnterReleases)
            = Occ(Tail(Contents), EnterReleases) + (IF e \in EnterReleases THEN 1 ELSE 0)
      BY <2>2, <3>2
    <3>7. CASE e \in EnterReleases
      <4>1. /\ Occ(Received', EnterReleases) = Occ(Received, EnterReleases) + 1
            /\ Occ(Contents, EnterReleases) = Occ(Contents', EnterReleases) + 1
            /\ Occ(Contents', EnterReleases) \in Nat
        BY <3>1, <3>4, <3>5, <3>6, <3>7
      <4>2. Occ(Received, EnterReleases) \in Nat
        BY <1>1
      <4>. QED
        BY <4>1, <4>2
    <3>8. CASE e \notin EnterReleases
      <4>1. /\ Occ(Received', EnterReleases) = Occ(Received, EnterReleases)
            /\ Occ(Contents, EnterReleases) = Occ(Contents', EnterReleases)
        BY <1>1, <3>1, <3>4, <3>5, <3>6, <3>8
      <4>2. Occ(Received, EnterReleases) \in Nat /\ Occ(Contents, EnterReleases) \in Nat
        BY <1>1
      <4>. QED
        BY <4>1, <4>2
    <3>. QED
      BY <3>7, <3>8
  <2>. QED
    BY <2>1, <2>2, ReadMoves
<1>5. Occ(Received', EnterReleases) + Occ(Contents', EnterReleases) + Occ(Pending', EnterBreak)
        <= Occ(typed', EnterReleases)
  <2>1. Occ(Received, EnterReleases) + Occ(Contents, EnterReleases) + Occ(Pending, EnterBreak)
          <= Occ(typed, EnterReleases)
    BY DEF BreakpointInv
  <2>. QED
    BY <1>1, <1>2, <1>3, <1>4, <2>1
<1>6. reader # "returning" /\ reader # "away" => Spent = calls - 1
  BY <1>1 DEF Spent, WaitingNow
<1>7. reader # "returning"
  BY DEF KbdReadCopy, KbdReadAdvance
<1>8. /\ Occ(delivered', EnterReleases) <= Occ(Received', EnterReleases)
      /\ Spent' <= Occ(delivered', EnterReleases)
  <2>1. CASE reader' # "returning" /\ reader' # "away" /\ delivered' = delivered
    <3>1. Spent' = calls - 1
      BY <1>1, <1>2, <2>1 DEF Spent, WaitingNow
    <3>2. Occ(delivered', EnterReleases) = Occ(delivered, EnterReleases)
      BY <2>1
    <3>. QED
      BY <1>1, <1>4, <1>6, <1>7, <3>1, <3>2 DEF BreakpointInv
  <2>2. CASE /\ reader' = "returning" /\ key' \in Key /\ delivered' = Append(delivered, key')
             /\ Received' = delivered'
    <3>1. Spent' = calls - 1 + hit
      BY <1>1, <1>2, <2>2 DEF Spent, WaitingNow, IsEnterRelease, EnterReleases
    <3>2. Occ(Append(delivered, key'), EnterReleases) = Occ(delivered, EnterReleases) + hit
      BY <1>1, <2>2, OccurrencesAppend
    <3>3. Occ(delivered', EnterReleases) = Occ(delivered, EnterReleases) + hit
      BY <2>2, <3>2
    <3>4. Occ(delivered', EnterReleases) <= Occ(Received', EnterReleases)
      <4>1. Occ(Received', EnterReleases) = Occ(delivered', EnterReleases)
        BY <2>2
      <4>2. Occ(Received', EnterReleases) \in Nat
        BY <1>4
      <4>. QED
        BY <4>1, <4>2
    <3>5. Spent' <= Occ(delivered', EnterReleases)
      <4>1. Spent <= Occ(delivered, EnterReleases) /\ Spent = calls - 1
        BY <1>6, <1>7 DEF BreakpointInv
      <4>2. hit \in {0, 1} /\ calls \in Nat /\ Occ(delivered, EnterReleases) \in Nat
        BY <1>1
      <4> HIDE DEF hit
      <4>. QED
        BY <3>1, <3>3, <4>1, <4>2
    <3>. QED
      BY <3>4, <3>5
  <2>. QED
    BY <2>1, <2>2, ReadMoves
<1>. QED
  BY <1>2, <1>5, <1>8 DEF BreakpointInv, Occ

LEMMA KbrCounts ==
  ASSUME IInv, BreakpointInv, KbrCall \/ Kbr
  PROVE  BreakpointInv'
<1>1. ASSUME KbrCall \/ KbrDecide \/ (KbdReadTest /\ UNCHANGED kbdVars)
      PROVE  BreakpointInv'
  <2>1. /\ Received' = Received /\ Contents' = Contents /\ delivered' = delivered
        /\ Pending' = Pending /\ typed' = typed
    BY <1>1, SamePending DEF KbrCall, KbrDecide, KbdReadTest, kbdVars, ringVars,
                             Received, Contents, Count
  <2>2. calls \in Nat
    BY Countable
  <2>3. Spent' = Spent
    BY <1>1, <2>2 DEF KbrCall, KbrDecide, KbdReadTest, kbdVars, Spent, WaitingNow
  <2>. QED
    BY <2>1, <2>3 DEF BreakpointInv, Occ
<1>2. CASE KbrRead
  BY <1>1, <1>2, ReadCounts DEF KbrRead, KbdReadCopy, KbdReadAdvance
<1>. QED
  BY <1>1, <1>2 DEF Kbr

LEMMA BreakpointInit == Init => BreakpointInv
<1> SUFFICES ASSUME Init PROVE BreakpointInv
  OBVIOUS
<1>1. Count = 0
  BY CountValue, SizeAssumption DEF Init, RingInit, Slots
<1>2. Contents = << >> /\ Received = << >> /\ delivered = << >> /\ typed = << >> /\ Pending = << >>
  BY <1>1, ConcatEmptySeq DEF Contents, Received, Pending, Init, RingInit, ReadInit
<1>3. Spent = 0
  BY DEF Spent, WaitingNow, Init, ReadInit
<1>. QED
  BY <1>2, <1>3, OccurrencesEmpty DEF BreakpointInv

LEMMA BreakpointStep == IInv /\ BreakpointInv /\ [Next]_vars => BreakpointInv'
BY StrokeCounts, AsideCounts, ByteCounts, KbrCounts DEF Next, Handler

(* However the reader and the handler interleave, whatever is garbled and  *)
(* however full the ring: a release of Enter passes at most one breakpoint *)
(* (KBD.C:335-355).                                                        *)
THEOREM ReleasePassesOneBreakpoint == Spec => []OneReleaseOneBreakpoint
<1>1. IInv /\ BreakpointInv => OneReleaseOneBreakpoint
  <2> SUFFICES ASSUME IInv, BreakpointInv PROVE OneReleaseOneBreakpoint
    OBVIOUS
  <2>1. Occ(typed, EnterReleases) = Releases(typed)
    <3>1. \A i \in DOMAIN typed : typed[i] \in EnterReleases <=>
            typed[i].code = Enter /\ ~typed[i].pressed
      BY DEF EnterReleases, BreakpointInv
    <3>2. {i \in DOMAIN typed : typed[i] \in EnterReleases}
            = {i \in DOMAIN typed : typed[i].code = Enter /\ ~typed[i].pressed}
      BY <3>1
    <3>. QED
      BY <3>2 DEF Occ, Releases
  <2>2. calls - WaitingNow <= Spent
    BY Countable DEF Spent, WaitingNow
  <2>3. /\ Occ(typed, EnterReleases) \in Nat
        /\ Occ(Pending, EnterBreak) \in Nat /\ Occ(Received, EnterReleases) \in Nat
        /\ Occ(Contents, EnterReleases) \in Nat /\ Occ(delivered, EnterReleases) \in Nat
        /\ calls \in Nat /\ Spent \in Int
    BY Countable, OccurrencesFinite DEF BreakpointInv
  <2>4. calls - WaitingNow \in Int
    BY <2>3 DEF WaitingNow
  <2>. QED
    BY <2>1, <2>2, <2>3, <2>4 DEF BreakpointInv, OneReleaseOneBreakpoint
<1>. QED
  BY InitIInv, NextPreservesIInv, BreakpointInit, BreakpointStep, <1>1, PTL DEF Spec

-----------------------------------------------------------------------------
(***************************************************************************)
(* Translation.  A run of the parser over a string of bytes: from parse    *)
(* state s with events e handed over, to t and f.  What was handed over at *)
(* any point of it is the beginning of f.                                  *)
(***************************************************************************)
Starts(e, f) == \E g \in Seq(Key) : f = e \o g

Run(bytes, s, e, t, f) ==
  \E st \in [0 .. Len(bytes) -> ParseState], ev \in [0 .. Len(bytes) -> Seq(Key)] :
    /\ st[0] = s /\ ev[0] = e
    /\ st[Len(bytes)] = t /\ ev[Len(bytes)] = f
    /\ \A n \in 1 .. Len(bytes) : /\ st[n] = After(st[n - 1], bytes[n])
                                  /\ ev[n] = ev[n - 1] \o Emits(st[n - 1], bytes[n])
    /\ \A n \in 0 .. Len(bytes) : Starts(ev[n], f)

LEMMA StartsReflexive ==
  ASSUME NEW e \in Seq(Key)
  PROVE  Starts(e, e)
<1>1. << >> \in Seq(Key) /\ e = e \o << >>
  BY ConcatEmptySeq
<1>. QED
  BY <1>1 DEF Starts

LEMMA StartsTransitive ==
  ASSUME NEW e \in Seq(Key), NEW f, NEW g, Starts(e, f), Starts(f, g)
  PROVE  Starts(e, g)
<1>1. PICK x \in Seq(Key) : f = e \o x
  BY DEF Starts
<1>2. PICK y \in Seq(Key) : g = f \o y
  BY DEF Starts
<1>3. x \o y \in Seq(Key) /\ g = e \o (x \o y)
  BY <1>1, <1>2, ConcatProperties, ConcatAssociative
<1>. QED
  BY <1>3 DEF Starts

LEMMA StartsIsPrefix ==
  ASSUME NEW e \in Seq(Key), NEW f \in Seq(Key), Starts(e, f)
  PROVE  IsPrefixOf(e, f)
<1>1. PICK x \in Seq(Key) : f = e \o x
  BY DEF Starts
<1>2. /\ Len(e) \in Nat /\ Len(x) \in Nat /\ Len(f) = Len(e) + Len(x)
      /\ \A i \in 1 .. Len(e) : f[i] = e[i]
  <2>1. /\ Len(e \o x) = Len(e) + Len(x)
        /\ \A i \in 1 .. Len(e) + Len(x) : (e \o x)[i] = IF i <= Len(e) THEN e[i] ELSE x[i - Len(e)]
    BY ConcatProperties
  <2>2. Len(e) \in Nat /\ Len(x) \in Nat
    OBVIOUS
  <2>. QED
    BY <1>1, <2>1, <2>2
<1>3. \A i \in 1 .. Len(e) : f[i] \in Key
  BY <1>2
<1>4. /\ SubSeq(f, 1, Len(e)) \in Seq(Key)
      /\ Len(SubSeq(f, 1, Len(e))) = IF 1 <= Len(e) THEN Len(e) - 1 + 1 ELSE 0
      /\ \A i \in 1 .. Len(e) - 1 + 1 : SubSeq(f, 1, Len(e))[i] = f[1 + i - 1]
  BY <1>2, <1>3, SubSeqProperties
<1>5. Len(SubSeq(f, 1, Len(e))) = Len(e) /\ \A i \in 1 .. Len(e) : SubSeq(f, 1, Len(e))[i] = e[i]
  BY <1>2, <1>4
<1>6. e = SubSeq(f, 1, Len(e))
  BY <1>4, <1>5, SeqEqual
<1>. QED
  BY <1>2, <1>6 DEF IsPrefixOf

LEMMA EmitsKeys ==
  ASSUME NEW s \in ParseState, NEW b \in Bytes
  PROVE  Emits(s, b) \in Seq(Key)
<1>1. Emits(s, b) = << >> \/ \E e : Emits(s, b) = <<e>>
  BY KindIsOneOf DEF Emits
<1>2. CASE Emits(s, b) = << >>
  BY <1>2
<1>3. ASSUME NEW e, Emits(s, b) = <<e>> PROVE Emits(s, b) \in Seq(Key)
  <2>1. Emits(s, b) # << >> /\ Emits(s, b)[1] = e
    BY <1>3
  <2>2. e \in Key
    BY <2>1, EventIsKey
  <2>. QED
    BY <1>3, <2>2
<1>. QED
  BY <1>1, <1>2, <1>3

LEMMA RunEnds ==
  ASSUME NEW bytes \in Seq(Bytes), NEW s, NEW e, NEW t, NEW f, Run(bytes, s, e, t, f)
  PROVE  /\ s \in ParseState /\ t \in ParseState /\ e \in Seq(Key) /\ f \in Seq(Key)
         /\ Starts(e, f)
         /\ bytes = << >> => s = t /\ e = f
<1>1. PICK st \in [0 .. Len(bytes) -> ParseState], ev \in [0 .. Len(bytes) -> Seq(Key)] :
        /\ st[0] = s /\ ev[0] = e
        /\ st[Len(bytes)] = t /\ ev[Len(bytes)] = f
        /\ \A n \in 0 .. Len(bytes) : Starts(ev[n], f)
  BY DEF Run
<1>2. Len(bytes) \in Nat /\ 0 \in 0 .. Len(bytes) /\ Len(bytes) \in 0 .. Len(bytes)
      /\ (bytes = << >> => Len(bytes) = 0)
  OBVIOUS
<1>. QED
  BY <1>1, <1>2

LEMMA RunNothing ==
  ASSUME NEW s \in ParseState, NEW e \in Seq(Key)
  PROVE  Run(<< >>, s, e, s, e)
<1> DEFINE st == [n \in 0 .. 0 |-> s]
           ev == [n \in 0 .. 0 |-> e]
<1>1. Len(<< >>) = 0 /\ st \in [0 .. 0 -> ParseState] /\ ev \in [0 .. 0 -> Seq(Key)]
      /\ st[0] = s /\ ev[0] = e
  OBVIOUS
<1>2. \A n \in 0 .. 0 : Starts(ev[n], e)
  BY StartsReflexive
<1> HIDE DEF st, ev
<1>3. \A n \in 1 .. 0 : FALSE
  OBVIOUS
<1>. QED
  BY <1>1, <1>2, <1>3 DEF Run

LEMMA KeysAssociate ==
  ASSUME NEW x \in Seq(Key), NEW y \in Seq(Key), NEW z \in Seq(Key)
  PROVE  (x \o y) \o z = x \o (y \o z)
BY ConcatAssociative

(* What was handed over before does not matter.                            *)
LEMMA RunAfter ==
  ASSUME NEW bytes \in Seq(Bytes), NEW s, NEW t, NEW f, Run(bytes, s, << >>, t, f),
         NEW e \in Seq(Key)
  PROVE  Run(bytes, s, e, t, e \o f)
<1> DEFINE N == Len(bytes)
<1>1. N \in Nat
  OBVIOUS
<1>2. PICK st \in [0 .. N -> ParseState], ev \in [0 .. N -> Seq(Key)] :
        /\ st[0] = s /\ ev[0] = << >> /\ st[N] = t /\ ev[N] = f
        /\ \A n \in 1 .. N : /\ st[n] = After(st[n - 1], bytes[n])
                             /\ ev[n] = ev[n - 1] \o Emits(st[n - 1], bytes[n])
        /\ \A n \in 0 .. N : Starts(ev[n], f)
  BY DEF Run
<1> DEFINE ew == [n \in 0 .. N |-> e \o ev[n]]
<1>3. ew \in [0 .. N -> Seq(Key)] /\ ew[0] = e /\ ew[N] = e \o f
  <2>1. \A n \in 0 .. N : e \o ev[n] \in Seq(Key)
    BY <1>2, ConcatProperties
  <2>2. e \o << >> = e
    BY ConcatEmptySeq
  <2>. QED
    BY <1>1, <1>2, <2>1, <2>2
<1>4. ASSUME NEW n \in 1 .. N PROVE ew[n] = ew[n - 1] \o Emits(st[n - 1], bytes[n])
  <2>0. n - 1 \in 0 .. N /\ n \in 0 .. N /\ bytes[n] \in Bytes
    BY <1>1
  <2>1. n - 1 \in 0 .. N /\ n \in 0 .. N /\ bytes[n] \in Bytes /\ st[n - 1] \in ParseState
        /\ ev[n - 1] \in Seq(Key)
    BY <2>0
  <2>2. Emits(st[n - 1], bytes[n]) \in Seq(Key)
    BY <2>1, EmitsKeys
  <2>3. (e \o ev[n - 1]) \o Emits(st[n - 1], bytes[n]) = e \o (ev[n - 1] \o Emits(st[n - 1], bytes[n]))
    BY <2>1, <2>2, KeysAssociate, Zenon
  <2>. QED
    BY <1>2, <2>1, <2>3
<1>5. ASSUME NEW n \in 0 .. N PROVE Starts(ew[n], e \o f)
  <2>1. PICK g \in Seq(Key) : f = ev[n] \o g
    BY <1>2 DEF Starts
  <2>2. e \o f = (e \o ev[n]) \o g
    <3>1. ev[n] \in Seq(Key)
      BY <1>2
    <3>2. (e \o ev[n]) \o g = e \o (ev[n] \o g)
      BY <3>1, KeysAssociate, Zenon
    <3>. QED
      BY <2>1, <3>2, Zenon
  <2>. QED
    BY <2>2 DEF Starts
<1> HIDE DEF ew
<1>. QED
  BY <1>2, <1>3, <1>4, <1>5 DEF Run

(* A run goes on where another ended.                                      *)
LEMMA RunConcat ==
  ASSUME NEW a \in Seq(Bytes), NEW b \in Seq(Bytes), NEW s, NEW e, NEW t, NEW f, NEW u, NEW g,
         Run(a, s, e, t, f), Run(b, t, f, u, g)
  PROVE  Run(a \o b, s, e, u, g)
<1> DEFINE M == Len(a)
           N == Len(b)
<1>1. /\ M \in Nat /\ N \in Nat /\ Len(a \o b) = M + N
      /\ \A i \in 1 .. M : (a \o b)[i] = a[i]
      /\ \A i \in (M + 1) .. (M + N) : (a \o b)[i] = b[i - M]
  <2>1. /\ Len(a \o b) = M + N
        /\ \A i \in 1 .. M + N : (a \o b)[i] = IF i <= M THEN a[i] ELSE b[i - M]
    BY ConcatProperties
  <2>2. M \in Nat /\ N \in Nat
    OBVIOUS
  <2>. QED
    BY <2>1, <2>2
<1>2. PICK st \in [0 .. M -> ParseState], ev \in [0 .. M -> Seq(Key)] :
        /\ st[0] = s /\ ev[0] = e /\ st[M] = t /\ ev[M] = f
        /\ \A n \in 1 .. M : /\ st[n] = After(st[n - 1], a[n])
                             /\ ev[n] = ev[n - 1] \o Emits(st[n - 1], a[n])
        /\ \A n \in 0 .. M : Starts(ev[n], f)
  BY DEF Run
<1>3. PICK su \in [0 .. N -> ParseState], ew \in [0 .. N -> Seq(Key)] :
        /\ su[0] = t /\ ew[0] = f /\ su[N] = u /\ ew[N] = g
        /\ \A n \in 1 .. N : /\ su[n] = After(su[n - 1], b[n])
                             /\ ew[n] = ew[n - 1] \o Emits(su[n - 1], b[n])
        /\ \A n \in 0 .. N : Starts(ew[n], g)
  BY DEF Run
<1> HIDE DEF M, N
<1> DEFINE sv == [n \in 0 .. (M + N) |-> IF n <= M THEN st[n] ELSE su[n - M]]
           ex == [n \in 0 .. (M + N) |-> IF n <= M THEN ev[n] ELSE ew[n - M]]
<1>4. \A n \in 0 .. (M + N) : IF n <= M THEN n \in 0 .. M ELSE n - M \in 0 .. N
  BY <1>1
<1>5. sv \in [0 .. (M + N) -> ParseState] /\ ex \in [0 .. (M + N) -> Seq(Key)]
  BY <1>4
<1>6. sv[0] = s /\ ex[0] = e /\ sv[M + N] = u /\ ex[M + N] = g
  <2>1. 0 \in 0 .. (M + N) /\ 0 <= M /\ M + N \in 0 .. (M + N)
    BY <1>1
  <2>2. sv[0] = st[0] /\ ex[0] = ev[0]
    BY <2>1
  <2>3. CASE N = 0
    <3>1. M + N = M /\ M + N <= M
      BY <1>1, <2>3
    <3>2. sv[M + N] = st[M] /\ ex[M + N] = ev[M]
      BY <2>1, <3>1
    <3>3. t = u /\ f = g
      BY <1>3, <2>3
    <3>. QED
      BY <1>2, <2>2, <3>2, <3>3
  <2>4. CASE N # 0
    <3>1. ~(M + N <= M) /\ (M + N) - M = N
      BY <1>1, <2>4
    <3>2. sv[M + N] = su[N] /\ ex[M + N] = ew[N]
      BY <2>1, <3>1
    <3>. QED
      BY <1>2, <1>3, <2>2, <3>2
  <2>. QED
    BY <2>3, <2>4
<1>7. ASSUME NEW n \in 1 .. (M + N)
      PROVE  /\ sv[n] = After(sv[n - 1], (a \o b)[n])
             /\ ex[n] = ex[n - 1] \o Emits(sv[n - 1], (a \o b)[n])
  <2>1. CASE n <= M
    <3>1. n \in 1 .. M /\ n - 1 <= M /\ n \in 0 .. (M + N) /\ n - 1 \in 0 .. (M + N)
      BY <1>1, <2>1
    <3>2. sv[n] = st[n] /\ sv[n - 1] = st[n - 1] /\ ex[n] = ev[n] /\ ex[n - 1] = ev[n - 1]
      BY <2>1, <3>1
    <3>. QED
      BY <1>1, <1>2, <3>1, <3>2
  <2>2. CASE n > M
    <3>1. /\ n - M \in 1 .. N /\ n \in (M + 1) .. (M + N) /\ (n - M) - 1 = (n - 1) - M
          /\ n \in 0 .. (M + N) /\ n - 1 \in 0 .. (M + N) /\ ~(n <= M)
      BY <1>1, <2>2
    <3>2. sv[n] = su[n - M] /\ ex[n] = ew[n - M]
      BY <3>1
    <3>3. sv[n - 1] = su[(n - M) - 1] /\ ex[n - 1] = ew[(n - M) - 1]
      <4>1. CASE n - 1 <= M
        <5>1. n - 1 = M /\ (n - M) - 1 = 0
          BY <1>1, <2>2, <4>1
        <5>. QED
          BY <1>2, <1>3, <3>1, <4>1, <5>1
      <4>2. CASE ~(n - 1 <= M)
        BY <3>1, <4>2
      <4>. QED
        BY <4>1, <4>2
    <3>. QED
      BY <1>1, <1>3, <3>1, <3>2, <3>3
  <2>3. n <= M \/ n > M
    BY <1>1
  <2>. QED
    BY <2>1, <2>2, <2>3
<1>8. ASSUME NEW n \in 0 .. (M + N) PROVE Starts(ex[n], g)
  <2>1. CASE n <= M
    <3>1. ex[n] = ev[n] /\ n \in 0 .. M
      BY <1>4, <2>1
    <3>2. Starts(f, g)
      BY <1>1, <1>3
    <3>. QED
      BY <1>2, <3>1, <3>2, StartsTransitive
  <2>2. CASE ~(n <= M)
    BY <1>3, <1>4, <2>2
  <2>. QED
    BY <2>1, <2>2
<1> HIDE DEF sv, ex
<1> DEFINE c == a \o b
<1>9. /\ Len(c) = M + N
      /\ sv \in [0 .. Len(c) -> ParseState] /\ ex \in [0 .. Len(c) -> Seq(Key)]
      /\ sv[0] = s /\ ex[0] = e /\ sv[Len(c)] = u /\ ex[Len(c)] = g
  BY <1>1, <1>5, <1>6
<1>10. \A n \in 1 .. Len(c) : /\ sv[n] = After(sv[n - 1], c[n])
                              /\ ex[n] = ex[n - 1] \o Emits(sv[n - 1], c[n])
  BY <1>7, <1>9
<1>11. \A n \in 0 .. Len(c) : Starts(ex[n], g)
  BY <1>8, <1>9
<1> HIDE DEF c
<1>12. Run(c, s, e, u, g)
  BY <1>9, <1>10, <1>11 DEF Run
<1>. QED
  BY <1>12 DEF c

(* The first byte of a run taken, the rest of it remains.                  *)
LEMMA RunTail ==
  ASSUME NEW a \in Seq(Bytes), a # << >>, NEW s, NEW e, NEW t, NEW f, Run(a, s, e, t, f)
  PROVE  Run(Tail(a), After(s, Head(a)), e \o Emits(s, Head(a)), t, f)
<1> DEFINE N == Len(a)
<1>1. /\ N \in Nat \ {0} /\ Head(a) = a[1] /\ Len(Tail(a)) = N - 1
      /\ \A i \in 1 .. (N - 1) : Tail(a)[i] = a[i + 1]
  <2>1. N \in Nat \ {0} /\ Head(a) = a[1]
    OBVIOUS
  <2>. QED
    BY <2>1, HeadTailProperties
<1>2. PICK st \in [0 .. N -> ParseState], ev \in [0 .. N -> Seq(Key)] :
        /\ st[0] = s /\ ev[0] = e /\ st[N] = t /\ ev[N] = f
        /\ \A n \in 1 .. N : /\ st[n] = After(st[n - 1], a[n])
                             /\ ev[n] = ev[n - 1] \o Emits(st[n - 1], a[n])
        /\ \A n \in 0 .. N : Starts(ev[n], f)
  BY DEF Run
<1> HIDE DEF N
<1> DEFINE su == [n \in 0 .. (N - 1) |-> st[n + 1]]
           ew == [n \in 0 .. (N - 1) |-> ev[n + 1]]
<1>3. \A n \in 0 .. (N - 1) : n + 1 \in 1 .. N /\ n + 1 \in 0 .. N
  BY <1>1
<1>4. su \in [0 .. (N - 1) -> ParseState] /\ ew \in [0 .. (N - 1) -> Seq(Key)]
  BY <1>3
<1>5. /\ su[0] = After(s, Head(a)) /\ ew[0] = e \o Emits(s, Head(a))
      /\ su[N - 1] = t /\ ew[N - 1] = f
  <2>1. 0 \in 0 .. (N - 1) /\ N - 1 \in 0 .. (N - 1) /\ (N - 1) + 1 = N /\ 0 + 1 = 1
        /\ 1 \in 1 .. N /\ 1 - 1 = 0
    BY <1>1
  <2>. QED
    BY <1>1, <1>2, <2>1
<1>6. ASSUME NEW n \in 1 .. (N - 1)
      PROVE  /\ su[n] = After(su[n - 1], Tail(a)[n])
             /\ ew[n] = ew[n - 1] \o Emits(su[n - 1], Tail(a)[n])
  <2>1. /\ n \in 0 .. (N - 1) /\ n - 1 \in 0 .. (N - 1) /\ (n - 1) + 1 = n
        /\ n + 1 \in 1 .. N /\ (n + 1) - 1 = n
    BY <1>1
  <2>2. su[n] = st[n + 1] /\ su[n - 1] = st[n] /\ ew[n] = ev[n + 1] /\ ew[n - 1] = ev[n]
    BY <2>1
  <2>3. Tail(a)[n] = a[n + 1]
    BY <1>1
  <2>4. st[n + 1] = After(st[(n + 1) - 1], a[n + 1])
        /\ ev[n + 1] = ev[(n + 1) - 1] \o Emits(st[(n + 1) - 1], a[n + 1])
    BY <1>2, <2>1
  <2>. QED
    BY <2>1, <2>2, <2>3, <2>4
<1>7. \A n \in 0 .. (N - 1) : Starts(ew[n], f)
  BY <1>2, <1>3
<1> HIDE DEF su, ew
<1>. QED
  BY <1>1, <1>4, <1>5, <1>6, <1>7 DEF Run

-----------------------------------------------------------------------------
(* Parsing is defined by recursion on the position in the string.  That it *)
(* is what its definition says, and what holds of it, is shown by looking  *)
(* at the first position where it would fail.                              *)
LEMMA SmallestOfSome ==
  ASSUME NEW S \in SUBSET Nat, S # {}
  PROVE  \E n \in S : \A m \in S : n <= m
<1> DEFINE Less == OpToRel(<, Nat)
<1>1. IsWellFoundedOn(Less, Nat)
  BY NatLessThanWellFounded
<1>2. PICK n \in S : \A m \in S : ~ (<<m, n>> \in Less)
  <2> HIDE DEF Less
  <2>. QED
    BY <1>1, WFMin
<1>3. ASSUME NEW m \in S PROVE n <= m
  <2>1. n \in Nat /\ m \in Nat
    OBVIOUS
  <2>2. m < n => <<m, n>> \in Less
    BY <2>1 DEF OpToRel
  <2> HIDE DEF Less
  <2>. QED
    BY <1>2, <2>1, <2>2
<1>. QED
  BY <1>3

ParsedAt(start, bytes, p, n) ==
  IF n = 0 THEN [state |-> start, events |-> << >>]
  ELSE [state |-> After(p[n - 1].state, bytes[n]),
        events |-> p[n - 1].events \o Emits(p[n - 1].state, bytes[n])]

LEMMA ParsingExists ==
  ASSUME NEW start, NEW bytes, NEW N \in Nat
  PROVE  \E p : p = [n \in 0 .. N |-> ParsedAt(start, bytes, p, n)]
<1> DEFINE Good(m) == \E p : p = [n \in 0 .. m |-> ParsedAt(start, bytes, p, n)]
           Bad == {m \in Nat : ~Good(m)}
<1>1. SUFFICES Bad = {}
  OBVIOUS
<1>2. SUFFICES ASSUME Bad # {} PROVE FALSE
  OBVIOUS
<1>3. PICK m \in Bad : \A k \in Bad : m <= k
  <2>1. Bad \in SUBSET Nat
    OBVIOUS
  <2> HIDE DEF Bad
  <2>. QED
    BY <1>2, <2>1, SmallestOfSome
<1>4. m \in Nat /\ ~Good(m)
  OBVIOUS
<1>5. CASE m = 0
  <2> DEFINE p == [n \in 0 .. 0 |-> [state |-> start, events |-> << >>]]
  <2>1. ASSUME NEW n \in 0 .. 0 PROVE ParsedAt(start, bytes, p, n) = [state |-> start, events |-> << >>]
    <3>1. n = 0
      OBVIOUS
    <3>. QED
      BY <3>1 DEF ParsedAt
  <2>2. p = [n \in 0 .. 0 |-> ParsedAt(start, bytes, p, n)]
    BY <2>1
  <2>. QED
    BY <1>4, <1>5, <2>2
<1>6. CASE m # 0
  <2>1. m - 1 \in Nat /\ ~(m <= m - 1)
    BY <1>4, <1>6
  <2>2. Good(m - 1)
    BY <1>3, <2>1
  <2>3. PICK p : p = [n \in 0 .. (m - 1) |-> ParsedAt(start, bytes, p, n)]
    BY <2>2
  <2> DEFINE q == [n \in 0 .. m |-> IF n <= m - 1 THEN p[n] ELSE ParsedAt(start, bytes, p, n)]
  <2>4. ASSUME NEW n \in 0 .. m PROVE ParsedAt(start, bytes, q, n) = ParsedAt(start, bytes, p, n)
    <3>1. CASE n = 0
      BY <3>1 DEF ParsedAt
    <3>2. CASE n # 0
      <4>1. n - 1 \in 0 .. m /\ n - 1 <= m - 1
        BY <1>4, <3>2
      <4>2. q[n - 1] = p[n - 1]
        BY <4>1
      <4> HIDE DEF q
      <4>. QED
        BY <3>2, <4>2 DEF ParsedAt
    <3>. QED
      BY <3>1, <3>2
  <2>5. ASSUME NEW n \in 0 .. m PROVE q[n] = ParsedAt(start, bytes, q, n)
    <3>1. q[n] = ParsedAt(start, bytes, p, n)
      <4>1. CASE n <= m - 1
        <5>1. n \in 0 .. (m - 1)
          BY <1>4, <2>1, <4>1
        <5>2. p[n] = ParsedAt(start, bytes, p, n)
          BY <2>3, <5>1
        <5>. QED
          BY <4>1, <5>2
      <4>2. CASE ~(n <= m - 1)
        BY <4>2
      <4>. QED
        BY <4>1, <4>2
    <3> HIDE DEF q
    <3>. QED
      BY <2>4, <3>1
  <2>6. q = [n \in 0 .. m |-> q[n]]
    OBVIOUS
  <2>7. q = [n \in 0 .. m |-> ParsedAt(start, bytes, q, n)]
    <3> HIDE DEF q
    <3>. QED
      BY <2>5, <2>6
  <2>. QED
    BY <1>4, <2>7
<1>. QED
  BY <1>5, <1>6

LEMMA ParsingSteps ==
  ASSUME NEW start, NEW bytes \in Seq(Bytes)
  PROVE  \A n \in 0 .. Len(bytes) : Parsing(start, bytes)[n] = ParsedAt(start, bytes, Parsing(start, bytes), n)
<1> DEFINE N == Len(bytes)
<1>1. N \in Nat
  OBVIOUS
<1>2. \E p : p = [n \in 0 .. N |-> ParsedAt(start, bytes, p, n)]
  BY <1>1, ParsingExists
<1>3. Parsing(start, bytes) = CHOOSE p : p = [n \in 0 .. N |-> ParsedAt(start, bytes, p, n)]
  BY DEF Parsing, ParsedAt
<1>4. Parsing(start, bytes) = [n \in 0 .. N |-> ParsedAt(start, bytes, Parsing(start, bytes), n)]
  BY <1>2, <1>3
<1>. QED
  BY <1>4

LEMMA ParsingNext ==
  ASSUME NEW start, NEW bytes \in Seq(Bytes), NEW n \in 1 .. Len(bytes)
  PROVE  /\ Parsing(start, bytes)[n].state = After(Parsing(start, bytes)[n - 1].state, bytes[n])
         /\ Parsing(start, bytes)[n].events = Parsing(start, bytes)[n - 1].events
                                         \o Emits(Parsing(start, bytes)[n - 1].state, bytes[n])
<1> DEFINE P == Parsing(start, bytes)
           s == After(P[n - 1].state, bytes[n])
           e == P[n - 1].events \o Emits(P[n - 1].state, bytes[n])
<1>1. n \in 0 .. Len(bytes) /\ n # 0
  OBVIOUS
<1>2. P[n] = ParsedAt(start, bytes, P, n)
  BY <1>1, ParsingSteps
<1>3. P[n] = [state |-> s, events |-> e]
  <2> HIDE DEF P
  <2>. QED
    BY <1>1, <1>2 DEF ParsedAt
<1>4. P[n].state = s /\ P[n].events = e
  <2> HIDE DEF P, s, e
  <2>. QED
    BY <1>3
<1>. QED
  BY <1>4

LEMMA ParsingIsRun ==
  ASSUME NEW start \in ParseState, NEW bytes \in Seq(Bytes), NEW events, NEW end,
         Parsing(start, bytes)[Len(bytes)] = [state |-> end, events |-> events]
  PROVE  Run(bytes, start, << >>, end, events)
<1> DEFINE N == Len(bytes)
           P == Parsing(start, bytes)
           Typed(n) == P[n].state \in ParseState /\ P[n].events \in Seq(Key)
           Begun(n) == Starts(P[n].events, events)
<1>1. N \in Nat
  OBVIOUS
<1>2. P[0] = [state |-> start, events |-> << >>]
  <2>1. 0 \in 0 .. N
    BY <1>1
  <2>2. P[0] = ParsedAt(start, bytes, P, 0)
    BY <2>1, ParsingSteps
  <2> HIDE DEF P
  <2>. QED
    BY <2>2 DEF ParsedAt
<1>3. ASSUME NEW n \in 1 .. N
      PROVE  /\ P[n].state = After(P[n - 1].state, bytes[n])
             /\ P[n].events = P[n - 1].events \o Emits(P[n - 1].state, bytes[n])
  BY <1>1, ParsingNext
<1>4. P[N] = [state |-> end, events |-> events]
  OBVIOUS
<1> HIDE DEF P
<1>5. \A n \in 0 .. N : Typed(n)
  <2> DEFINE Bad == {n \in 0 .. N : ~Typed(n)}
  <2>1. SUFFICES ASSUME Bad # {} PROVE FALSE
    OBVIOUS
  <2>2. PICK n \in Bad : \A m \in Bad : n <= m
    <3>1. Bad \in SUBSET Nat
      BY <1>1
    <3> HIDE DEF Bad
    <3>. QED
      BY <2>1, <3>1, SmallestOfSome
  <2>3. n \in 0 .. N /\ ~Typed(n)
    OBVIOUS
  <2>4. Typed(0)
    BY <1>2
  <2>5. n \in 1 .. N /\ n - 1 \in 0 .. N /\ ~(n <= n - 1)
    BY <1>1, <2>3, <2>4
  <2>6. Typed(n - 1)
    BY <2>2, <2>5
  <2>7. bytes[n] \in Bytes
    BY <2>5
  <2>8. After(P[n - 1].state, bytes[n]) \in ParseState /\ Emits(P[n - 1].state, bytes[n]) \in Seq(Key)
    BY <2>6, <2>7, StateAfterByte, EmitsKeys
  <2>. QED
    BY <1>3, <2>3, <2>5, <2>6, <2>8, ConcatProperties
<1>6. \A n \in 0 .. N : Begun(n)
  <2> DEFINE Bad == {d \in 0 .. N : ~Begun(N - d)}
  <2>1. SUFFICES ASSUME Bad # {} PROVE FALSE
    <3>1. \A n \in 0 .. N : N - n \in 0 .. N /\ N - (N - n) = n
      BY <1>1
    <3>. QED
      BY <2>1, <3>1
  <2>2. PICK d \in Bad : \A m \in Bad : d <= m
    <3>1. Bad \in SUBSET Nat
      BY <1>1
    <3> HIDE DEF Bad
    <3>. QED
      BY <2>1, <3>1, SmallestOfSome
  <2>3. d \in 0 .. N /\ ~Begun(N - d)
    OBVIOUS
  <2>4. Begun(N)
    <3>1. Typed(N)
      BY <1>1, <1>5
    <3>. QED
      BY <1>4, <3>1, StartsReflexive
  <2>5. N - 0 = N
    BY <1>1
  <2>6. /\ d - 1 \in 0 .. N /\ ~(d <= d - 1) /\ N - (d - 1) = (N - d) + 1
        /\ (N - d) + 1 \in 1 .. N /\ ((N - d) + 1) - 1 = N - d
        /\ N - d \in 0 .. N /\ (N - d) + 1 \in 0 .. N
    BY <1>1, <2>3, <2>4, <2>5
  <2>7. Begun((N - d) + 1)
    BY <2>2, <2>6
  <2>8. P[(N - d) + 1].events = P[N - d].events \o Emits(P[N - d].state, bytes[(N - d) + 1])
    BY <1>3, <2>6
  <2>9. Typed(N - d) /\ Typed((N - d) + 1) /\ bytes[(N - d) + 1] \in Bytes
    BY <1>5, <2>6
  <2>10. Starts(P[N - d].events, P[(N - d) + 1].events)
    BY <2>8, <2>9, EmitsKeys DEF Starts
  <2>. QED
    BY <2>3, <2>7, <2>9, <2>10, StartsTransitive
<1> DEFINE st == [n \in 0 .. N |-> P[n].state]
           ev == [n \in 0 .. N |-> P[n].events]
<1>7. st \in [0 .. N -> ParseState] /\ ev \in [0 .. N -> Seq(Key)]
  BY <1>5
<1>8. st[0] = start /\ ev[0] = << >> /\ st[N] = end /\ ev[N] = events
  BY <1>1, <1>2, <1>4
<1>9. ASSUME NEW n \in 1 .. N
      PROVE  st[n] = After(st[n - 1], bytes[n]) /\ ev[n] = ev[n - 1] \o Emits(st[n - 1], bytes[n])
  <2>1. n \in 0 .. N /\ n - 1 \in 0 .. N
    BY <1>1
  <2>. QED
    BY <1>3, <2>1
<1>10. \A n \in 0 .. N : Starts(ev[n], events)
  BY <1>6
<1> HIDE DEF st, ev
<1>. QED
  BY <1>7, <1>8, <1>9, <1>10 DEF Run

-----------------------------------------------------------------------------
(* As long as nothing was garbled, handling what is still to come would    *)
(* turn what was handed over into what was typed.                          *)
TranslationInv ==
  /\ garbled \in Nat /\ typed \in Seq(Key)
  /\ buffer # << >> /\ buffer[1].garbled => garbled # 0
  /\ garbled = 0 => Run(Pending, parse, offered, Between(armed), typed)

LEMMA PendingBytes ==
  ASSUME IInv
  PROVE  Pending \in Seq(Bytes) /\ offered \in Seq(Key) /\ parse \in ParseState
<1>1. Pending \in Seq(SentBytes) /\ offered \in Seq(SentEvents) /\ parse \in ParseState
  BY Countable DEF IInv, TypeOK
<1>. QED
  BY <1>1, SentAreKeys, SentEventsAreKeys, SeqMonotonic

LEMMA TranslationInit == Init => TranslationInv
<1> SUFFICES ASSUME Init PROVE TranslationInv
  OBVIOUS
<1>1. /\ wire = << >> /\ buffer = << >> /\ parse = Idle /\ offered = << >> /\ typed = << >>
      /\ garbled = 0 /\ armed = FALSE
  BY DEF Init
<1>2. Pending = << >>
  BY <1>1, ConcatEmptySeq DEF Pending
<1>3. Idle \in ParseState /\ << >> \in Seq(Key)
  BY DEF Idle, ParseState, PauseLength
<1>4. Run(<< >>, Idle, << >>, Idle, << >>)
  BY <1>3, RunNothing
<1>5. Between(FALSE) = Idle
  BY DEF Between, Idle
<1>6. Between(armed) = Idle
  BY <1>1, <1>5
<1>7. Run(Pending, parse, offered, Between(armed), typed)
  BY <1>1, <1>2, <1>4, <1>6
<1>. QED
  BY <1>1, <1>3, <1>7 DEF TranslationInv

LEMMA BetweenTyped == ASSUME NEW waiting \in BOOLEAN PROVE Between(waiting) \in ParseState
BY DEF Between, Idle, ParseState, PauseLength

LEMMA StrokeTranslates ==
  ASSUME IInv, TranslationInv, KeysTranslate, NEW k \in Keyboard, Press(k) \/ Release(k)
  PROVE  TranslationInv'
<1>0. PICK bytes, events, open : Sends(bytes, events, open)
  BY KeySends
<1>1. bytes \in Seq(SentBytes) /\ events \in Seq(Key) /\ armed' = open /\ armed \in BOOLEAN
  BY <1>0 DEF Sends, IInv, TypeOK
<1>2. /\ garbled' = garbled /\ buffer' = buffer /\ parse' = parse /\ offered' = offered
      /\ typed' = typed \o events
  BY <1>0 DEF Sends
<1>3. Pending' = Pending \o bytes
  BY <1>0, <1>1, StrokeBytes
<1>4. /\ bytes \in Seq(Bytes) /\ Pending \in Seq(Bytes) /\ typed \in Seq(Key)
      /\ typed' \in Seq(Key)
  <2>1. bytes \in Seq(Bytes)
    BY <1>1, SentAreKeys, SeqMonotonic
  <2>2. Pending \in Seq(Bytes) /\ typed \in Seq(Key)
    BY PendingBytes DEF TranslationInv
  <2>. QED
    BY <1>1, <1>2, <2>1, <2>2, ConcatProperties
<1>5. Run(bytes, Between(armed), << >>, Between(open), events)
  BY <1>0, <1>1, <1>4, ParsingIsRun, BetweenTyped DEF Sends
<1>6. Run(bytes, Between(armed), typed, Between(open), typed \o events)
  BY <1>4, <1>5, RunAfter
<1>7. ASSUME garbled = 0
      PROVE  Run(Pending \o bytes, parse, offered, Between(open), typed \o events)
  <2>1. Run(Pending, parse, offered, Between(armed), typed)
    BY <1>7 DEF TranslationInv
  <2>. QED
    BY <1>4, <1>6, <2>1, RunConcat
<1>8. garbled' = 0 => Run(Pending', parse', offered', Between(armed'), typed')
  BY <1>1, <1>2, <1>3, <1>7
<1>. QED
  BY <1>2, <1>4, <1>8 DEF TranslationInv, Run

LEMMA ByteTranslates ==
  ASSUME IInv, TranslationInv, IrqByte
  PROVE  TranslationInv'
<1>1. /\ garbled' = garbled /\ typed' = typed /\ armed' = armed /\ buffer' = << >>
      /\ parse' = After(parse, Head(Pending))
      /\ offered' = offered \o Emits(parse, Head(Pending))
      /\ Pending # << >> /\ Pending' = Tail(Pending)
  BY TakenByte DEF IrqByte
<1>2. ASSUME garbled = 0
      PROVE  Run(Tail(Pending), After(parse, Head(Pending)),
                 offered \o Emits(parse, Head(Pending)), Between(armed), typed)
  BY <1>1, <1>2, PendingBytes, RunTail DEF TranslationInv
<1>3. garbled' = 0 => Run(Pending', parse', offered', Between(armed'), typed')
  BY <1>1, <1>2
<1>. QED
  BY <1>1, <1>3 DEF TranslationInv, Run

LEMMA AsideTranslates ==
  ASSUME IInv, TranslationInv,
         \/ Deliver \/ IrqEnter \/ IrqGarbage \/ IrqLeave \/ KbrCall \/ Kbr
         \/ UNCHANGED vars
  PROVE  TranslationInv'
<1>1. parse' = parse /\ offered' = offered /\ typed' = typed /\ armed' = armed
  BY DEF Deliver, IrqEnter, IrqGarbage, IrqLeave, KbrCall, Kbr, KbrRead, KbrDecide, vars, kbdVars
<1>2. garbled \in Nat /\ typed \in Seq(Key)
  BY DEF TranslationInv
<1>3. CASE IrqGarbage
  <2>1. garbled # 0 /\ garbled' = garbled /\ buffer' = << >>
    BY <1>3 DEF IrqGarbage, TranslationInv
  <2>. QED
    BY <1>1, <1>2, <2>1 DEF TranslationInv
<1>4. CASE Deliver
  <2>1. Pending' = Pending
    BY <1>4, DeliverBytes
  <2>2. /\ garbled' \in Nat
        /\ buffer' # << >> /\ buffer'[1].garbled => garbled' # 0
        /\ garbled' = 0 => garbled = 0
    BY <1>2, <1>4 DEF Deliver
  <2>3. garbled' = 0 => Run(Pending', parse', offered', Between(armed'), typed')
    BY <1>1, <2>1, <2>2 DEF TranslationInv
  <2>. QED
    BY <1>1, <1>2, <2>2, <2>3 DEF TranslationInv, Run
<1>5. CASE IrqEnter \/ IrqLeave \/ KbrCall \/ Kbr \/ UNCHANGED vars
  <2>1. wire' = wire /\ buffer' = buffer /\ garbled' = garbled
    BY <1>5 DEF IrqEnter, IrqLeave, KbrCall, Kbr, KbrRead, KbrDecide, vars, kbdVars
  <2>2. Pending' = Pending
    BY <2>1, SamePending
  <2>3. garbled' = 0 => Run(Pending', parse', offered', Between(armed'), typed')
    BY <1>1, <2>1, <2>2 DEF TranslationInv
  <2>. QED
    BY <1>1, <1>2, <2>1, <2>3 DEF TranslationInv, Run
<1>. QED
  BY <1>3, <1>4, <1>5

LEMMA TranslationStep == KeysTranslate /\ IInv /\ TranslationInv /\ [Next]_vars => TranslationInv'
BY StrokeTranslates, ByteTranslates, AsideTranslates DEF Next, Handler

(* If each stroke, taken by itself, stands for the events it is said to,   *)
(* with and without the first half of a Print Screen before it, then so do *)
(* all of them together, in the order they were typed: nothing but that    *)
(* half is left over from one key to the next (KBD.C:126-182).             *)
THEOREM AllStrokesTranslated == KeysTranslate => (Spec => []StrokesTranslated)
<1> SUFFICES ASSUME KeysTranslate PROVE Spec => []StrokesTranslated
  OBVIOUS
<1>1. IInv /\ TranslationInv => StrokesTranslated
  <2> SUFFICES ASSUME IInv, TranslationInv, garbled = 0
               PROVE  /\ IsPrefixOf(offered, typed)
                      /\ Quiet => offered = typed /\ parse = Between(armed)
    BY DEF StrokesTranslated
  <2>1. Run(Pending, parse, offered, Between(armed), typed) /\ Pending \in Seq(Bytes)
        /\ offered \in Seq(Key) /\ typed \in Seq(Key)
    BY PendingBytes DEF TranslationInv
  <2>2. Starts(offered, typed) /\ (Pending = << >> => parse = Between(armed) /\ offered = typed)
    BY <2>1, RunEnds
  <2>3. Quiet => Pending = << >>
    BY ConcatEmptySeq DEF Quiet, Pending
  <2>. QED
    BY <2>1, <2>2, <2>3, StartsIsPrefix
<1>2. IInv /\ TranslationInv /\ [Next]_vars => TranslationInv'
  BY TranslationStep
<1>. QED
  BY InitIInv, NextPreservesIInv, TranslationInit, <1>1, <1>2, PTL DEF Spec
=============================================================================

-------------------------------- MODULE Kbd --------------------------------
(***************************************************************************)
(* The live keyboard driver, src/Shadow/DRV/PS2/KBD.C after KbdInit: the   *)
(* keyboard clocks out bytes, the controller holds one of them in its      *)
(* output buffer and keeps IRQ1 up while it does, the handler drains the   *)
(* buffer and pushes events, and Kbr, the kernel's breakpoint, reads them. *)
(***************************************************************************)
EXTENDS KbdRing, Scancode, FiniteSets

CONSTANTS
  Keyboard,    \* its keys: the strokes that press, repeat and release each
  Enter,       \* the scancode Kbr waits for
  MaxStrokes,  \* bound on presses and releases
  MaxGarbled,  \* bound on bytes that arrive with a parity or timeout error
  MaxCalls     \* bound on calls of Kbr

(* A stroke sends bytes.  The events they stand for, and whether they     *)
(* leave the handler waiting for the second half of a Print Screen, may    *)
(* depend on whether it is waiting already.                                *)
StrokeType == [bytes : Seq(Bytes), events : [BOOLEAN -> Seq(Key)], arms : [BOOLEAN -> BOOLEAN]]
StrokesOf(k) == {k.press, k.repeat, k.release}
Strokes == UNION {StrokesOf(k) : k \in Keyboard}

ASSUME KeyboardAssumption ==
  /\ Strokes \subseteq StrokeType
  /\ MaxCalls \in Nat

(* The byte that releases Enter is not sent for anything else.             *)
Releases(events) ==
  Cardinality({i \in DOMAIN events : events[i].code = Enter /\ ~events[i].pressed})
Breaks(bytes) == Cardinality({i \in DOMAIN bytes : bytes[i] = Enter + 128})
ASSUME EnterAssumption ==
  /\ Enter \in 0 .. 127 /\ Enter # SysRqId
  /\ \A s \in Strokes, waiting \in BOOLEAN : Breaks(s.bytes) <= Releases(s.events[waiting])

VARIABLES
  strokes,     \* presses and releases so far
  down,        \* keys held down
  wire,        \* bytes the keyboard has still to clock out
  buffer,      \* the output buffer: empty, or one [byte, garbled]
  garbled,     \* garbled bytes so far
  inIrq,       \* KbdIrqHandler is running
  parse,       \* the handler's prefix flags
  calls,       \* calls of Kbr so far
  typed,       \* the events the strokes stand for, in order (history)
  armed,       \* they leave the first half of a Print Screen behind (history)
  offered      \* the events handed to KbdRingPush (history)

kbdVars == <<strokes, down, wire, buffer, garbled, inIrq, parse, calls,
             typed, armed, offered>>
vars == <<ringVars, readVars, kbdVars>>

(* Every event the keyboard's bytes can be taken for.                      *)
SentBytes == UNION {{s.bytes[i] : i \in DOMAIN s.bytes} : s \in Strokes}
SentEvents == {Emits(x[1], x[2])[1] :
                 x \in {y \in ParseState \X SentBytes : Emits(y[1], y[2]) # <<>>}}

(* What the handler makes of a string of bytes, after each of them, and    *)
(* that this is what each stroke by itself stands for.  Between strokes it *)
(* remembers nothing but the first half of a Print Screen.                 *)
Parsing(start, bytes) ==
  LET p[n \in 0 .. Len(bytes)] ==
        IF n = 0 THEN [state |-> start, events |-> <<>>]
        ELSE [state |-> After(p[n - 1].state, bytes[n]),
              events |-> p[n - 1].events \o Emits(p[n - 1].state, bytes[n])]
  IN  p
Between(waiting) == [pause |-> 0, extended |-> FALSE, sysrq |-> waiting]
Means(s, waiting) ==
  Parsing(Between(waiting), s.bytes)[Len(s.bytes)]
    = [state |-> Between(s.arms[waiting]), events |-> s.events[waiting]]
KeysTranslate == \A s \in Strokes, waiting \in BOOLEAN : Means(s, waiting)

Quiet == wire = <<>> /\ buffer = <<>> /\ ~inIrq

-----------------------------------------------------------------------------
(* The keyboard and the controller.                                        *)
Stroke(s) ==
  /\ strokes < MaxStrokes
  /\ s.bytes # <<>>
  /\ strokes' = strokes + 1
  /\ wire' = wire \o s.bytes
  /\ typed' = typed \o s.events[armed]
  /\ armed' = s.arms[armed]
  /\ UNCHANGED <<ringVars, readVars, buffer, garbled, inIrq, parse, calls, offered>>

Press(k) ==        \* also the repeats of a key held down
  /\ Stroke(IF k \in down THEN k.repeat ELSE k.press)
  /\ down' = down \cup {k}

Release(k) ==
  /\ k \in down
  /\ Stroke(k.release)
  /\ down' = down \ {k}

Deliver ==
  /\ wire # <<>> /\ buffer = <<>>
  /\ wire' = Tail(wire)
  /\ \/ buffer' = <<[byte |-> Head(wire), garbled |-> FALSE]>> /\ UNCHANGED garbled
     \/ /\ garbled < MaxGarbled
        /\ buffer' = <<[byte |-> Head(wire), garbled |-> TRUE]>>
        /\ garbled' = garbled + 1
  /\ UNCHANGED <<ringVars, readVars, strokes, down, inIrq, parse, calls, typed, armed,
                 offered>>

-----------------------------------------------------------------------------
(* KbdIrqHandler.  The line is level-triggered off the full buffer, and    *)
(* the handler is entered with interrupts off.                             *)
IrqEnter ==
  /\ buffer # <<>> /\ ~inIrq
  /\ inIrq' = TRUE
  /\ UNCHANGED <<ringVars, readVars, strokes, down, wire, buffer, garbled, parse, calls,
                 typed, armed, offered>>

IrqByte ==         \* I8042ReadData(0) pops a good byte
  /\ inIrq
  /\ buffer # <<>> /\ ~buffer[1].garbled
  /\ LET events == Emits(parse, buffer[1].byte)
     IN  /\ offered' = offered \o events
         /\ IF events = <<>> THEN UNCHANGED ringVars ELSE KbdRingPush(events[1])
  /\ parse' = After(parse, buffer[1].byte)
  /\ buffer' = <<>>
  /\ UNCHANGED <<readVars, strokes, down, wire, garbled, inIrq, calls, typed, armed>>

IrqGarbageKept ==  \* mutant: I8042ReadData leaves a bad byte in the buffer
  /\ inIrq
  /\ buffer # <<>> /\ buffer[1].garbled
  /\ inIrq' = FALSE
  /\ UNCHANGED <<ringVars, readVars, strokes, down, wire, buffer, garbled, parse, calls,
                 typed, armed, offered>>

IrqGarbage ==      \* I8042ReadData pops a bad byte and returns FALSE
  /\ inIrq
  /\ buffer # <<>> /\ buffer[1].garbled
  /\ buffer' = <<>>
  /\ inIrq' = FALSE
  /\ UNCHANGED <<ringVars, readVars, strokes, down, wire, garbled, parse, calls,
                 typed, armed, offered>>

IrqLeaveForgets == \* mutant: the prefix flags are locals of the handler
  /\ inIrq /\ buffer = <<>>
  /\ inIrq' = FALSE
  /\ parse' = Idle
  /\ UNCHANGED <<ringVars, readVars, strokes, down, wire, buffer, garbled, calls,
                 typed, armed, offered>>

IrqLeave ==
  /\ inIrq /\ buffer = <<>>
  /\ inIrq' = FALSE
  /\ UNCHANGED <<ringVars, readVars, strokes, down, wire, buffer, garbled, parse, calls,
                 typed, armed, offered>>

-----------------------------------------------------------------------------
(* Kbr calls KbdRead until it returns the release of Enter; it does not    *)
(* ask whether the key was extended.  No interrupt, no handler: the main   *)
(* loop runs.                                                              *)
IsEnterEvent(event) == event.code = Enter       \* mutant: the press counts too
IsEnterRelease(event) == event.code = Enter /\ ~event.pressed

KbrCall ==
  /\ ~inIrq
  /\ reader = "away" /\ calls < MaxCalls
  /\ reader' = "polling"
  /\ calls' = calls + 1
  /\ UNCHANGED <<ringVars, key, delivered, strokes, down, wire, buffer, garbled, inIrq,
                 parse, typed, armed, offered>>

KbrRead ==
  /\ ~inIrq
  /\ KbdReadTest \/ KbdReadCopy \/ KbdReadAdvance
  /\ UNCHANGED kbdVars

KbrDecide ==
  /\ ~inIrq
  /\ reader = "returning"
  /\ reader' = IF IsEnterRelease(key) THEN "away" ELSE "polling"
  /\ UNCHANGED <<ringVars, key, delivered, kbdVars>>

-----------------------------------------------------------------------------
Init ==
  /\ RingInit /\ ReadInit
  /\ strokes = 0 /\ down = {}
  /\ wire = <<>> /\ buffer = <<>>
  /\ garbled = 0 /\ inIrq = FALSE
  /\ parse = Idle
  /\ calls = 0
  /\ typed = <<>> /\ armed = FALSE /\ offered = <<>>

Handler == IrqEnter \/ IrqByte \/ IrqGarbage \/ IrqLeave
Kbr == KbrRead \/ KbrDecide

Next ==
  \/ \E k \in Keyboard : Press(k) \/ Release(k)
  \/ Deliver
  \/ Handler
  \/ KbrCall
  \/ Kbr

(* The hardware delivers, a raised line is taken, a started Kbr runs on;   *)
(* nobody is obliged to type or to call Kbr.                               *)
Fairness == WF_vars(Deliver) /\ WF_vars(Handler) /\ WF_vars(Kbr)

Spec == Init /\ [][Next]_vars /\ Fairness

-----------------------------------------------------------------------------
TypeOK ==
  /\ ring \in [Slots -> SentEvents \cup {NoKey}]
  /\ head \in Slots /\ tail \in Slots
  /\ dropped \in Nat
  /\ reader \in {"away", "polling", "nonempty", "copied", "advanced", "returning"}
  /\ key \in SentEvents \cup {NoKey}
  /\ delivered \in Seq(SentEvents) /\ offered \in Seq(SentEvents)
  /\ wire \in Seq(SentBytes)
  /\ buffer = <<>> \/ \E m \in [byte : SentBytes, garbled : BOOLEAN] : buffer = <<m>>
  /\ inIrq \in BOOLEAN
  /\ parse \in ParseState /\ armed \in BOOLEAN
  /\ down \subseteq Keyboard
  /\ calls \in 0 .. MaxCalls

WaitingNow == IF reader = "away" THEN 0 ELSE 1

(* Unless a byte was garbled on the wire, the handler turns the strokes    *)
(* into exactly the events they stand for, in order: of what was typed     *)
(* before, a stroke may depend on the first half of a Print Screen and on  *)
(* nothing else, no prefix and no count of a Pause (KBD.C:126-182).        *)
(* KBD.C:108-111 announces two events for Print Screen and six for Pause;  *)
(* the code, and the comments at its branches, make it one of each, and    *)
(* so do the events of the keyboard here.                                  *)
IsPrefixOf(s, t) == Len(s) <= Len(t) /\ s = SubSeq(t, 1, Len(s))
StrokesTranslated ==
  garbled = 0 =>
    /\ IsPrefixOf(offered, typed)
    /\ Quiet => offered = typed /\ parse = Between(armed)

(* Does not hold: a keyboard releases Print Screen with 0xE0 0xB7 0xE0     *)
(* 0xAA, the other order than KBD.C:155-156 has it, and its last byte is   *)
(* left behind as a first half.  The next extended key, whichever it is,   *)
(* is then reported under Print Screen's synthetic code, though "E0 2A     *)
(* never occurs for any other key" (KBD.C:155-175, KBD.H:46).              *)
NothingLeftOver == garbled = 0 /\ Quiet => parse = Idle

(* Every event handed to the ring is delivered once, is still in the ring, *)
(* or was counted as dropped (KBD.C:64-97); no interleaving of the handler *)
(* with KbdRead loses one silently or returns one twice.                   *)
EventsAccounted ==
  Len(offered) =
    Len(delivered) + dropped + Count + (IF reader = "advanced" THEN 1 ELSE 0)

(* A release of Enter ends at most one call of Kbr: holding the key, or a  *)
(* reader interrupted half way, cannot pass two breakpoints                *)
(* (KBD.C:335-355).  It may have been typed before the call: Kbr does not  *)
(* empty the ring first.                                                   *)
OneReleaseOneBreakpoint == calls - WaitingNow <= Releases(typed)

(* Whatever arrives, good or garbled, leaves the buffer: IRQ1 never stays  *)
(* up for ever and the wire runs dry (I8042.C:78-86, KBD.C:122-126).       *)
BufferDrains == <>[]Quiet

(* A waiting Kbr gets everything there is to read: it ends up with an      *)
(* empty ring unless it has returned (KBD.C:343-355).                      *)
RingDrains == <>[](reader = "away" \/ (head = tail /\ reader = "polling"))

(* The ring is a bounded first-in first-out queue of Size - 1 events that  *)
(* loses only incoming ones.  A KbdRead takes its event when it moves the  *)
(* tail, even if the compiler lets the copy come later (KBD.C:37-97).      *)
Queue == INSTANCE KeyQueue WITH
           Events <- SentEvents,
           Capacity <- Size - 1,
           queue <- Contents,
           received <- IF reader = "advanced" THEN Append(delivered, ring[Back(tail)])
                                              ELSE delivered,
           lost <- dropped
ImplementsQueue == Queue!Spec
=============================================================================

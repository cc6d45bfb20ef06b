------------------------------ MODULE KbdRing ------------------------------
(***************************************************************************)
(* The event ring of src/Shadow/DRV/PS2/KBD.C: the IRQ1 handler pushes,    *)
(* the main loop reads, and two indices are all the synchronisation there  *)
(* is.  KbdRingPush runs inside the handler, with interrupts off, and is   *)
(* one step.  KbdRead is not: an interrupt can land between its test, its  *)
(* copy and its store to KbdRingTail.  KbdRing is not volatile while the   *)
(* indices are, so the compiler may also emit the copy after the store;    *)
(* both orders are modelled.                                               *)
(***************************************************************************)
EXTENDS Naturals, Sequences

CONSTANTS
  Size,        \* KBD_RING_SIZE
  NoKey        \* contents of a slot, or of *Key, never written

ASSUME SizeAssumption == Size \in Nat \ {0, 1}

VARIABLES
  ring,        \* KbdRing
  head,        \* KbdRingHead: the producer's index
  tail,        \* KbdRingTail: the reader's index
  dropped,     \* KbdRingDropped
  reader,      \* where KbdRead stands
  key,         \* *Key, the reader's copy
  delivered    \* what KbdRead has returned so far (history)

ringVars == <<ring, head, tail, dropped>>
readVars == <<reader, key, delivered>>

Slots == 0 .. (Size - 1)
Step(i) == (i + 1) % Size
Back(i) == (i + Size - 1) % Size

RingInit ==
  /\ ring = [i \in Slots |-> NoKey]
  /\ head = 0
  /\ tail = 0
  /\ dropped = 0

KbdRingPushEvicts(event) ==       \* mutant: a full ring makes room for the newest
  /\ ring' = [ring EXCEPT ![head] = event]
  /\ head' = Step(head)
  /\ tail' = IF Step(head) = tail THEN Step(tail) ELSE tail
  /\ dropped' = IF Step(head) = tail THEN dropped + 1 ELSE dropped

KbdRingPushUncounted(event) ==    \* mutant: a lost event is not counted
  \/ /\ Step(head) = tail
     /\ UNCHANGED <<ring, head, tail, dropped>>
  \/ /\ Step(head) # tail
     /\ ring' = [ring EXCEPT ![head] = event]
     /\ head' = Step(head)
     /\ UNCHANGED <<tail, dropped>>

KbdRingPush(event) ==
  \/ /\ Step(head) = tail
     /\ dropped' = dropped + 1
     /\ UNCHANGED <<ring, head, tail>>
  \/ /\ Step(head) # tail
     /\ ring' = [ring EXCEPT ![head] = event]
     /\ head' = Step(head)
     /\ UNCHANGED <<tail, dropped>>

-----------------------------------------------------------------------------
(* KbdRead.  The reader owns tail, so its test is one read of head; a call *)
(* that finds the ring empty returns FALSE and changes nothing.            *)
ReadInit ==
  /\ reader = "away"
  /\ key = NoKey
  /\ delivered = <<>>

KbdReadTestEarly ==               \* mutant: the newest event counts as none
  /\ reader = "polling"
  /\ head \notin {tail, Step(tail)}
  /\ reader' = "nonempty"
  /\ UNCHANGED <<ringVars, key, delivered>>

KbdReadTest ==
  /\ reader = "polling"
  /\ head # tail
  /\ reader' = "nonempty"
  /\ UNCHANGED <<ringVars, key, delivered>>

KbdReadCopy ==
  \/ /\ reader = "nonempty"
     /\ key' = ring[tail]
     /\ reader' = "copied"
     /\ UNCHANGED <<ringVars, delivered>>
  \/ /\ reader = "advanced"
     /\ key' = ring[Back(tail)]
     /\ delivered' = Append(delivered, key')
     /\ reader' = "returning"
     /\ UNCHANGED ringVars

KbdReadAdvance ==
  \/ /\ reader = "copied"
     /\ tail' = Step(tail)
     /\ delivered' = Append(delivered, key)
     /\ reader' = "returning"
     /\ UNCHANGED <<ring, head, dropped, key>>
  \/ /\ reader = "nonempty"
     /\ tail' = Step(tail)
     /\ reader' = "advanced"
     /\ UNCHANGED <<ring, head, dropped, key, delivered>>

-----------------------------------------------------------------------------
(* The events in the ring, oldest first, and how many there are.           *)
Count == (head + Size - tail) % Size
Contents == [i \in 1 .. Count |-> ring[(tail + i - 1) % Size]]
=============================================================================

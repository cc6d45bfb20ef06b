------------------------------ MODULE KeyQueue ------------------------------
(***************************************************************************)
(* What the keyboard ring promises: a bounded queue between one producer   *)
(* and one reader.  Events are read in the order they were produced, each  *)
(* once; when the queue is full the incoming event is lost and counted,    *)
(* never an older one.                                                     *)
(***************************************************************************)
EXTENDS Naturals, Sequences

CONSTANTS
  Events,      \* the events a producer may offer
  Capacity     \* how many of them the queue holds

VARIABLES
  queue,       \* events waiting, oldest first
  received,    \* events the reader has taken
  lost         \* how many incoming events found the queue full

Init ==
  /\ queue = <<>>
  /\ received = <<>>
  /\ lost = 0

Offer(e) ==
  /\ Len(queue) < Capacity
  /\ queue' = Append(queue, e)
  /\ UNCHANGED <<received, lost>>

Lose ==
  /\ Len(queue) = Capacity
  /\ lost' = lost + 1
  /\ UNCHANGED <<queue, received>>

Take ==
  /\ queue # <<>>
  /\ received' = Append(received, Head(queue))
  /\ queue' = Tail(queue)
  /\ UNCHANGED lost

Next == (\E e \in Events : Offer(e)) \/ Lose \/ Take

Spec == Init /\ [][Next]_<<queue, received, lost>>
=============================================================================

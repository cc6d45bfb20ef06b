-------------------------------- MODULE Pit --------------------------------
(***************************************************************************)
(* The rate of the interval timer, TalPitSetFrequency of                    *)
(* src/Shadow/TAL/PIT/PIT.C: what it writes to the counter, what the        *)
(* counter makes of it, and what the caller is told.                       *)
(***************************************************************************)
EXTENDS Integers

CONSTANTS
  PIT_BASE,   \* ticks of the timer's own clock per second
  Byte        \* 256, the values of one byte

ASSUME PitAssumption ==
  /\ PIT_BASE \in Nat \ {0}
  /\ Byte \in Nat
  /\ Byte > 1
  /\ Byte * Byte \in Nat

MaxDivisor == Byte * Byte     \* what the counter takes a zero for

ClampedUpwardsOnly(quotient) ==      \* mutant: a rate above the base is not caught
  IF quotient > MaxDivisor - 1 THEN 0 ELSE quotient
Clamped(quotient) ==
  IF quotient > MaxDivisor - 1 THEN 0 ELSE IF quotient = 0 THEN 1 ELSE quotient

Divisor(hz) == Clamped(PIT_BASE \div hz)

(* The counter gets two bytes, the low one first, and counts from there;   *)
(* from zero it counts a full turn.                                        *)
Written(divisor) == [low |-> divisor % Byte, high |-> divisor \div Byte]
Counts(reload) ==
  IF reload.low + Byte * reload.high = 0 THEN MaxDivisor
  ELSE reload.low + Byte * reload.high

ActualDivisor(divisor) == IF divisor = 0 THEN MaxDivisor ELSE divisor

(* A request for 0 Hz touches nothing and returns 0.                       *)
TalPitSetFrequency(hz, old) ==
  IF hz = 0 THEN [asked |-> 0, reload |-> old.reload, returned |-> 0]
  ELSE [asked |-> hz,
        reload |-> Written(Divisor(hz)),
        returned |-> PIT_BASE \div ActualDivisor(Divisor(hz))]
=============================================================================

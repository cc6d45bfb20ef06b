------------------------------- MODULE MCIrq -------------------------------
(* Instances of module Irq: the timer and two lines of the slave, one of    *)
(* them without a handler; and a slave that firmware left where the kernel  *)
(* wants it, or at 112, where the PC's firmware has it.                     *)
EXTENDS Irq

ASSUME SlaveKeptApart == \A slave \in FirmwareSlaveBases : KeptApart(slave)

MCLines == {0, 12, 14}
MCRegistered == {3, 44}
MCExceptions == {3, 13}

(* No rate, both sides of the largest divisor, more than the clock has.     *)
MCRates == {0, 18, 19, 1193183}
=============================================================================

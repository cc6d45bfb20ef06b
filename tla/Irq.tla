-------------------------------- MODULE Irq --------------------------------
(***************************************************************************)
(* Interrupts: the two cascaded 8259s as src/Shadow/IAL/PIC/PIC.C programs *)
(* them, the dispatch of src/Shadow/Int/IDT.C, and the timer of              *)
(* src/Shadow/TAL/PIT/PIT.C.  The chips, the processor's acceptance of an   *)
(* interrupt and the lines are external.                                   *)
(*                                                                         *)
(* The processor samples the INT pin, and acknowledges later: a line that  *)
(* is masked or drops in between leaves a spurious interrupt.  Gates are    *)
(* interrupt gates, so handlers do not nest and the thread stands still     *)
(* while one runs.                                                         *)
(***************************************************************************)
EXTENDS Integers, Pit

CONSTANTS
  Lines,       \* the lines that have a device and that somebody may enable
  Registered,  \* the vectors somebody registers a handler for
  Exceptions,  \* the exceptions the thread may run into
  FirmwareSlaveBases,  \* the vector bases firmware may leave in the slave
  Rates,       \* rates the timer is asked for
  MaxPulses    \* bound on the requests raised

CASCADE_IRQ == 2
PIC_VECTOR_BASE == 32
IDT_ENTRIES == 48
PIT_IRQ == 0
GENERAL_PROTECTION == 13

ASSUME IrqAssumption ==
  /\ Lines \subseteq (0 .. 15) \ {CASCADE_IRQ}    \* no device can be wired there
  /\ Registered \subseteq 0 .. (IDT_ENTRIES - 1)
  /\ Exceptions \subseteq 0 .. 31
  /\ FirmwareSlaveBases \subseteq {8 * n : n \in 0 .. 31}
  /\ Rates \subseteq Nat
  /\ MaxPulses \in Nat

VARIABLES
  irr, isr, imr,  \* requests, in service and masks, by line of both chips
  base,           \* ICW2 of each chip
  int,            \* the processor has seen INT up
  ifEnabled,      \* RFLAGS.IF
  stage,          \* how far bring-up is
  handlers,       \* vectors with an entry in HandlerTable
  frame,          \* the interrupt that is being dispatched
  pulses,         \* how often a line was raised (bound)
  ticks,          \* Ticks
  pit             \* the timer's counter and the rate reported

vars == <<irr, isr, imr, base, int, ifEnabled, stage, handlers, frame, pulses, ticks, pit>>

Master == 0 .. 7
Slave == 8 .. 15
None == [line |-> -1, vector |-> -1, step |-> "none"]
Stages == {"firmware", "idt", "remapped", "enabled", "running", "halted"}

Bases == [master : 0 .. 248, slave : 0 .. 248]
Frame == [line : -1 .. 15, vector : -1 .. 255,
          step : {"none", "handler", "eoi slave", "eoi master"}]

TypeOK ==
  /\ irr \subseteq Lines /\ isr \subseteq 0 .. 15 /\ imr \subseteq 0 .. 15
  /\ base \in Bases
  /\ int \in BOOLEAN /\ ifEnabled \in BOOLEAN
  /\ stage \in Stages
  /\ handlers \subseteq 0 .. (IDT_ENTRIES - 1)
  /\ frame \in Frame
  /\ pulses \in 0 .. MaxPulses
  /\ ticks \in Nat

-----------------------------------------------------------------------------
(* The chips.  A request is passed on if it is not masked and nothing of   *)
(* equal or higher priority is in service; the slave's output is request 2 *)
(* of the master.                                                          *)
Deliverable(requests, chip) ==
  {n \in (requests \cap chip) \ imr : \A m \in isr \cap chip : n < m}
Lowest(S) == CHOOSE n \in S : \A m \in S : n <= m

SlaveOut == Deliverable(irr, Slave)
MasterOut == Deliverable(irr \cup (IF SlaveOut # {} THEN {CASCADE_IRQ} ELSE {}), Master)

Raise(n) ==
  /\ pulses < MaxPulses
  /\ irr' = irr \cup {n}
  /\ pulses' = pulses + 1
  /\ UNCHANGED <<isr, imr, base, int, ifEnabled, stage, handlers, frame, ticks, pit>>

(* A device takes its request back before it was acknowledged.             *)
Withdraw(n) ==
  /\ irr' = irr \ {n}
  /\ irr' # irr
  /\ UNCHANGED <<isr, imr, base, int, ifEnabled, stage, handlers, frame, pulses, ticks, pit>>

(* The processor follows the INT pin, with a delay.                        *)
Sample ==
  /\ int' = (MasterOut # {})
  /\ int' # int
  /\ UNCHANGED <<irr, isr, imr, base, ifEnabled, stage, handlers, frame, pulses, ticks, pit>>

(* The acknowledge cycle: the highest request is put in service and its    *)
(* vector read.  If it is gone by now, the chip answers with its line 7    *)
(* and puts nothing in service; the slave, which answers second, may come  *)
(* to that although the master has not.                                    *)
Taken(n) ==
  /\ irr' = irr \ {n}
  /\ frame' = [line |-> n,
               vector |-> IF n \in Slave THEN base.slave + n - 8 ELSE base.master + n,
               step |-> "handler"]

Acknowledge ==
  /\ int /\ ifEnabled
  /\ frame = None
  /\ stage # "halted"
  /\ int' = FALSE
  /\ \/ /\ MasterOut = {}
        /\ isr' = isr
        /\ irr' = irr
        /\ frame' = [line |-> 7, vector |-> base.master + 7, step |-> "handler"]
     \/ /\ MasterOut # {}
        /\ Lowest(MasterOut) # CASCADE_IRQ
        /\ isr' = isr \cup {Lowest(MasterOut)}
        /\ Taken(Lowest(MasterOut))
     \/ /\ MasterOut # {}
        /\ Lowest(MasterOut) = CASCADE_IRQ
        /\ isr' = isr \cup {CASCADE_IRQ, Lowest(SlaveOut)}
        /\ Taken(Lowest(SlaveOut))
     \/ /\ MasterOut # {}
        /\ Lowest(MasterOut) = CASCADE_IRQ
        /\ isr' = isr \cup {CASCADE_IRQ}
        /\ irr' = irr \ {Lowest(SlaveOut)}
        /\ frame' = [line |-> 15, vector |-> base.slave + 7, step |-> "handler"]
  /\ UNCHANGED <<imr, base, ifEnabled, stage, handlers, pulses, ticks, pit>>

(* A non-specific EOI retires what is highest in service.                  *)
Eoi(chip) == isr \ (IF isr \cap chip = {} THEN {} ELSE {Lowest(isr \cap chip)})

-----------------------------------------------------------------------------
(* IdtDispatch, three ways.  A vector beyond the table is a fault itself,  *)
(* and an exception without a handler ends in IdtDefaultFault.             *)
Raised(vector) == IF vector >= IDT_ENTRIES THEN GENERAL_PROTECTION ELSE vector

Fault ==
  /\ frame.step = "handler"
  /\ Raised(frame.vector) \in (0 .. 31) \ handlers
  /\ stage' = "halted"
  /\ ifEnabled' = FALSE
  /\ frame' = None
  /\ UNCHANGED <<irr, isr, imr, base, int, handlers, pulses, ticks, pit>>

(* The handler, if there is one; TalPitHandler counts.  With or without    *)
(* it, IALSendEoi follows, and IALPicSendEoi goes by the vector.           *)
Irq(vector) == vector - PIC_VECTOR_BASE

EoiStepsHandledOnly(f) ==       \* mutant: no handler, no EOI
  IF f.vector \notin handlers THEN "none" ELSE IF Irq(f.vector) >= 8 THEN "eoi slave" ELSE "eoi master"
EoiSteps(f) == IF Irq(f.vector) >= 8 THEN "eoi slave" ELSE "eoi master"

AfterSlaveReturns == "none"     \* mutant: the master's half is forgotten
AfterSlave == "eoi master"

At(step) == IF step = "none" THEN None ELSE [frame EXCEPT !.step = step]

(* The processor raises an exception and, an exception being none of the   *)
(* chips', its handler is all there is to it.  An interrupt it has seen it  *)
(* takes before the next instruction.                                      *)
Trap(vector) ==
  /\ frame = None
  /\ stage \notin {"firmware", "halted"}
  /\ ~(int /\ ifEnabled)
  /\ frame' = [line |-> -1, vector |-> vector, step |-> "handler"]
  /\ UNCHANGED <<irr, isr, imr, base, int, ifEnabled, stage, handlers, pulses, ticks, pit>>

DispatchException ==
  /\ frame.step = "handler"
  /\ Raised(frame.vector) \in (0 .. 31) \cap handlers
  /\ frame' = None
  /\ UNCHANGED <<irr, isr, imr, base, int, ifEnabled, stage, handlers, pulses, ticks, pit>>

DispatchIrq ==
  /\ frame.step = "handler"
  /\ frame.vector \in 32 .. (IDT_ENTRIES - 1)
  /\ ticks' = IF frame.vector \in handlers /\ Irq(frame.vector) = PIT_IRQ
              THEN ticks + 1 ELSE ticks
  /\ frame' = At(EoiSteps(frame))
  /\ UNCHANGED <<irr, isr, imr, base, int, ifEnabled, stage, handlers, pulses, pit>>

SendEoiSlave ==
  /\ frame.step = "eoi slave"
  /\ isr' = Eoi(Slave)
  /\ frame' = At(AfterSlave)
  /\ UNCHANGED <<irr, imr, base, int, ifEnabled, stage, handlers, pulses, ticks, pit>>

SendEoiMaster ==
  /\ frame.step = "eoi master"
  /\ isr' = Eoi(Master)
  /\ frame' = None
  /\ UNCHANGED <<irr, imr, base, int, ifEnabled, stage, handlers, pulses, ticks, pit>>

-----------------------------------------------------------------------------
(* The thread.  It runs while no interrupt does.                           *)
Thread == frame = None

IdtInit ==
  /\ stage = "firmware"
  /\ Thread
  /\ handlers' = {}
  /\ stage' = "idt"
  /\ UNCHANGED <<irr, isr, imr, base, int, ifEnabled, frame, pulses, ticks, pit>>

(* PicRemap.  ICW1 goes to the master alone: it forgets what was requested *)
(* and in service and takes ICW2 for its vector base.  The slave, which is *)
(* not being initialised, takes what it is sent for masks: the last one    *)
(* stands.                                                                 *)
PicRemap ==
  /\ base' = [base EXCEPT !.master = PIC_VECTOR_BASE]
  /\ irr' = irr \ Master
  /\ isr' = isr \ Master
  /\ imr' = 0 .. 15

IALPicInit ==
  /\ stage = "idt"
  /\ Thread
  /\ PicRemap
  /\ stage' = "remapped"
  /\ UNCHANGED <<int, ifEnabled, handlers, frame, pulses, ticks, pit>>

(* XScopeIALInit ends with STI.                                            *)
XScopeIALInit ==
  /\ stage = "remapped"
  /\ Thread
  /\ ifEnabled' = TRUE
  /\ stage' = "enabled"
  /\ UNCHANGED <<irr, isr, imr, base, int, handlers, frame, pulses, ticks, pit>>

(* The masks are read and written back while interrupts are on; no         *)
(* handler touches them.                                                   *)
IALPicEnableIrq(n) == imr' = imr \ {n}
IALPicDisableIrq(n) == imr' = imr \cup {n}

TalPitInit ==
  /\ stage = "enabled"
  /\ Thread
  /\ ticks' = 0
  /\ handlers' = handlers \cup {PIC_VECTOR_BASE + PIT_IRQ}
  /\ IALPicEnableIrq(PIT_IRQ)
  /\ stage' = "running"
  /\ UNCHANGED <<irr, isr, base, int, ifEnabled, frame, pulses, pit>>

IdtRegisterHandler(vector) ==
  /\ stage = "running"
  /\ Thread
  /\ handlers' = handlers \cup {vector}
  /\ UNCHANGED <<irr, isr, imr, base, int, ifEnabled, stage, frame, pulses, ticks, pit>>

IALEnableIrq(n) ==
  /\ stage = "running"
  /\ Thread
  /\ IALPicEnableIrq(n)
  /\ UNCHANGED <<irr, isr, base, int, ifEnabled, stage, handlers, frame, pulses, ticks, pit>>

(* IALDisableIrq; TalPitStop calls it for the timer.                       *)
IALDisableIrq(n) ==
  /\ stage = "running"
  /\ Thread
  /\ IALPicDisableIrq(n)
  /\ UNCHANGED <<irr, isr, base, int, ifEnabled, stage, handlers, frame, pulses, ticks, pit>>

TALSetFrequency(hz) ==
  /\ stage = "running"
  /\ Thread
  /\ pit' = TalPitSetFrequency(hz, pit)
  /\ UNCHANGED <<irr, isr, imr, base, int, ifEnabled, stage, handlers, frame, pulses, ticks>>

-----------------------------------------------------------------------------
(* The boot stub has cleared IF.  Firmware may leave requests pending.     *)
Init ==
  /\ irr = {}
  /\ isr = {}
  /\ imr \in {{}, 0 .. 15}
  /\ base \in [master : {8}, slave : FirmwareSlaveBases]
  /\ int = FALSE
  /\ ifEnabled = FALSE
  /\ stage = "firmware"
  /\ handlers = {}
  /\ frame = None
  /\ pulses = 0
  /\ ticks = 0
  /\ pit = [asked |-> 0, reload |-> Written(0), returned |-> 0]

Interrupt ==
  \/ Sample \/ Acknowledge
  \/ Fault \/ DispatchException \/ DispatchIrq \/ SendEoiSlave \/ SendEoiMaster

Next ==
  \/ \E n \in Lines : Raise(n) \/ Withdraw(n)
  \/ Interrupt
  \/ \E vector \in Exceptions : Trap(vector)
  \/ IdtInit \/ IALPicInit \/ XScopeIALInit \/ TalPitInit
  \/ \E vector \in Registered : IdtRegisterHandler(vector)
  \/ \E n \in Lines \cup {CASCADE_IRQ} : IALEnableIrq(n) \/ IALDisableIrq(n)
  \/ \E hz \in Rates : TALSetFrequency(hz)

(* The processor follows INT, takes an enabled interrupt, and its handlers *)
(* return.  Nothing is assumed of the lines or of the thread.              *)
Fairness ==
  /\ WF_vars(Sample) /\ WF_vars(Acknowledge) /\ WF_vars(Fault)
  /\ WF_vars(DispatchException) /\ WF_vars(DispatchIrq)
  /\ WF_vars(SendEoiSlave) /\ WF_vars(SendEoiMaster)

Spec == Init /\ [][Next]_vars /\ Fairness

-----------------------------------------------------------------------------
(* PicRemap leaves the slave the vectors firmware gave it.  They do no     *)
(* harm if each is one of those PIC.C:47 means the slave to have, or an    *)
(* exception's that nobody handles: the machine then halts.  A slave at    *)
(* 32, where the master is, would be taken for the master.                 *)
KeptApart(slave) ==
  \A vector \in slave .. (slave + 7) :
    vector \in 40 .. 47 \/ Raised(vector) \in (0 .. 31) \ Registered

(* Nothing stays in service once dispatch is over: each interrupt, through *)
(* one chip or two, real or spurious, gets the EOIs it needs, and none     *)
(* retires another (PIC.C:196-216, IDT.C:149-157), given KeptApart.        *)
InServiceOnlyWhileDispatched == frame = None /\ stage # "halted" => isr = {}

(* Violated by a slave firmware has left at 112, as the PC's does:          *)
(* "master: 32-39, slave: 40-47" (PIC.C:47): a line interrupts at the       *)
(* vector its handler is registered for and never at an exception's        *)
(* (PIC.C:82-89).                                                          *)
VectorIsOfLine == frame # None /\ frame.line # -1 => frame.vector = PIC_VECTOR_BASE + frame.line

(* "skipping it is how a device stops interrupting forever" (IDT.C:152-156):*)
(* a request that is let through is served, or withdrawn or masked again;  *)
(* no line is ever stuck behind an interrupt that is over.                 *)
Requested(n) ==
  /\ ifEnabled
  /\ n \in irr \ imr
  /\ n \in Slave => CASCADE_IRQ \notin imr
RequestsServed == \A n \in Lines : Requested(n) ~> ~Requested(n)

(* TalPitSetFrequency tells the truth about the counter it has programmed, *)
(* at both edges of the divisor (PIT.C:184-206): the rate it returns is    *)
(* the one the chip makes of the two bytes, never below what was asked as  *)
(* far as the clock can do it, and the next slower one would be.           *)
RateIsHonest ==
  LET counts == Counts(pit.reload)
  IN  pit.asked # 0 =>
        /\ pit.returned = PIT_BASE \div counts
        /\ pit.returned >= (IF pit.asked <= PIT_BASE THEN pit.asked ELSE PIT_BASE)
        /\ counts < MaxDivisor => PIT_BASE \div (counts + 1) < pit.asked
=============================================================================

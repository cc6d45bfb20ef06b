------------------------------ MODULE Scancode ------------------------------
(***************************************************************************)
(* How KbdIrqHandler (src/Shadow/DRV/PS2/KBD.C) turns the bytes of scan    *)
(* code set 1 into key events.  A byte is a number below 256; the parse    *)
(* state is the handler's three prefix flags.                              *)
(***************************************************************************)
EXTENDS Naturals, Sequences

Extended    == 224       \* PS2_SET1_EXTENDED, 0xE0
Pause       == 225       \* PS2_SET1_PAUSE, 0xE1
PauseLength == 6         \* PS2_SET1_PAUSE_LEN
SysRqFirst  == 42        \* PS2_SET1_SYSRQ_FIRST, 0x2A
SysRqId     == 55        \* PS2_SET1_SYSRQ_ID, 0x37
ErrorReports == {0, 255} \* PS2_KBD_ERR_OVERRUN0, PS2_KBD_ERR_OVERRUN1

Bytes == 0 .. 255
Code(b) == b % 128               \* b & ~PS2_SET1_BREAK
Pressed(b) == b < 128            \* !(b & PS2_SET1_BREAK)

Key == [code : Bytes, pressed : BOOLEAN, extended : BOOLEAN]
ParseState == [pause : 0 .. (PauseLength - 1), extended : BOOLEAN, sysrq : BOOLEAN]
Idle == [pause |-> 0, extended |-> FALSE, sysrq |-> FALSE]

(* What the handler takes byte b for, in the order it asks.                *)
Kind(s, b) ==
  IF s.pause # 0 THEN "swallow"
  ELSE IF b \in ErrorReports THEN "error"
  ELSE IF b = Pause THEN "pause"
  ELSE IF b = Extended THEN "prefix"
  ELSE IF s.extended /\ ~s.sysrq /\ Code(b) = SysRqFirst THEN "arm"
  ELSE IF s.extended /\ s.sysrq THEN "sysrq"
  ELSE "key"

(* The prefix flags once b is handled; a Pause byte leaves the other two   *)
(* alone.                                                                  *)
After(s, b) ==
  LET kind == Kind(s, b) IN
  [pause |-> IF kind = "swallow" THEN s.pause - 1
             ELSE IF kind = "pause" THEN PauseLength - 1
             ELSE s.pause,
   extended |-> \/ kind = "prefix"
                \/ s.extended /\ kind \in {"swallow", "error", "pause"},
   sysrq |-> \/ kind = "arm"
             \/ s.sysrq /\ kind # "sysrq"]

(* The events it hands to KbdRingPush: none or one.                        *)
Emits(s, b) ==
  LET kind == Kind(s, b) IN
  CASE kind = "pause" ->
         <<[code |-> Pause, pressed |-> TRUE, extended |-> FALSE]>>
    [] kind = "sysrq" ->
         <<[code |-> SysRqId, pressed |-> Pressed(b), extended |-> TRUE]>>
    [] kind = "key" ->
         <<[code |-> Code(b), pressed |-> Pressed(b), extended |-> s.extended]>>
    [] kind \in {"swallow", "error", "prefix", "arm"} -> <<>>
=============================================================================

------------------------------- MODULE MCKbd -------------------------------
(* Kbd on a keyboard of five keys and a ring of three slots.               *)
EXTENDS Kbd

Event(c, p, e) == [code |-> c, pressed |-> p, extended |-> e]
StrokeOf(bytes, events) ==
  [bytes |-> bytes, events |-> [b \in BOOLEAN |-> events], arms |-> [b \in BOOLEAN |-> b]]
NoStroke == StrokeOf(<<>>, <<>>)
KeyOf(press, release) == [press |-> press, repeat |-> press, release |-> release]

EnterKey == KeyOf(StrokeOf(<<28>>, <<Event(28, TRUE, FALSE)>>),
                  StrokeOf(<<156>>, <<Event(28, FALSE, FALSE)>>))
PauseKey == KeyOf(StrokeOf(<<225, 29, 69, 225, 157, 197>>, <<Event(225, TRUE, FALSE)>>), NoStroke)
OverrunReport == KeyOf(StrokeOf(<<255>>, <<>>), NoStroke)

(* A key with a prefix; as the second half of a Print Screen it is taken   *)
(* for that.                                                               *)
ExtendedStroke(byte) ==
  [bytes |-> <<224, byte>>,
   events |-> [b \in BOOLEAN |-> <<Event(IF b THEN 55 ELSE byte % 128, byte < 128, TRUE)>>],
   arms |-> [b \in BOOLEAN |-> FALSE]]
RightControl == KeyOf(ExtendedStroke(29), ExtendedStroke(157))

(* Print Screen.  Its release ends with what the handler takes for the     *)
(* first half of another; after that the next press counts twice.          *)
PrintScreen ==
  [press |-> [bytes |-> <<224, 42, 224, 55>>,
              events |-> [b \in BOOLEAN |-> IF b THEN <<Event(55, TRUE, TRUE), Event(55, TRUE, TRUE)>>
                                                 ELSE <<Event(55, TRUE, TRUE)>>],
              arms |-> [b \in BOOLEAN |-> FALSE]],
   repeat |-> ExtendedStroke(55),
   release |-> [bytes |-> <<224, 183, 224, 170>>,
                events |-> [b \in BOOLEAN |-> <<Event(55, FALSE, TRUE)>>],
                arms |-> [b \in BOOLEAN |-> TRUE]]]

MCKeyboard == {EnterKey, RightControl, PauseKey, OverrunReport, PrintScreen}

ASSUME StrokesStandForTheirEvents == KeysTranslate
=============================================================================

------------------------------ MODULE MCI8042 ------------------------------
(* I8042 with the press and the release of left shift: the first has the   *)
(* translation bit clear, the second equals a passed self-test.            *)
EXTENDS I8042

MCKeyBytes == {42, 170}
MCFirmwareConfigs == {69, 101}      \* port 1 running; port 2 running or stopped
MCResetConfigs == {0}
=============================================================================

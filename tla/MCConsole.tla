----------------------------- MODULE MCConsole -----------------------------
(* Instances of module Console: three rows of three characters, and the    *)
(* message of IdtDefaultFault, which begins with a bare line feed.         *)
EXTENDS Console

MCMessage == <<LF, "F", CR, LF>>
=============================================================================

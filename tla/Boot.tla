-------------------------------- MODULE Boot --------------------------------
(***************************************************************************)
(* From the loader's first call to the last subsystem: UefiMain, and then,  *)
(* if it jumps, KernelMain (src/Shadow/Kernel.C), which runs XScopeRun over *)
(* the table that came with the kernel's image.  Nothing gives the loader  *)
(* control back, and a loader that halts starts no kernel.                 *)
(***************************************************************************)
EXTENDS Loader, XScope

bootVars == <<loaderVars, vars>>

UefiMain == LoaderNext /\ UNCHANGED vars
KernelMain == stage = "jumped" /\ Next /\ UNCHANGED loaderVars

BootInit == LoaderInit /\ Init
Boot == UefiMain \/ KernelMain

(* One processor runs the loader and then the kernel, and stops in neither.*)
BootSpec == BootInit /\ [][Boot]_bootVars /\ WF_bootVars(Boot)

(* Booting ends, in a halt or with the subsystems initialised, however     *)
(* firmware answers and whatever the table says (Memory.c:46, XScope.C:98).*)
BootEnds ==
  <>(stage = "halted" \/ (stage = "jumped" /\ state \notin {"start", "running"}))
=============================================================================

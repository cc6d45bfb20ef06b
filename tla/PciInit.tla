------------------------------ MODULE PciInit ------------------------------
(***************************************************************************)
(* PciInit, src/Shadow/BUS/PCI/CORE/INIT.C: the regions are read from the  *)
(* firmware's tables, whatever comes of it, and then the buses are scanned *)
(* through the legacy ports.                                               *)
(***************************************************************************)
EXTENDS Pci, Mcfg

Regions == PciMcfgInit /\ UNCHANGED vars
Enumeration == mcfg \in {"done", "legacy only"} /\ Next /\ UNCHANGED mcfgVars

PciInitInit == Init /\ McfgInit
PciInit == Regions \/ Enumeration
PciInitSpec == PciInitInit /\ [][PciInit]_<<vars, mcfgVars>>
=============================================================================

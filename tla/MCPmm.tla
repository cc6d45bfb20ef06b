------------------------------- MODULE MCPmm -------------------------------
(* Four small machines for module Pmm, eleven frames at most.              *)
EXTENDS PmmSweep

D(type, base, pages) == [type |-> type, base |-> base, pages |-> pages]
NoExtent == [base |-> 0, pages |-> 0]

(* Boot services memory in the low megabyte and above it, a map buffer in  *)
(* loader memory, a framebuffer window above RAM.                          *)
Typical ==
  [magic |-> TRUE,
   map |-> <<D("BootServices", 0, 1), D("Conventional", 1, 4), D("Loader", 5, 1),
             D("BootServices", 6, 2), D("Conventional", 8, 1), D("MMIO", 10, 1)>>,
   mapBuffer |-> [base |-> 5, pages |-> 1],
   framebuffer |-> [base |-> 10, pages |-> 1]]

(* Descriptors out of order, the framebuffer described as conventional.    *)
Shuffled ==
  [magic |-> TRUE,
   map |-> <<D("Conventional", 6, 4), D("ACPIReclaim", 5, 1),
             D("BootServices", 3, 2), D("Conventional", 0, 3)>>,
   mapBuffer |-> [base |-> 10, pages |-> 1],
   framebuffer |-> [base |-> 8, pages |-> 1]]

(* No conventional region above the cutoff is large enough.                *)
NoRoom ==
  [magic |-> TRUE,
   map |-> <<D("Conventional", 0, 2), D("Loader", 2, 3)>>,
   mapBuffer |-> [base |-> 3, pages |-> 1],
   framebuffer |-> NoExtent]

BadMagic == [NoRoom EXCEPT !.magic = FALSE]

MCBootInfos == {Typical, Shuffled, NoRoom, BadMagic}
=============================================================================

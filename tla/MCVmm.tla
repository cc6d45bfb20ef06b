------------------------------- MODULE MCVmm -------------------------------
(* A small machine for module Vmm: pages 0 and 1 are the direct map, 2 and *)
(* 3 the kernel, then a heap and a device window.                          *)
EXTENDS Vmm, FiniteSetsExt

MCFrames == 1 .. 13

(* Enough to boot and to map something, or to fail at some point of boot.  *)
MCSupplies == {1 .. n : n \in {0, 1, 2, 4, 5, 9, 11, 13}}
MCSlots == 0 .. 3
MCPages == 0 .. 18

(* The physical memory manager starts its search anywhere; here it returns *)
(* the lowest or the highest free frame by turns.                          *)
MCSearch ==
  [S \in SUBSET MCFrames |->
     IF S = {} THEN {} ELSE IF Cardinality(S) % 2 = 0 THEN {Min(S)} ELSE {Max(S)}]

(* Stale memory: read as a table, a frame's old content leads back to it.  *)
MCJunk == [f \in MCFrames |-> [s \in MCSlots |-> [present |-> TRUE, ps |-> FALSE, phys |-> f]]]

(* The first two pages of each window lie in different page tables, and    *)
(* the heap crosses into a second page directory.                          *)
MCPath ==
  [v \in MCPages |->
     CASE v <= 1 -> <<0, v, 0, 0>>
       [] v \in {2, 3} -> <<3, 3, v, 0>>
       [] v \in 4 .. 11 -> <<1, (v - 3) \div 4, ((v - 3) \div 2) % 2, (v - 3) % 2>>
       [] OTHER -> <<2, 0, (v - 11) \div 2, (v - 11) % 2>>]

MCDirectMap == <<[virt |-> 0, phys |-> 0], [virt |-> 1, phys |-> 64]>>
MCImage == <<[virt |-> 2, phys |-> 20, section |-> 1], [virt |-> 3, phys |-> 21, section |-> 2]>>
MCDevices == {30}
=============================================================================

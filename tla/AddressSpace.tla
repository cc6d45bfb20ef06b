---------------------------- MODULE AddressSpace ----------------------------
(***************************************************************************)
(* What the page tables promise the rest of the kernel: one translation    *)
(* per virtual page.  A page is mapped where nothing was mapped, a page is  *)
(* unmapped, and neither touches any other page.  How many tables stand    *)
(* behind the translation, and when they are made, is left open; module    *)
(* Vmm says how Paging.C and VMM.C do it.                                  *)
(***************************************************************************)
EXTENDS Integers

CONSTANTS
  Pages,     \* virtual pages
  Nowhere    \* what a page that is not mapped translates to

VARIABLE space    \* where each page is mapped

Init == space = [v \in Pages |-> Nowhere]

Map(v) ==
  /\ space[v] = Nowhere
  /\ space'[v] # Nowhere
  /\ space' = [space EXCEPT ![v] = space'[v]]

Unmap(v) ==
  /\ space[v] # Nowhere
  /\ space'[v] = Nowhere
  /\ space' = [space EXCEPT ![v] = Nowhere]

Next == \E v \in Pages : Map(v) \/ Unmap(v)

Spec == Init /\ [][Next]_space
=============================================================================

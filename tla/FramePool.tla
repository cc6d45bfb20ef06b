----------------------------- MODULE FramePool -----------------------------
(***************************************************************************)
(* What the physical memory manager promises its callers (Paging.C and     *)
(* VMM.C): a pool of page frames from which a contiguous run is taken for   *)
(* one holder at a time, and to which it is given back.  Which run is      *)
(* taken, where the search starts and how free frames are recorded is left *)
(* open; module Pmm says how PMM.C does it.                                *)
(***************************************************************************)
EXTENDS Integers

CONSTANT Frames   \* the frame numbers of the machine

VARIABLES
  avail,   \* frames that may be handed out
  held     \* frames some caller holds

poolVars == <<avail, held>>

Init == avail = {} /\ held = {}

(* Memory the firmware lets go of enters the pool, never a frame that a    *)
(* caller holds.                                                           *)
Supply ==
  /\ avail \subseteq avail'
  /\ avail' \subseteq Frames \ held
  /\ UNCHANGED held

(* Frames nobody holds are withdrawn for good.                             *)
Withdraw ==
  /\ avail' \subseteq avail
  /\ UNCHANGED held

(* The run of frames first .. last changes hands.                          *)
Take(first, last) ==
  /\ first .. last \subseteq avail
  /\ avail' = avail \ (first .. last)
  /\ held' = held \cup (first .. last)

Give(first, last) ==
  /\ first .. last \subseteq held
  /\ avail' = avail \cup (first .. last)
  /\ held' = held \ (first .. last)

Next ==
  \/ Supply
  \/ Withdraw
  \/ \E first \in Frames : \E last \in Frames :
       Take(first, last) \/ Give(first, last)

Spec == Init /\ [][Next]_poolVars
=============================================================================

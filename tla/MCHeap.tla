------------------------------ MODULE MCHeap ------------------------------
(* A window with room for three chunks of three or two small blocks each.  *)
EXTENDS Heap

(* One unit, which leaves a remainder of every chunk; three, the whole of  *)
(* a minimal chunk; a size whose sum with the header wraps to zero; and    *)
(* one whose chunk takes the cursor two pages down.                        *)
MCRequests == {1, 3, Word - Hdr, Word - 3 * PageSize - Hdr}

(* What a caller writes looks like a free block, at two places where       *)
(* blocks come and go.                                                     *)
MCData == {[at |-> x, as |-> [magic |-> TRUE, size |-> 1, free |-> TRUE,
                              next |-> Null, prev |-> Null]] : x \in {4, 6}}
=============================================================================

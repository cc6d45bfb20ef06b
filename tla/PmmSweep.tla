------------------------------ MODULE PmmSweep ------------------------------
(***************************************************************************)
(* The loop inside MmAllocatePages, frame by frame, with the skip over     *)
(* whole words that are in use.  Module Pmm says what a sweep finds (the   *)
(* lowest free run below the limit); this module says how the loop looks   *)
(* for it, and that the two agree in every reachable state.                *)
(***************************************************************************)
EXTENDS Pmm, FiniteSetsExt

WordInUse(w) == \A q \in (w * WordBits) .. (w * WordBits + WordBits - 1) : q \notin free

SkipUnaligned(p) == WordInUse(p \div WordBits)     \* mutant: BITMAP_BIT(Pfn) not tested
SkipsWord(p) == p % WordBits = 0 /\ WordInUse(p \div WordBits)

(* The frames in use from p on, as far as the inner loop counts them.      *)
RunLength(p, count, limit) ==
  Max({r \in 0 .. count : p + r <= limit /\ \A q \in Run(p, r) : ~PmmTestBit(q)})

NotFound == -1

(* loop[p] is the result of the sweep once Pfn has reached p.              *)
SweepLoop(count, from, limit) ==
  LET loop[p \in Nat] ==
        IF p >= limit THEN NotFound
        ELSE IF SkipsWord(p) THEN loop[p + WordBits]
        ELSE IF PmmTestBit(p) THEN loop[p + 1]
        ELSE LET run == RunLength(p, count, limit)
             IN  IF run = count THEN p ELSE loop[p + run + 1]
  IN  loop[from]

(* Each sweep of the loop returns the start of the lowest free run it may  *)
(* return, and fails only when there is none: skipping words and jumping   *)
(* past a broken run never steps over a run that fits (PMM.C:374-410).     *)
LoopFindsLowestRun ==
  Usable =>
    \A count \in 1 .. MaxPages, span \in {<<searchHint, totalPages>>, <<Cutoff, searchHint>>} :
      LET found == SweepLoop(count, span[1], span[2])
      IN  IF found = NotFound THEN SweepFails(count, span[1], span[2])
                              ELSE SweepFinds(found, count, span[1], span[2])
=============================================================================

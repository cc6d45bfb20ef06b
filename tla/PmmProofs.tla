----------------------------- MODULE PmmProofs -----------------------------
(***************************************************************************)
(* Theorems about module Pmm, for every memory map and every size of       *)
(* machine.  The inductive invariant is IInv: the properties the runs      *)
(* check, strengthened by what the boot established and nothing since has  *)
(* disturbed (where the bitmap lies, what the reserved ranges spare).      *)
(***************************************************************************)
EXTENDS PmmSweep, FiniteSetTheorems, WellFoundedInduction, TLAPS

(* Before boot the manager holds nothing.                                  *)
EmptyUntilReady == ~Usable => free = {} /\ owned = {} /\ freePages = 0

(* The bitmap lies in conventional memory, above the cutoff.               *)
BitmapIsConventional ==
  Usable => PagesOf(BitmapExtent(bitmapBase, totalPages)) \subseteq
              Described(info, Reclaimable)

(* Everything init took back is recorded as reserved.                      *)
TakenBackIsReserved ==
  Usable => TakenBack(bitmapBase, totalPages) \subseteq reserved

(* Reclaiming boot services memory meets no reserved frame above the       *)
(* cutoff.                                                                 *)
ReservedSparesBootServices ==
  Usable => \A p \in reserved \cap BootServicesPages(info) : p < Cutoff

(* The memory the manager may ever free is covered by the bitmap.          *)
BitmapCoversUsable ==
  Usable => Described(info, {"Conventional", "BootServices"}) \subseteq 0 .. (totalPages - 1)

IInv ==
  /\ TypeOK
  /\ EmptyUntilReady
  /\ FreeCountExact
  /\ HeldFramesAreUsed
  /\ LowMemoryNeverHandedOut
  /\ FramesAccounted
  /\ HintInSpan
  /\ BitmapIsConventional
  /\ TakenBackIsReserved
  /\ ReservedSparesBootServices
  /\ BitmapCoversUsable

-----------------------------------------------------------------------------
(* The region chosen for the bitmap has room for it.                       *)
LEMMA CeilingFits ==
  ASSUME NEW b \in Nat, NEW size \in Nat \ {0}, NEW n \in Nat, n * size > b
  PROVE  (b + size - 1) \div size <= n
<1> DEFINE q == (b + size - 1) \div size
<1>1. q \in Int /\ q * size <= b + size - 1
  OBVIOUS
<1>2. ASSUME q > n PROVE FALSE
  <2>1. q * size >= (n + 1) * size
    BY <1>1, <1>2
  <2>2. (n + 1) * size = n * size + size
    OBVIOUS
  <2>. QED BY <1>1, <2>1, <2>2
<1>. QED BY <1>1, <1>2

LEMMA CeilingIsNat ==
  ASSUME NEW b \in Nat, NEW size \in Nat \ {0}
  PROVE  (b + size - 1) \div size \in Nat
OBVIOUS

LEMMA BitmapBytesIsNat ==
  ASSUME NEW total \in Nat
  PROVE  BitmapBytes(total) \in Nat
<1>1. (total + WordBits - 1) \div WordBits \in Nat
  BY CeilingIsNat, PmmAssumption
<1>. QED BY <1>1, PmmAssumption DEF BitmapBytes

-----------------------------------------------------------------------------
(* Facts about the memory map.                                             *)
LEMMA MapEntries ==
  ASSUME NEW nfo \in BootInfos, NEW i \in DOMAIN nfo.map
  PROVE  /\ nfo.map[i] \in Descriptor
         /\ PagesOf(nfo.map[i]) \subseteq 0 .. (MaxPages - 1)
<1>1. nfo \in BootInfo
  BY PmmAssumption
<1>2. nfo.map \in Seq(Descriptor)
  BY <1>1 DEF BootInfo
<1>3. nfo.map[i] \in Descriptor
  BY <1>2
<1>. QED BY <1>3, FirmwareAssumption

LEMMA DescribedInMachine ==
  ASSUME NEW nfo \in BootInfos, NEW T
  PROVE  Described(nfo, T) \subseteq 0 .. (MaxPages - 1)
BY MapEntries DEF Described

LEMMA DescribedDisjoint ==
  ASSUME NEW nfo \in BootInfos, NEW S, NEW T, S \cap T = {}
  PROVE  Described(nfo, S) \cap Described(nfo, T) = {}
<1> SUFFICES ASSUME NEW i \in DOMAIN nfo.map, nfo.map[i].type \in S,
                    NEW j \in DOMAIN nfo.map, nfo.map[j].type \in T
             PROVE  PagesOf(nfo.map[i]) \cap PagesOf(nfo.map[j]) = {}
  BY DEF Described
<1>1. i # j
  OBVIOUS
<1>. QED BY <1>1, FirmwareAssumption

LEMMA DescribedUnion ==
  ASSUME NEW nfo, NEW S, NEW T
  PROVE  Described(nfo, S \cup T) = Described(nfo, S) \cup Described(nfo, T)
BY DEF Described

(* The bitmap covers every descriptor that is RAM.                         *)
LEMMA HighestPageCovers ==
  ASSUME NEW nfo \in BootInfos, NEW total \in Nat, IsHighestPage(total, nfo.map),
         NEW T \in SUBSET RamBacked
  PROVE  Described(nfo, T) \subseteq 0 .. (total - 1)
<1> SUFFICES ASSUME NEW i \in DOMAIN nfo.map, nfo.map[i].type \in T,
                    NEW p \in PagesOf(nfo.map[i])
             PROVE  p \in 0 .. (total - 1)
  BY DEF Described
<1>1. nfo.map[i] \in Descriptor
  BY MapEntries
<1>2. nfo.map[i].base \in Nat /\ nfo.map[i].pages \in Nat
  BY <1>1 DEF Descriptor
<1>3. End(nfo.map[i]) <= total
  BY DEF IsHighestPage, RamEnds
<1>. QED BY <1>2, <1>3 DEF End, PagesOf

-----------------------------------------------------------------------------
(* The count follows the bits, whatever set of bits is written.            *)
LEMMA FreeIsFinite ==
  ASSUME TypeOK
  PROVE  /\ IsFiniteSet(free)
         /\ \A S : IsFiniteSet(InRange(S))
<1>1. IsFiniteSet(0 .. (totalPages - 1))
  BY FS_Interval, PmmAssumption DEF TypeOK
<1>2. IsFiniteSet(free)
  BY <1>1, FS_Subset DEF TypeOK
<1>3. ASSUME NEW S PROVE IsFiniteSet(InRange(S))
  <2>1. InRange(S) \in SUBSET (0 .. (totalPages - 1))
    BY DEF InRange
  <2>. QED BY <1>1, <2>1, FS_Subset
<1>. QED BY <1>2, <1>3

LEMMA SetBitsCount ==
  ASSUME TypeOK, FreeCountExact, NEW S, PmmSetBits(S)
  PROVE  freePages' = Cardinality(free') /\ freePages' \in Nat
<1>1. IsFiniteSet(free) /\ IsFiniteSet(InRange(S))
  BY FreeIsFinite
<1>2. /\ IsFiniteSet(free \ InRange(S))
      /\ Cardinality(free \ InRange(S)) = Cardinality(free) - Cardinality(free \cap InRange(S))
  BY <1>1, FS_Difference
<1>3. Cardinality(free \ InRange(S)) \in Nat
  BY <1>2, FS_CardinalityType
<1>4. free \cap InRange(S) = InRange(S) \cap free
  OBVIOUS
<1>. QED BY <1>2, <1>3, <1>4 DEF PmmSetBits, FreeCountExact

LEMMA ClearBitsCount ==
  ASSUME TypeOK, FreeCountExact, NEW S, PmmClearBits(S)
  PROVE  freePages' = Cardinality(free') /\ freePages' \in Nat
<1> DEFINE R == InRange(S)
<1>1. IsFiniteSet(free) /\ IsFiniteSet(R)
  BY FreeIsFinite
<1>2. /\ IsFiniteSet(free \cup R)
      /\ Cardinality(free \cup R) = Cardinality(free) + Cardinality(R) - Cardinality(free \cap R)
  BY <1>1, FS_Union
<1>3. Cardinality(R \ free) = Cardinality(R) - Cardinality(R \cap free)
  BY <1>1, FS_Difference
<1>4. free \cap R = R \cap free
  OBVIOUS
<1>5. /\ Cardinality(free) \in Nat /\ Cardinality(R) \in Nat
      /\ Cardinality(R \cap free) \in Nat /\ Cardinality(free \cup R) \in Nat
  BY <1>1, <1>2, FS_CardinalityType, FS_Intersection
<1>. HIDE DEF R
<1>6. free' = free \cup R /\ freePages' = freePages + Cardinality(R \ free)
  BY DEF PmmClearBits, R
<1>. QED BY <1>2, <1>3, <1>4, <1>5, <1>6 DEF FreeCountExact

-----------------------------------------------------------------------------
(* The initial state, and one lemma per operation.                         *)
LEMMA InitIInv == Init => IInv
<1> SUFFICES ASSUME Init PROVE IInv
  OBVIOUS
<1>1. TypeOK
  BY PmmAssumption DEF Init, TypeOK
<1>2. FreeCountExact
  BY FS_EmptySet DEF Init, FreeCountExact
<1>. QED
  BY <1>1, <1>2 DEF Init, IInv, Usable, EmptyUntilReady, HeldFramesAreUsed,
     LowMemoryNeverHandedOut, FramesAccounted, HintInSpan, BitmapIsConventional,
     TakenBackIsReserved, ReservedSparesBootServices, BitmapCoversUsable

LEMMA BootPreservesIInv == IInv /\ MmInitPhysical => IInv'
<1> SUFFICES ASSUME IInv, MmInitPhysical PROVE IInv'
  OBVIOUS
<1>1. PICK total \in 0 .. MaxPages :
        /\ IsHighestPage(total, info.map)
        /\ totalPages' = total
        /\ \E i \in DOMAIN info.map :
             LET base == UsableBase(info.map[i])
                 taken == TakenBack(base, total)
                 released == Described(info, Reclaimable) \cap (0 .. (total - 1))
             IN  /\ IsBitmapRegion(i, info.map, total)
                 /\ bitmapBase' = base
                 /\ reserved' = taken
                 /\ free' = released \ taken
                 /\ freePages' = Cardinality(released) - Cardinality(released \cap taken)
  BY DEF MmInitPhysical
<1>2. PICK i \in DOMAIN info.map :
        LET base == UsableBase(info.map[i])
            taken == TakenBack(base, total)
            released == Described(info, Reclaimable) \cap (0 .. (total - 1))
        IN  /\ IsBitmapRegion(i, info.map, total)
            /\ bitmapBase' = base
            /\ reserved' = taken
            /\ free' = released \ taken
            /\ freePages' = Cardinality(released) - Cardinality(released \cap taken)
  BY <1>1
<1> DEFINE d == info.map[i]
           base == UsableBase(d)
           taken == TakenBack(base, total)
           conventional == Described(info, Reclaimable)
           released == conventional \cap (0 .. (total - 1))
           bitmap == PagesOf(BitmapExtent(base, total))
<1>3. /\ info \in BootInfos /\ info' = info /\ info \in BootInfo
      /\ total \in Nat /\ searchHint' = Cutoff /\ phase' = "ready" /\ Usable'
      /\ owned' = owned /\ ~Usable
  BY PmmAssumption DEF IInv, TypeOK, MmInitPhysical, Usable
<1>4. owned' = {}
  BY <1>3 DEF IInv, EmptyUntilReady
<1>5. /\ d \in Descriptor /\ d.base \in Nat /\ d.pages \in Nat
      /\ d.type \in Reclaimable /\ End(d) > Cutoff
      /\ (End(d) - base) * PageBytes > BitmapBytes(total)
  BY <1>2, <1>3, MapEntries DEF IsBitmapRegion, HoldsBitmap, Descriptor
<1>6. /\ base \in Nat /\ base >= d.base /\ base >= Cutoff
      /\ End(d) = d.base + d.pages /\ End(d) - base \in Nat
  BY <1>5, PmmAssumption DEF UsableBase, End
<1>7. bitmap \subseteq PagesOf(d)
  <2>1. /\ (BitmapBytes(total) + PageBytes - 1) \div PageBytes <= End(d) - base
        /\ (BitmapBytes(total) + PageBytes - 1) \div PageBytes \in Nat
    <3>1. BitmapBytes(total) \in Nat /\ PageBytes \in Nat \ {0}
      BY <1>3, BitmapBytesIsNat, PmmAssumption
    <3>. HIDE DEF base, d
    <3>. QED BY <1>5, <1>6, <3>1, CeilingFits, CeilingIsNat
  <2>. QED BY <1>5, <1>6, <2>1 DEF PagesOf, BitmapExtent
<1>8. bitmap \subseteq conventional
  BY <1>5, <1>7 DEF Described
<1>9. Cutoff < total
  <2>1. End(d) \in RamEnds(info.map)
    BY <1>5 DEF RamEnds, RamBacked, Reclaimable
  <2>2. End(d) <= total
    BY <1>1, <2>1 DEF IsHighestPage
  <2>3. Cutoff < End(d) /\ Cutoff \in Nat /\ End(d) \in Nat
    BY <1>5, <1>6, PmmAssumption
  <2>. QED BY <1>3, <2>2, <2>3
<1>10. Described(info, {"Conventional", "BootServices"}) \subseteq 0 .. (total - 1)
  BY <1>1, <1>3, HighestPageCovers DEF RamBacked
<1>11. released = conventional
  <2>1. conventional \subseteq 0 .. (total - 1)
    BY <1>1, <1>3, HighestPageCovers DEF RamBacked, Reclaimable
  <2>. QED BY <2>1
<1>12. taken \subseteq Nat
  <2>1. PagesOf(info.mapBuffer) \subseteq Nat /\ Framebuffer \subseteq Nat
    BY <1>3 DEF BootInfo, Extent, PagesOf, Framebuffer
  <2>2. bitmap \subseteq Nat
    BY <1>5, <1>6, <1>7 DEF PagesOf
  <2>3. 0 .. (Cutoff - 1) \subseteq Nat
    BY PmmAssumption
  <2>4. taken = {0} \cup (0 .. (Cutoff - 1)) \cup bitmap \cup PagesOf(info.mapBuffer)
                  \cup Framebuffer
    BY DEF TakenBack
  <2>. HIDE DEF base, taken, bitmap, d
  <2>5. ASSUME NEW p \in taken PROVE p \in Nat
    BY <2>1, <2>2, <2>3, <2>4
  <2>. QED BY <2>5
<1>13. /\ freePages' = Cardinality(free') /\ freePages' \in Nat
  <2>1. IsFiniteSet(released)
    <3>1. IsFiniteSet(0 .. (total - 1))
      BY <1>3, FS_Interval
    <3>. QED BY <3>1, FS_Subset
  <2>2. Cardinality(released \ taken) = Cardinality(released) - Cardinality(released \cap taken)
    BY <2>1, FS_Difference
  <2>3. Cardinality(released \ taken) \in Nat
    BY <2>1, FS_Difference, FS_CardinalityType
  <2>. QED BY <1>2, <2>2, <2>3
<1>. HIDE DEF d, base, taken, conventional, released, bitmap
<1>14. free' = conventional \ taken /\ reserved' = taken /\ bitmapBase' = base
  BY <1>2, <1>11 DEF base, taken, released, conventional, d
<1>15. TypeOK'
  BY <1>1, <1>3, <1>4, <1>6, <1>11, <1>12, <1>13, <1>14, PmmAssumption DEF TypeOK, released
<1>16. FramesAccounted'
  <2>1. Described(info, Reclaimable)' = conventional
    BY <1>3 DEF conventional, Described
  <2>. QED BY <1>3, <1>4, <1>14, <2>1 DEF FramesAccounted
<1>17. TakenBackIsReserved' /\ BitmapIsConventional'
  <2>1. TakenBack(bitmapBase, totalPages)' = taken
    BY <1>1, <1>3, <1>14 DEF TakenBack, taken, Framebuffer, BitmapExtent, BitmapBytes, PagesOf
  <2>2. PagesOf(BitmapExtent(bitmapBase, totalPages))' = bitmap
    BY <1>1, <1>14 DEF bitmap, BitmapExtent, BitmapBytes, PagesOf
  <2>3. Described(info, Reclaimable)' = conventional
    BY <1>3 DEF conventional, Described
  <2>. QED BY <1>8, <1>14, <2>1, <2>2, <2>3 DEF TakenBackIsReserved, BitmapIsConventional
<1>18. ReservedSparesBootServices'
  <2>1. conventional \cap BootServicesPages(info) = {}
    BY <1>3, DescribedDisjoint DEF conventional, BootServicesPages, Reclaimable
  <2>2. /\ PagesOf(info.mapBuffer) \cap BootServicesPages(info) = {}
        /\ Framebuffer \cap BootServicesPages(info) = {}
    BY <1>3, FirmwareAssumption DEF Framebuffer
  <2>3. BootServicesPages(info)' = BootServicesPages(info)
    BY <1>3 DEF BootServicesPages, Described
  <2>4. ASSUME NEW p \in taken, p \in BootServicesPages(info) PROVE p < Cutoff
    BY <1>8, <2>1, <2>2, <2>4, PmmAssumption DEF taken, TakenBack, bitmap
  <2>. QED BY <1>14, <2>3, <2>4 DEF ReservedSparesBootServices
<1>19. BitmapCoversUsable'
  BY <1>1, <1>3, <1>10 DEF BitmapCoversUsable, Described
<1>20. HintInSpan' /\ EmptyUntilReady' /\ FreeCountExact'
  BY <1>1, <1>3, <1>9, <1>13, PmmAssumption DEF HintInSpan, EmptyUntilReady, FreeCountExact
<1>21. HeldFramesAreUsed' /\ LowMemoryNeverHandedOut'
  BY <1>4 DEF HeldFramesAreUsed, LowMemoryNeverHandedOut
<1>. QED
  BY <1>15, <1>16, <1>17, <1>18, <1>19, <1>20, <1>21 DEF IInv

LEMMA FailedBootPreservesIInv == IInv /\ MmInitPhysicalFails => IInv'
<1> SUFFICES ASSUME IInv, MmInitPhysicalFails PROVE IInv'
  OBVIOUS
<1>1. /\ ~Usable /\ ~Usable' /\ phase' = "failed"
      /\ UNCHANGED <<info, bitmapBase, free, freePages, searchHint, reserved, owned>>
  BY DEF MmInitPhysicalFails, Usable
<1>2. free = {} /\ owned = {} /\ freePages = 0
  BY <1>1 DEF IInv, EmptyUntilReady
<1>3. totalPages' \in 0 .. MaxPages
  BY DEF MmInitPhysicalFails, IInv, TypeOK
<1>4. TypeOK'
  BY <1>1, <1>2, <1>3 DEF IInv, TypeOK
<1>5. FreeCountExact'
  BY <1>1, <1>2, FS_EmptySet DEF FreeCountExact
<1>. QED
  BY <1>1, <1>2, <1>4, <1>5 DEF IInv, EmptyUntilReady, HeldFramesAreUsed,
     LowMemoryNeverHandedOut, FramesAccounted, HintInSpan, BitmapIsConventional,
     TakenBackIsReserved, ReservedSparesBootServices, BitmapCoversUsable

(* A run that a sweep finds lies above the cutoff, inside the bitmap, and  *)
(* every frame of it is free.                                              *)
LEMMA FoundRunIsFree ==
  ASSUME IInv, Usable, NEW p \in 0 .. (totalPages - 1), NEW count \in 1 .. MaxPages,
         Finds(p, count)
  PROVE  /\ Run(p, count) \subseteq free
         /\ p >= Cutoff /\ p + count <= totalPages
<1>1. /\ Cutoff \in Nat /\ searchHint \in Nat /\ totalPages \in Nat /\ p \in Nat /\ count \in Nat
      /\ Cutoff <= searchHint /\ searchHint < totalPages
  BY PmmAssumption DEF IInv, TypeOK, HintInSpan
<1>2. \/ StartsRun(p, count, searchHint, totalPages)
      \/ StartsRun(p, count, Cutoff, searchHint)
  BY DEF Finds, SweepFinds
<1>3. /\ p >= Cutoff /\ p + count <= totalPages
      /\ \A q \in Run(p, count) : ~PmmTestBit(q)
  BY <1>1, <1>2 DEF StartsRun
<1>. QED BY <1>3 DEF PmmTestBit

(* What the operations after boot have in common: they leave info,         *)
(* totalPages and bitmapBase alone and only ever add to reserved.          *)
LEMMA BootFactsPersist ==
  ASSUME IInv, Usable, Usable', reserved \subseteq reserved',
         UNCHANGED <<info, totalPages, bitmapBase>>
  PROVE  /\ EmptyUntilReady' /\ BitmapIsConventional' /\ TakenBackIsReserved'
         /\ BitmapCoversUsable'
         /\ Described(info, Reclaimable)' = Described(info, Reclaimable)
         /\ BootServicesPages(info)' = BootServicesPages(info)
<1>1. EmptyUntilReady'
  BY DEF EmptyUntilReady
<1>2. TakenBack(bitmapBase, totalPages)' = TakenBack(bitmapBase, totalPages)
  BY DEF TakenBack, Framebuffer, BitmapExtent, BitmapBytes, PagesOf
<1>3. PagesOf(BitmapExtent(bitmapBase, totalPages))' = PagesOf(BitmapExtent(bitmapBase, totalPages))
  BY DEF BitmapExtent, BitmapBytes, PagesOf
<1>4. \A T : Described(info, T)' = Described(info, T)
  BY DEF Described
<1>5. /\ Described(info, Reclaimable)' = Described(info, Reclaimable)
      /\ BootServicesPages(info)' = BootServicesPages(info)
  BY DEF Described, BootServicesPages
<1>6. BitmapIsConventional'
  BY <1>3, <1>5 DEF IInv, BitmapIsConventional
<1>7. TakenBackIsReserved'
  BY <1>2 DEF IInv, TakenBackIsReserved
<1>8. BitmapCoversUsable'
  BY DEF IInv, BitmapCoversUsable, Described
<1>. QED BY <1>1, <1>5, <1>6, <1>7, <1>8

LEMMA AllocatePreservesIInv ==
  ASSUME IInv, NEW count \in 1 .. MaxPages, MmAllocatePages(count)
  PROVE  IInv'
<1>1. PICK p \in 0 .. (totalPages - 1) :
        /\ Finds(p, count)
        /\ PmmSetBits(Run(p, count))
        /\ searchHint' = HintAfter(p, count)
        /\ owned' = owned \cup Run(p, count)
  BY DEF MmAllocatePages
<1>2. /\ Usable /\ Usable' /\ phase' = phase
      /\ UNCHANGED <<info, totalPages, bitmapBase>> /\ reserved' = reserved
  BY DEF MmAllocatePages, Usable
<1>3. /\ Run(p, count) \subseteq free /\ p >= Cutoff /\ p + count <= totalPages
      /\ Cutoff \in Nat /\ totalPages \in Nat /\ p \in Nat /\ count \in Nat /\ count > 0
      /\ Cutoff < totalPages
  BY <1>1, <1>2, FoundRunIsFree, PmmAssumption DEF IInv, TypeOK, HintInSpan
<1>4. /\ EmptyUntilReady' /\ BitmapIsConventional' /\ TakenBackIsReserved'
      /\ BitmapCoversUsable'
      /\ Described(info, Reclaimable)' = Described(info, Reclaimable)
      /\ BootServicesPages(info)' = BootServicesPages(info)
  BY <1>2, BootFactsPersist
<1>5. freePages' = Cardinality(free') /\ freePages' \in Nat
  BY <1>1, SetBitsCount DEF IInv
<1>6. free' = free \ Run(p, count)
  BY <1>1, <1>3 DEF PmmSetBits, InRange, IInv, TypeOK
<1>7. TypeOK'
  <2>1. searchHint' \in Nat
    BY <1>1, <1>3 DEF HintAfter
  <2>2. owned' \subseteq 0 .. (totalPages - 1)
    BY <1>1, <1>3 DEF IInv, TypeOK
  <2>3. free' \subseteq 0 .. (totalPages - 1)
    BY <1>6 DEF IInv, TypeOK
  <2>. QED BY <1>2, <1>5, <2>1, <2>2, <2>3 DEF IInv, TypeOK
<1>8. HeldFramesAreUsed'
  BY <1>1, <1>6 DEF IInv, HeldFramesAreUsed
<1>9. LowMemoryNeverHandedOut'
  BY <1>1, <1>3 DEF IInv, LowMemoryNeverHandedOut, Run
<1>10. FramesAccounted'
  <2>1. free' \cup owned' = free \cup owned
    BY <1>1, <1>3, <1>6
  <2>. QED BY <1>2, <1>4, <2>1 DEF IInv, FramesAccounted
<1>11. HintInSpan'
  BY <1>1, <1>2, <1>3 DEF HintInSpan, HintAfter
<1>12. ReservedSparesBootServices'
  BY <1>2, <1>4 DEF IInv, ReservedSparesBootServices
<1>. QED
  BY <1>4, <1>5, <1>7, <1>8, <1>9, <1>10, <1>11, <1>12 DEF IInv, FreeCountExact

LEMMA FreePreservesIInv ==
  ASSUME IInv, NEW first \in 0 .. (MaxPages - 1), NEW count \in 1 .. MaxPages,
         MmFreePages(first, count)
  PROVE  IInv'
<1>1. /\ Usable /\ Usable' /\ phase' = phase
      /\ UNCHANGED <<info, totalPages, bitmapBase>> /\ reserved' = reserved
      /\ Run(first, count) \subseteq owned
      /\ PmmClearBits(Run(first, count))
      /\ searchHint' = IF first < searchHint THEN first ELSE searchHint
      /\ owned' = owned \ Run(first, count)
  BY DEF MmFreePages, Usable
<1>2. /\ EmptyUntilReady' /\ BitmapIsConventional' /\ TakenBackIsReserved'
      /\ BitmapCoversUsable'
      /\ Described(info, Reclaimable)' = Described(info, Reclaimable)
      /\ BootServicesPages(info)' = BootServicesPages(info)
  BY <1>1, BootFactsPersist
<1>3. first \in owned
  BY <1>1, PmmAssumption DEF Run
<1>4. freePages' = Cardinality(free') /\ freePages' \in Nat
  BY <1>1, ClearBitsCount DEF IInv
<1>5. free' = free \cup Run(first, count)
  BY <1>1 DEF PmmClearBits, InRange, IInv, TypeOK
<1>6. TypeOK'
  <2>1. free' \subseteq 0 .. (totalPages - 1) /\ owned' \subseteq 0 .. (totalPages - 1)
    BY <1>1, <1>5 DEF IInv, TypeOK
  <2>2. searchHint' \in Nat
    BY <1>1, PmmAssumption DEF IInv, TypeOK
  <2>. QED BY <1>1, <1>4, <2>1, <2>2 DEF IInv, TypeOK
<1>7. HeldFramesAreUsed'
  BY <1>1, <1>5 DEF IInv, HeldFramesAreUsed
<1>8. LowMemoryNeverHandedOut'
  BY <1>1 DEF IInv, LowMemoryNeverHandedOut
<1>9. FramesAccounted'
  <2>1. free' \cup owned' = free \cup owned
    BY <1>1, <1>5
  <2>. QED BY <1>1, <1>2, <2>1 DEF IInv, FramesAccounted
<1>10. HintInSpan'
  <2>1. first >= Cutoff /\ Cutoff <= searchHint /\ searchHint < totalPages
    BY <1>1, <1>3 DEF IInv, LowMemoryNeverHandedOut, HintInSpan
  <2>2. /\ first \in Nat /\ Cutoff \in Nat /\ searchHint \in Nat
        /\ totalPages \in Nat /\ totalPages' = totalPages
    BY <1>1, PmmAssumption DEF IInv, TypeOK
  <2>. QED BY <1>1, <2>1, <2>2 DEF HintInSpan
<1>11. ReservedSparesBootServices'
  BY <1>1, <1>2 DEF IInv, ReservedSparesBootServices
<1>. QED
  BY <1>2, <1>4, <1>6, <1>7, <1>8, <1>9, <1>10, <1>11 DEF IInv, FreeCountExact

LEMMA ReservePreservesIInv ==
  ASSUME IInv, NEW first \in 0 .. (MaxPages - 1), NEW count \in 1 .. MaxPages,
         MmReservePhysicalRange(first, count)
  PROVE  IInv'
<1> DEFINE R == Run(first, count)
<1>1. /\ Usable /\ Usable' /\ phase' = phase
      /\ UNCHANGED <<info, totalPages, bitmapBase, searchHint>> /\ owned' = owned
      /\ R \cap (owned \cup BootServicesPages(info)) = {}
      /\ PmmSetBits(R)
      /\ reserved' = reserved \cup R
  BY DEF MmReservePhysicalRange, Usable
<1>2. /\ EmptyUntilReady' /\ BitmapIsConventional' /\ TakenBackIsReserved'
      /\ BitmapCoversUsable'
      /\ Described(info, Reclaimable)' = Described(info, Reclaimable)
      /\ BootServicesPages(info)' = BootServicesPages(info)
  BY <1>1, BootFactsPersist
<1>3. R \subseteq Nat
  BY PmmAssumption DEF Run
<1>4. freePages' = Cardinality(free') /\ freePages' \in Nat
  BY <1>1, SetBitsCount DEF IInv
<1>. HIDE DEF R
<1>5. free' = free \ R
  BY <1>1 DEF PmmSetBits, InRange, IInv, TypeOK
<1>6. TypeOK'
  BY <1>1, <1>3, <1>4, <1>5 DEF IInv, TypeOK
<1>7. HeldFramesAreUsed'
  BY <1>1, <1>5 DEF IInv, HeldFramesAreUsed
<1>8. LowMemoryNeverHandedOut'
  BY <1>1 DEF IInv, LowMemoryNeverHandedOut
<1>9. FramesAccounted'
  <2>1. free' \cup owned' = (free \cup owned) \ R
    BY <1>1, <1>5
  <2>. QED BY <1>1, <1>2, <2>1 DEF IInv, FramesAccounted
<1>10. HintInSpan'
  BY <1>1 DEF IInv, HintInSpan
<1>11. ReservedSparesBootServices'
  BY <1>1, <1>2 DEF IInv, ReservedSparesBootServices
<1>. QED
  BY <1>2, <1>4, <1>6, <1>7, <1>8, <1>9, <1>10, <1>11 DEF IInv, FreeCountExact

(* Nobody holds boot services memory before it is reclaimed.               *)
LEMMA HeldSparesBootServices ==
  ASSUME IInv, phase = "ready"
  PROVE  /\ owned \cap BootServicesPages(info) = {}
         /\ BootServicesPages(info) \subseteq 0 .. (totalPages - 1)
<1>1. Usable /\ info \in BootInfos
  BY DEF Usable, IInv, TypeOK
<1>2. owned \subseteq Described(info, Reclaimable)
  BY <1>1 DEF IInv, FramesAccounted
<1>3. Described(info, Reclaimable) \cap BootServicesPages(info) = {}
  BY <1>1, DescribedDisjoint DEF Reclaimable, BootServicesPages
<1>4. BootServicesPages(info) \subseteq Described(info, {"Conventional", "BootServices"})
  BY DEF BootServicesPages, Described
<1>. QED BY <1>1, <1>2, <1>3, <1>4 DEF IInv, BitmapCoversUsable

LEMMA ReclaimPreservesIInv == IInv /\ MmReclaimBootServices => IInv'
<1> SUFFICES ASSUME IInv, MmReclaimBootServices PROVE IInv'
  OBVIOUS
<1> DEFINE B == BootServicesPages(info)
<1>1. /\ phase = "ready" /\ phase' = "reclaimed" /\ Usable /\ Usable'
      /\ UNCHANGED <<info, totalPages, bitmapBase, searchHint>>
      /\ owned' = owned /\ reserved' = reserved
      /\ PmmClearBits(B)
  BY DEF MmReclaimBootServices, Usable
<1>2. /\ EmptyUntilReady' /\ BitmapIsConventional' /\ TakenBackIsReserved'
      /\ BitmapCoversUsable'
      /\ Described(info, Reclaimable)' = Described(info, Reclaimable)
      /\ B' = B
  BY <1>1, BootFactsPersist
<1>3. owned \cap B = {} /\ B \subseteq 0 .. (totalPages - 1)
  BY <1>1, HeldSparesBootServices
<1>4. freePages' = Cardinality(free') /\ freePages' \in Nat
  BY <1>1, ClearBitsCount DEF IInv
<1>5. free' = free \cup B
  BY <1>1, <1>3 DEF PmmClearBits, InRange
<1>6. TypeOK'
  BY <1>1, <1>3, <1>4, <1>5 DEF IInv, TypeOK
<1>7. HeldFramesAreUsed'
  BY <1>1, <1>3, <1>5 DEF IInv, HeldFramesAreUsed
<1>8. LowMemoryNeverHandedOut'
  BY <1>1 DEF IInv, LowMemoryNeverHandedOut
<1>9. FramesAccounted'
  <2>1. free \cup owned = Described(info, Reclaimable) \ reserved
    BY <1>1 DEF IInv, FramesAccounted
  <2>. QED BY <1>1, <1>2, <1>5, <2>1 DEF FramesAccounted
<1>10. HintInSpan'
  BY <1>1 DEF IInv, HintInSpan
<1>11. ReservedSparesBootServices'
  BY <1>1, <1>2 DEF IInv, ReservedSparesBootServices
<1>. QED
  BY <1>2, <1>4, <1>6, <1>7, <1>8, <1>9, <1>10, <1>11 DEF IInv, FreeCountExact

LEMMA NextPreservesIInv == IInv /\ [Next]_vars => IInv'
<1> SUFFICES ASSUME IInv, [Next]_vars PROVE IInv'
  OBVIOUS
<1>1. CASE MmInitPhysical
  BY <1>1, BootPreservesIInv
<1>2. CASE MmInitPhysicalFails
  BY <1>2, FailedBootPreservesIInv
<1>3. CASE MmReclaimBootServices
  BY <1>3, ReclaimPreservesIInv
<1>4. CASE \E count \in 1 .. MaxPages : MmAllocatePages(count)
  BY <1>4, AllocatePreservesIInv
<1>5. CASE \E first \in 0 .. (MaxPages - 1), count \in 1 .. MaxPages :
             MmFreePages(first, count) \/ MmReservePhysicalRange(first, count)
  BY <1>5, FreePreservesIInv, ReservePreservesIInv
<1>6. CASE UNCHANGED vars
  BY <1>6 DEF vars, IInv, TypeOK, Usable, EmptyUntilReady, FreeCountExact,
     HeldFramesAreUsed, LowMemoryNeverHandedOut, FramesAccounted, HintInSpan,
     BitmapIsConventional, TakenBackIsReserved, ReservedSparesBootServices,
     BitmapCoversUsable, Described, BootServicesPages, TakenBack, Framebuffer,
     BitmapExtent, BitmapBytes, PagesOf
<1>. QED
  BY <1>1, <1>2, <1>3, <1>4, <1>5, <1>6 DEF Next

-----------------------------------------------------------------------------
(* The variables of module Pmm stay within their types on every machine.   *)
THEOREM TypeCorrect == Spec => []TypeOK
<1>1. IInv => TypeOK
  BY DEF IInv
<1>. QED BY InitIInv, NextPreservesIInv, <1>1, PTL DEF Spec

(* PmmFreePages is the number of clear bits of the bitmap, whatever ranges *)
(* the callers set and clear (PMM.C:113-137).                              *)
THEOREM FreeCountIsExact == Spec => []FreeCountExact
<1>1. IInv => FreeCountExact
  BY DEF IInv
<1>. QED BY InitIInv, NextPreservesIInv, <1>1, PTL DEF Spec

(* A frame a caller holds is never marked free, so it is not handed out    *)
(* twice (PMM.C:393-401, 472-501).                                         *)
THEOREM NoFrameHandedOutTwice == Spec => []HeldFramesAreUsed
<1>1. IInv => HeldFramesAreUsed
  BY DEF IInv
<1>. QED BY InitIInv, NextPreservesIInv, <1>1, PTL DEF Spec

(* The first megabyte is never handed out, although reclaiming boot        *)
(* services memory clears bits there (PMM.C:34-38).                        *)
THEOREM LowMemorySafe == Spec => []LowMemoryNeverHandedOut
<1>1. IInv => LowMemoryNeverHandedOut
  BY DEF IInv
<1>. QED BY InitIInv, NextPreservesIInv, <1>1, PTL DEF Spec

(* The hint never leaves the span the two sweeps cover (PMM.C:371-400).    *)
THEOREM HintStaysInSpan == Spec => []HintInSpan
<1>1. IInv => HintInSpan
  BY DEF IInv
<1>. QED BY InitIInv, NextPreservesIInv, <1>1, PTL DEF Spec

(* No frame is lost and none is invented by any sequence of calls          *)
(* (PMM.C:297-344, 419-429, 472-501).                                      *)
THEOREM NoFrameLost == Spec => []FramesAccounted
<1>1. IInv => FramesAccounted
  BY DEF IInv
<1>. QED BY InitIInv, NextPreservesIInv, <1>1, PTL DEF Spec

(* Only memory that is the kernel's to give is handed out: no frame of the *)
(* bitmap, the memory map, the framebuffer or a reserved range             *)
(* (PMM.C:139-168, 313-344).                                               *)
THEOREM OnlyOursHandedOut == Spec => []HandedOutIsOurs
<1>1. ASSUME IInv PROVE HandedOutIsOurs
  <2>1. CASE ~Usable
    BY <1>1, <2>1 DEF IInv, EmptyUntilReady, HandedOutIsOurs
  <2>2. CASE Usable
    <3>1. owned \subseteq (Described(info, Reclaimable) \ reserved)
            \cup (IF phase = "reclaimed" THEN BootServicesPages(info) ELSE {})
      BY <1>1, <2>2 DEF IInv, FramesAccounted
    <3>2. ASSUME NEW p \in owned, p \in reserved PROVE FALSE
      <4>1. p \in BootServicesPages(info)
        BY <3>1, <3>2
      <4>2. p < Cutoff
        BY <1>1, <2>2, <3>2, <4>1 DEF IInv, ReservedSparesBootServices
      <4>3. p >= Cutoff /\ p \in Int /\ Cutoff \in Int
        BY <1>1, <3>2, PmmAssumption DEF IInv, LowMemoryNeverHandedOut, TypeOK
      <4>. QED BY <4>2, <4>3
    <3>3. TakenBack(bitmapBase, totalPages) \subseteq reserved
      BY <1>1, <2>2 DEF IInv, TakenBackIsReserved
    <3>. QED BY <3>1, <3>2, <3>3 DEF HandedOutIsOurs, TakenBack
  <2>. QED BY <2>1, <2>2
<1>. QED BY InitIInv, NextPreservesIInv, <1>1, PTL DEF Spec

-----------------------------------------------------------------------------
(* A sweep that has a run to find finds the lowest one.                    *)
LEMMA SweepFindsLowest ==
  ASSUME NEW from \in Nat, NEW limit \in Nat, NEW count \in Nat,
         NEW p \in Nat, StartsRun(p, count, from, limit)
  PROVE  \E q \in Nat : SweepFinds(q, count, from, limit)
<1> DEFINE Lt == OpToRel(<, Nat)
           Starts == {q \in Nat : StartsRun(q, count, from, limit)}
<1>1. IsWellFoundedOn(Lt, Nat)
  BY NatLessThanWellFounded
<1>2. Starts \subseteq Nat /\ Starts # {}
  OBVIOUS
<1>3. PICK q \in Starts : \A r \in Starts : ~ (<<r, q>> \in Lt)
  <2> HIDE DEF Lt, Starts
  <2>. QED BY <1>1, <1>2, WFMin
<1>4. ASSUME NEW r \in from .. (q - 1) PROVE ~StartsRun(r, count, from, limit)
  <2>1. q \in Nat /\ r \in Nat /\ r < q
    OBVIOUS
  <2>2. <<r, q>> \in Lt
    BY <2>1 DEF OpToRel
  <2>. QED BY <1>3, <2>1, <2>2
<1>. QED BY <1>3, <1>4 DEF SweepFinds

(* Together the two sweeps leave nothing out but what straddles the hint.  *)
LEMMA NothingMissed ==
  ASSUME IInv, Usable, NEW count \in 1 .. MaxPages,
         NEW p \in Cutoff .. (totalPages - 1), Run(p, count) \subseteq free,
         p >= searchHint \/ p + count <= searchHint
  PROVE  \E q \in 0 .. MaxPages : Finds(q, count)
<1>1. /\ Cutoff \in Nat /\ searchHint \in Nat /\ totalPages \in 0 .. MaxPages
      /\ MaxPages \in Nat /\ free \subseteq 0 .. (totalPages - 1)
      /\ Cutoff <= searchHint /\ searchHint < totalPages
      /\ p \in Nat /\ count \in Nat
  BY PmmAssumption DEF IInv, TypeOK, HintInSpan
<1>2. p + count - 1 \in Run(p, count)
  BY <1>1 DEF Run
<1>3. p + count <= totalPages
  BY <1>1, <1>2
<1>4. \A q \in Run(p, count) : ~PmmTestBit(q)
  <2>1. \A q \in free : q < totalPages
    BY <1>1
  <2>2. \A q \in free : ~(q >= totalPages)
    BY <1>1, <2>1
  <2>. QED BY <2>2 DEF PmmTestBit
<1>5. ASSUME NEW from \in Nat, NEW limit \in 0 .. totalPages, NEW q \in Nat,
             SweepFinds(q, count, from, limit)
      PROVE  q \in 0 .. MaxPages
  BY <1>1, <1>5 DEF SweepFinds, StartsRun
<1>6. CASE \E q \in Nat : StartsRun(q, count, searchHint, totalPages)
  <2>1. PICK q \in Nat : SweepFinds(q, count, searchHint, totalPages)
    BY <1>1, <1>6, SweepFindsLowest
  <2>2. q \in 0 .. MaxPages
    BY <1>1, <1>5, <2>1
  <2>. QED BY <2>1, <2>2 DEF Finds
<1>7. CASE \A q \in Nat : ~StartsRun(q, count, searchHint, totalPages)
  <2>1. SweepFails(count, searchHint, totalPages)
    BY <1>1, <1>7 DEF SweepFails
  <2>2. ~StartsRun(p, count, searchHint, totalPages)
    BY <1>1, <1>7
  <2>3. StartsRun(p, count, Cutoff, searchHint)
    BY <1>1, <1>3, <1>4, <2>2 DEF StartsRun
  <2>4. PICK q \in Nat : SweepFinds(q, count, Cutoff, searchHint)
    BY <1>1, <2>3, SweepFindsLowest
  <2>5. q \in 0 .. MaxPages
    BY <1>1, <1>5, <2>4
  <2>. QED BY <2>1, <2>4, <2>5 DEF Finds
<1>. QED BY <1>6, <1>7

(* A call that finds nothing missed only runs that straddle the hint, on   *)
(* every machine and wherever the hint stands (PMM.C:363-412).             *)
THEOREM NoRunMissed == Spec => []SearchComplete
<1>1. ASSUME IInv PROVE SearchComplete
  <2>1. SUFFICES ASSUME Usable, NEW count \in 1 .. MaxPages,
                        \A q \in 0 .. MaxPages : ~Finds(q, count),
                        NEW p \in Cutoff .. (totalPages - 1),
                        Run(p, count) \subseteq free
                 PROVE  p < searchHint /\ searchHint < p + count
    BY DEF SearchComplete
  <2>2. ~(p >= searchHint \/ p + count <= searchHint)
    BY <1>1, <2>1, NothingMissed
  <2>3. /\ searchHint \in Int /\ p \in Int /\ count \in Int
    BY <1>1, PmmAssumption DEF IInv, TypeOK
  <2>. QED BY <2>2, <2>3
<1>. QED BY InitIInv, NextPreservesIInv, <1>1, PTL DEF Spec

-----------------------------------------------------------------------------
(* The largest of a non-empty set of bounded numbers.                      *)
LEMMA BoundedSetHasMax ==
  ASSUME NEW n \in Nat, NEW S \in SUBSET (0 .. n), S # {}
  PROVE  Max(S) \in S /\ \A y \in S : Max(S) >= y
<1> DEFINE Lt == OpToRel(<, Nat)
           Distances == {d \in Nat : n - d \in S}
<1>1. IsWellFoundedOn(Lt, Nat)
  BY NatLessThanWellFounded
<1>2. Distances \subseteq Nat /\ Distances # {}
  <2>1. PICK s \in S : TRUE
    OBVIOUS
  <2>2. s \in Int /\ n - s \in Nat /\ n - (n - s) = s
    BY <2>1
  <2>. QED BY <2>1, <2>2
<1>3. PICK d \in Distances : \A e \in Distances : ~ (<<e, d>> \in Lt)
  <2> HIDE DEF Lt, Distances
  <2>. QED BY <1>1, <1>2, WFMin
<1>4. ASSUME NEW y \in S PROVE n - d >= y
  <2>0. y \in 0 .. n /\ d \in Nat
    BY <1>3
  <2>1. n - y \in Nat /\ n - (n - y) = y /\ d \in Nat /\ y \in Nat
    BY <2>0
  <2>2. n - y \in Distances
    BY <2>1
  <2>3. ~(n - y < d)
    BY <1>3, <2>1, <2>2 DEF OpToRel
  <2>. QED BY <2>1, <2>3
<1>5. n - d \in S
  BY <1>3
<1>. QED BY <1>4, <1>5 DEF Max

(* A run may only start where no bit of it is set and it ends in time.     *)
RunFits(r, count, limit) == StartsRun(r, count, r, limit)

(* Frames that start no run may be passed over.                            *)
LEMMA PassedOver ==
  ASSUME NEW p \in Nat, NEW next \in Nat, p <= next, NEW count \in Nat, NEW limit \in Nat,
         \A r \in p .. (next - 1) : ~RunFits(r, count, limit)
  PROVE  \A q \in Nat : SweepFinds(q, count, p, limit) <=> SweepFinds(q, count, next, limit)
<1>1. ASSUME NEW q \in Nat, SweepFinds(q, count, p, limit)
      PROVE  SweepFinds(q, count, next, limit)
  <2>1. RunFits(q, count, limit) /\ p <= q
    BY <1>1 DEF SweepFinds, StartsRun, RunFits
  <2>2. next <= q
    BY <2>1
  <2>3. ASSUME NEW r \in next .. (q - 1) PROVE ~StartsRun(r, count, next, limit)
    BY <1>1, <2>3 DEF SweepFinds, StartsRun
  <2>. QED BY <2>1, <2>2, <2>3 DEF SweepFinds, StartsRun, RunFits
<1>2. ASSUME NEW q \in Nat, SweepFinds(q, count, next, limit)
      PROVE  SweepFinds(q, count, p, limit)
  <2>1. RunFits(q, count, limit) /\ next <= q
    BY <1>2 DEF SweepFinds, StartsRun, RunFits
  <2>2. ASSUME NEW r \in p .. (q - 1) PROVE ~StartsRun(r, count, p, limit)
    <3>1. CASE r < next
      BY <3>1 DEF RunFits, StartsRun
    <3>2. CASE next <= r
      BY <1>2, <3>2 DEF SweepFinds, StartsRun
    <3>. QED BY <3>1, <3>2
  <2>. QED BY <2>1, <2>2 DEF SweepFinds, StartsRun, RunFits
<1>. QED BY <1>1, <1>2

(* A word in use has no frame that starts a run.                           *)
LEMMA WordPassedOver ==
  ASSUME NEW p \in Nat, SkipsWord(p), NEW count \in Nat \ {0}, NEW limit \in Nat,
         NEW r \in Nat, p <= r, r < p + WordBits
  PROVE  ~RunFits(r, count, limit)
<1>1. WordBits \in Nat \ {0} /\ p % WordBits = 0
  BY PmmAssumption DEF SkipsWord
<1>2. (p \div WordBits) * WordBits = p
  <2>1. p = WordBits * (p \div WordBits) + (p % WordBits) /\ p \div WordBits \in Int
    BY <1>1
  <2>. QED BY <1>1, <2>1
<1>3. r \notin free
  <2>1. r \in (p \div WordBits) * WordBits .. ((p \div WordBits) * WordBits + WordBits - 1)
    BY <1>1, <1>2
  <2>. QED BY <2>1 DEF SkipsWord, WordInUse
<1>4. r \in Run(r, count)
  BY <1>1 DEF Run
<1>. QED BY <1>3, <1>4 DEF RunFits, StartsRun, PmmTestBit

(* A frame in use starts no run.                                           *)
LEMMA UsedStartsNoRun ==
  ASSUME NEW p \in Nat, PmmTestBit(p), NEW count \in Nat \ {0}, NEW limit \in Nat
  PROVE  ~RunFits(p, count, limit)
<1>1. p \in Run(p, count)
  BY DEF Run
<1>. QED BY <1>1 DEF RunFits, StartsRun

(* What the inner loop counts: a whole run, or the frames before one that  *)
(* ends every run that holds it.                                           *)
LEMMA RunCounted ==
  ASSUME NEW p \in Nat, NEW count \in Nat \ {0}, NEW limit \in Nat, p < limit
  PROVE  /\ RunLength(p, count, limit) \in 0 .. count
         /\ RunLength(p, count, limit) = count => RunFits(p, count, limit)
         /\ RunLength(p, count, limit) # count =>
              \A r \in p .. (p + RunLength(p, count, limit)) : ~RunFits(r, count, limit)
<1> DEFINE Counted == {r \in 0 .. count : p + r <= limit /\ \A q \in Run(p, r) : ~PmmTestBit(q)}
           n == RunLength(p, count, limit)
<1>1. 0 \in Counted
  BY DEF Run
<1>2. Counted \in SUBSET (0 .. count) /\ Counted # {}
  BY <1>1
<1>3. n \in Counted /\ \A y \in Counted : n >= y
  <2> HIDE DEF Counted
  <2>1. n = Max(Counted)
    BY DEF RunLength, Counted
  <2>. QED BY <1>2, <2>1, BoundedSetHasMax
<1> HIDE DEF n
<1>4. n = count => RunFits(p, count, limit)
  BY <1>3 DEF RunFits, StartsRun
<1>5. ASSUME n # count, NEW r \in p .. (p + n), RunFits(r, count, limit) PROVE FALSE
  <2>1. n \in Nat /\ n < count /\ r \in Nat /\ p <= r /\ r <= p + n
    BY <1>3, <1>5
  <2>2. r + count <= limit /\ \A q \in Run(r, count) : ~PmmTestBit(q)
    BY <1>5 DEF RunFits, StartsRun
  <2>3. n + 1 \in 0 .. count /\ p + (n + 1) <= limit
    BY <2>1, <2>2
  <2>4. p + n \in Run(r, count)
    BY <2>1 DEF Run
  <2>5. ASSUME NEW q \in Run(p, n + 1) PROVE ~PmmTestBit(q)
    <3>1. q = p + n \/ q \in Run(p, n)
      BY <2>1 DEF Run
    <3>. QED BY <1>3, <2>2, <2>4, <3>1
  <2>6. n + 1 \in Counted
    BY <2>3, <2>5
  <2>. QED BY <1>3, <2>1, <2>6
<1>6. n \in 0 .. count
  BY <1>3
<1>. QED BY <1>4, <1>5, <1>6 DEF n

(* What the loop returns once it has reached p: the lowest run from there. *)
LowestRun(p, count, limit) ==
  IF \E q \in Nat : SweepFinds(q, count, p, limit)
  THEN CHOOSE q \in Nat : SweepFinds(q, count, p, limit)
  ELSE NotFound

LEMMA LowestRunPassesOver ==
  ASSUME NEW p \in Nat, NEW next \in Nat, p <= next, NEW count \in Nat, NEW limit \in Nat,
         \A r \in p .. (next - 1) : ~RunFits(r, count, limit)
  PROVE  LowestRun(p, count, limit) = LowestRun(next, count, limit)
<1> DEFINE A(q) == SweepFinds(q, count, p, limit)
           B(q) == SweepFinds(q, count, next, limit)
<1>1. \A q \in Nat : A(q) <=> B(q)
  BY PassedOver
<1> HIDE DEF A, B
<1>2. (CHOOSE q \in Nat : A(q)) = (CHOOSE q \in Nat : B(q))
  BY <1>1
<1>3. (\E q \in Nat : A(q)) <=> (\E q \in Nat : B(q))
  BY <1>1
<1>. QED BY <1>2, <1>3 DEF A, B, LowestRun

(* The loop is one way to compute it, at every frame.                      *)
LEMMA LowestRunUnfolds ==
  ASSUME NEW count \in Nat \ {0}, NEW limit \in Nat, NEW p \in Nat
  PROVE  LowestRun(p, count, limit) =
           IF p >= limit THEN NotFound
           ELSE IF SkipsWord(p) THEN LowestRun(p + WordBits, count, limit)
           ELSE IF PmmTestBit(p) THEN LowestRun(p + 1, count, limit)
           ELSE IF RunLength(p, count, limit) = count THEN p
           ELSE LowestRun(p + RunLength(p, count, limit) + 1, count, limit)
<1>1. CASE p >= limit
  <2>1. \A q \in Nat : ~SweepFinds(q, count, p, limit)
    BY <1>1 DEF SweepFinds, StartsRun
  <2>. QED BY <1>1, <2>1 DEF LowestRun
<1>2. CASE ~(p >= limit) /\ SkipsWord(p)
  <2> DEFINE next == p + WordBits
  <2>1. next \in Nat /\ p <= next
    BY PmmAssumption
  <2>2. \A r \in p .. (next - 1) : ~RunFits(r, count, limit)
    <3>1. SkipsWord(p)
      BY <1>2
    <3>2. ASSUME NEW r \in p .. (next - 1) PROVE ~RunFits(r, count, limit)
      <4>1. r \in Nat /\ p <= r /\ r < p + WordBits
        BY <2>1, <3>2
      <4>. QED BY <3>1, <4>1, WordPassedOver
    <3>. QED BY <3>2
  <2>3. LowestRun(p, count, limit) = LowestRun(next, count, limit)
    <3> HIDE DEF next
    <3>. QED BY <2>1, <2>2, LowestRunPassesOver
  <2>. QED BY <1>2, <2>3
<1>3. CASE ~(p >= limit) /\ ~SkipsWord(p) /\ PmmTestBit(p)
  <2> DEFINE next == p + 1
  <2>1. next \in Nat /\ p <= next /\ p .. (next - 1) = {p}
    OBVIOUS
  <2>2. \A r \in p .. (next - 1) : ~RunFits(r, count, limit)
    BY <1>3, <2>1, UsedStartsNoRun
  <2>3. LowestRun(p, count, limit) = LowestRun(next, count, limit)
    <3> HIDE DEF next
    <3>. QED BY <2>1, <2>2, LowestRunPassesOver
  <2>. QED BY <1>3, <2>3
<1>4. CASE ~(p >= limit) /\ ~SkipsWord(p) /\ ~PmmTestBit(p)
  <2> DEFINE n == RunLength(p, count, limit)
  <2>1. n \in Nat /\ p < limit
    BY <1>4, RunCounted
  <2>2. CASE n = count
    <3>1. RunFits(p, count, limit)
      BY <2>1, <2>2, RunCounted
    <3>2. SweepFinds(p, count, p, limit)
      BY <3>1 DEF SweepFinds, RunFits
    <3>3. ASSUME NEW q \in Nat, SweepFinds(q, count, p, limit) PROVE q = p
      <4>1. p <= q
        BY <3>3 DEF SweepFinds, StartsRun
      <4>2. CASE p < q
        <5>1. p \in p .. (q - 1)
          BY <4>2
        <5>. QED BY <3>3, <3>1, <5>1 DEF SweepFinds, RunFits
      <4>. QED BY <4>1, <4>2
    <3>4. (CHOOSE q \in Nat : SweepFinds(q, count, p, limit)) = p
      BY <3>2, <3>3
    <3>. QED BY <1>4, <2>2, <3>2, <3>4 DEF LowestRun
  <2>3. CASE n # count
    <3>1. p + n + 1 \in Nat /\ p <= p + n + 1 /\ (p + n + 1) - 1 = p + n
      BY <2>1
    <3>2. \A r \in p .. (p + n) : ~RunFits(r, count, limit)
      BY <2>1, <2>3, RunCounted
    <3>3. LowestRun(p, count, limit) = LowestRun(p + n + 1, count, limit)
      <4> HIDE DEF n
      <4>. QED BY <3>1, <3>2, LowestRunPassesOver
    <3>. QED BY <1>4, <2>3, <3>3
  <2>. QED BY <2>2, <2>3
<1>. QED BY <1>1, <1>2, <1>3, <1>4

(* What the loop computes is the lowest run, and nothing else.             *)
LEMMA LoopIsLowestRun ==
  ASSUME NEW count \in Nat \ {0}, NEW from \in Nat, NEW limit \in Nat
  PROVE  SweepLoop(count, from, limit) = LowestRun(from, count, limit)
<1> DEFINE Body(f) ==
             [p \in Nat |->
                IF p >= limit THEN NotFound
                ELSE IF SkipsWord(p) THEN f[p + WordBits]
                ELSE IF PmmTestBit(p) THEN f[p + 1]
                ELSE IF RunLength(p, count, limit) = count THEN p
                ELSE f[p + RunLength(p, count, limit) + 1]]
           loop == CHOOSE f : f = Body(f)
           g == [p \in Nat |-> LowestRun(p, count, limit)]
<1>1. WordBits \in Nat \ {0}
  BY PmmAssumption
<1>2. ASSUME NEW p \in Nat, p < limit PROVE RunLength(p, count, limit) \in Nat
  BY <1>2, RunCounted
<1>3. g = Body(g)
  <2>1. ASSUME NEW p \in Nat PROVE g[p] = Body(g)[p]
    <3>1. p + WordBits \in Nat /\ p + 1 \in Nat
      BY <1>1
    <3>2. p < limit => p + RunLength(p, count, limit) + 1 \in Nat
      BY <1>2
    <3>3. p < limit \/ p >= limit
      OBVIOUS
    <3>. QED BY <3>1, <3>2, <3>3, LowestRunUnfolds
  <2>. QED BY <2>1
<1>4. loop = Body(loop)
  <2> HIDE DEF g, Body
  <2>. QED BY <1>3
<1>5. SweepLoop(count, from, limit) = loop[from]
  BY DEF SweepLoop
<1> HIDE DEF loop
<1>6. ASSUME NEW p \in Nat
      PROVE  loop[p] = IF p >= limit THEN NotFound
                       ELSE IF SkipsWord(p) THEN loop[p + WordBits]
                       ELSE IF PmmTestBit(p) THEN loop[p + 1]
                       ELSE IF RunLength(p, count, limit) = count THEN p
                       ELSE loop[p + RunLength(p, count, limit) + 1]
  BY <1>4
<1> DEFINE Differ == {p \in Nat : loop[p] # LowestRun(p, count, limit)}
<1>7. ASSUME NEW p \in Differ PROVE p < limit /\ \E q \in Differ : q > p
  <2>1. p \in Nat /\ loop[p] # LowestRun(p, count, limit)
    OBVIOUS
  <2>2. p < limit
    BY <2>1, <1>6, LowestRunUnfolds
  <2> DEFINE n == RunLength(p, count, limit)
  <2>3. n \in Nat
    BY <2>1, <2>2, <1>2
  <2>4. \E q \in {p + WordBits, p + 1, p + n + 1} : loop[q] # LowestRun(q, count, limit)
    BY <2>1, <2>2, <1>6, LowestRunUnfolds
  <2>5. \A q \in {p + WordBits, p + 1, p + n + 1} : q \in Nat /\ q > p
    BY <1>1, <2>1, <2>3
  <2>. QED BY <2>2, <2>4, <2>5
<1>8. Differ = {}
  <2>1. SUFFICES ASSUME Differ # {} PROVE FALSE
    OBVIOUS
  <2>2. Differ \in SUBSET (0 .. limit)
    <3>1. ASSUME NEW p \in Differ PROVE p \in 0 .. limit
      BY <1>7
    <3>. QED BY <3>1
  <2>3. Max(Differ) \in Differ /\ \A y \in Differ : Max(Differ) >= y
    <3> HIDE DEF Differ
    <3>. QED BY <2>1, <2>2, BoundedSetHasMax
  <2>4. PICK q \in Differ : q > Max(Differ)
    BY <1>7, <2>3
  <2>5. q \in Int /\ Max(Differ) \in Int
    BY <2>2, <2>3
  <2> HIDE DEF Differ
  <2>. QED BY <2>3, <2>4, <2>5
<1>. QED BY <1>5, <1>8

(* The loop of MmAllocatePages, with its skips over words in use and over  *)
(* broken runs, finds what a sweep frame by frame would find, on every     *)
(* machine and wherever the hint stands (PMM.C:374-410).                   *)
THEOREM LoopIsTheSweep == Spec => []LoopFindsLowestRun
<1>1. ASSUME NEW count \in Nat \ {0}, NEW from \in Nat, NEW limit \in Nat
      PROVE  LET found == SweepLoop(count, from, limit)
             IN  IF found = NotFound THEN SweepFails(count, from, limit)
                                     ELSE SweepFinds(found, count, from, limit)
  <2>1. SweepLoop(count, from, limit) = LowestRun(from, count, limit)
    BY LoopIsLowestRun
  <2>2. CASE \E q \in Nat : SweepFinds(q, count, from, limit)
    <3>1. LowestRun(from, count, limit) \in Nat
            /\ SweepFinds(LowestRun(from, count, limit), count, from, limit)
      BY <2>2 DEF LowestRun
    <3>2. LowestRun(from, count, limit) # NotFound
      BY <3>1 DEF NotFound
    <3>. QED BY <2>1, <3>1, <3>2
  <2>3. CASE ~ \E q \in Nat : SweepFinds(q, count, from, limit)
    <3>1. LowestRun(from, count, limit) = NotFound
      BY <2>3 DEF LowestRun
    <3>2. SweepFails(count, from, limit)
      BY <2>3, SweepFindsLowest DEF SweepFails
    <3>. QED BY <2>1, <3>1, <3>2
  <2>. QED BY <2>2, <2>3
<1>2. ASSUME IInv PROVE LoopFindsLowestRun
  <2>1. MaxPages \in Nat /\ Cutoff \in Nat /\ searchHint \in Nat /\ totalPages \in Nat
    BY <1>2, PmmAssumption DEF IInv, TypeOK
  <2>2. SUFFICES ASSUME NEW count \in 1 .. MaxPages,
                        NEW span \in {<<searchHint, totalPages>>, <<Cutoff, searchHint>>}
                 PROVE  LET found == SweepLoop(count, span[1], span[2])
                        IN  IF found = NotFound THEN SweepFails(count, span[1], span[2])
                            ELSE SweepFinds(found, count, span[1], span[2])
    BY DEF LoopFindsLowestRun
  <2>3. count \in Nat \ {0} /\ span[1] \in Nat /\ span[2] \in Nat
    BY <2>1
  <2>. QED BY <1>1, <2>3
<1>. QED BY InitIInv, NextPreservesIInv, <1>2, PTL DEF Spec

-----------------------------------------------------------------------------
LEMMA IntervalGrows ==
  \A S, m, n : m \in Nat /\ n \in Nat /\ m <= n /\ S \subseteq 0 .. (m - 1)
                 => S \subseteq 0 .. (n - 1)
OBVIOUS

(* Every operation of the manager is one step of the pool of frames.       *)
LEMMA StepImplementsPool ==
  ASSUME IInv, IInv', [Next]_vars
  PROVE  [Pool!Next]_(Pool!poolVars)
<1>0. /\ free \subseteq Nat /\ free' \subseteq 0 .. (MaxPages - 1) /\ free' \cap owned' = {}
      /\ Cutoff \in Nat /\ \A p \in owned : p >= Cutoff
  <2>1. /\ MaxPages \in Nat /\ totalPages \in 0 .. MaxPages /\ totalPages' \in 0 .. MaxPages
        /\ free \subseteq 0 .. (totalPages - 1) /\ free' \subseteq 0 .. (totalPages' - 1)
    BY PmmAssumption DEF IInv, TypeOK
  <2>2. free' \subseteq 0 .. (MaxPages - 1)
    <3>1. totalPages' \in Nat /\ totalPages' <= MaxPages /\ MaxPages \in Nat
      BY <2>1
    <3>2. free' \subseteq 0 .. (totalPages' - 1)
      BY <2>1
    <3>. QED BY <3>1, <3>2, IntervalGrows, Zenon
  <2>3. ASSUME NEW q \in free PROVE q \in Nat
    BY <2>1
  <2>. QED
    BY <2>2, <2>3, PmmAssumption DEF IInv, HeldFramesAreUsed, LowMemoryNeverHandedOut
<1>1. CASE MmInitPhysical
  <2>1. free = {} /\ owned' = owned
    BY <1>1 DEF MmInitPhysical, IInv, EmptyUntilReady, Usable
  <2>2. Pool!Supply
    BY <1>0, <2>1 DEF Pool!Supply
  <2>. QED BY <2>2 DEF Pool!Next
<1>2. CASE MmInitPhysicalFails
  BY <1>2 DEF MmInitPhysicalFails, Pool!poolVars
<1>3. CASE MmReclaimBootServices
  <2>1. free \subseteq free' /\ owned' = owned
    BY <1>3 DEF MmReclaimBootServices, PmmClearBits
  <2>2. Pool!Supply
    BY <1>0, <2>1 DEF Pool!Supply
  <2>. QED BY <2>2 DEF Pool!Next
<1>4. CASE \E count \in 1 .. MaxPages : MmAllocatePages(count)
  <2>1. PICK count \in 1 .. MaxPages : MmAllocatePages(count)
    BY <1>4
  <2>2. PICK p \in 0 .. (totalPages - 1) :
          Finds(p, count) /\ PmmSetBits(Run(p, count)) /\ owned' = owned \cup Run(p, count)
    BY <2>1 DEF MmAllocatePages
  <2>3. Usable
    BY <2>1 DEF MmAllocatePages
  <2>4. /\ Run(p, count) \subseteq free /\ p >= Cutoff /\ p + count <= totalPages
        /\ totalPages \in 0 .. MaxPages /\ MaxPages \in Nat
    BY <2>2, <2>3, FoundRunIsFree, PmmAssumption DEF IInv, TypeOK
  <2>5. free' = free \ Run(p, count)
    BY <2>2, <2>4 DEF PmmSetBits, InRange, IInv, TypeOK
  <2> DEFINE last == p + count - 1
  <2>6. p \in 0 .. (MaxPages - 1) /\ last \in 0 .. (MaxPages - 1) /\ Run(p, count) = p .. last
    BY <2>4 DEF Run
  <2>7. Pool!Take(p, last)
    BY <1>0, <2>2, <2>4, <2>5, <2>6 DEF Pool!Take
  <2>. QED BY <2>6, <2>7 DEF Pool!Next
<1>5. CASE \E first \in 0 .. (MaxPages - 1), count \in 1 .. MaxPages : MmFreePages(first, count)
  <2>1. PICK first \in 0 .. (MaxPages - 1), count \in 1 .. MaxPages : MmFreePages(first, count)
    BY <1>5
  <2>2. /\ Run(first, count) \subseteq owned /\ PmmClearBits(Run(first, count))
        /\ owned' = owned \ Run(first, count)
    BY <2>1 DEF MmFreePages
  <2>3. free' = free \cup Run(first, count)
    BY <2>2 DEF PmmClearBits, InRange, IInv, TypeOK
  <2> DEFINE last == first + count - 1
  <2>4. Run(first, count) = first .. last /\ last \in Run(first, count)
    BY PmmAssumption DEF Run
  <2>5. last \in 0 .. (MaxPages - 1)
    BY <2>2, <2>4, PmmAssumption DEF IInv, TypeOK
  <2>6. Pool!Give(first, last)
    BY <1>0, <2>2, <2>3, <2>4 DEF Pool!Give
  <2>. QED BY <2>5, <2>6 DEF Pool!Next
<1>6. CASE \E first \in 0 .. (MaxPages - 1), count \in 1 .. MaxPages :
             MmReservePhysicalRange(first, count)
  <2>1. free' \subseteq free /\ owned' = owned
    BY <1>6 DEF MmReservePhysicalRange, PmmSetBits
  <2>2. Pool!Withdraw
    BY <2>1 DEF Pool!Withdraw
  <2>. QED BY <2>2 DEF Pool!Next
<1>7. CASE UNCHANGED vars
  BY <1>7 DEF vars, Pool!poolVars
<1>. QED
  BY <1>1, <1>2, <1>3, <1>4, <1>5, <1>6, <1>7 DEF Next

(* The bitmap allocator implements the pool of frames that Paging.C and    *)
(* VMM.C rely on (PMM.C:355-501).                                          *)
THEOREM PmmImplementsPool == Spec => ImplementsPool
<1>1. Init => Pool!Init
  BY DEF Init, Pool!Init
<1>2. IInv /\ IInv' /\ [Next]_vars => [Pool!Next]_(Pool!poolVars)
  BY StepImplementsPool
<1>. QED
  BY InitIInv, NextPreservesIInv, <1>1, <1>2, PTL DEF Spec, ImplementsPool, Pool!Spec
=============================================================================

-------------------------------- MODULE Pmm --------------------------------
(***************************************************************************)
(* The physical memory manager, src/Shadow/MM/PMM.C: one bitmap bit per    *)
(* page frame, a count of the clear bits and a hint where the next search  *)
(* starts.  The bitmap is the set `free' of frames whose bit is clear.     *)
(*                                                                         *)
(* Addresses are page frame numbers; byte sizes appear only where the code *)
(* compares them (placing the bitmap).  The kernel calls every operation   *)
(* from its single thread with no interrupt handler allocating, so an      *)
(* operation is one step.                                                  *)
(***************************************************************************)
EXTENDS Integers, Sequences, FiniteSets

CONSTANTS
  MaxPages,    \* bound on the frame numbers a memory map may describe
  Cutoff,      \* first frame above LOW_MEMORY_CUTOFF
  WordBits,    \* BITMAP_WORD_BITS
  WordBytes,   \* sizeof(UINT64)
  PageBytes,   \* PAGE_SIZE
  BootInfos    \* the boot-info blocks the loader may hand over

(* A boot-info block: the magic, the firmware's descriptors in the order    *)
(* the firmware lists them, the buffer that holds them and the framebuffer *)
(* (base 0: none), the last two rounded out to pages.                      *)
MemoryTypes == {"Reserved", "Loader", "BootServices", "RuntimeServices",
                "Conventional", "ACPIReclaim", "ACPINVS", "MMIO"}
Extent == [base : Nat, pages : Nat]
Descriptor == [type : MemoryTypes, base : Nat, pages : Nat]
BootInfo == [magic : BOOLEAN, map : Seq(Descriptor), mapBuffer : Extent,
             framebuffer : Extent]

PagesOf(e) == e.base .. (e.base + e.pages - 1)
Described(info, types) ==
  UNION {PagesOf(info.map[i]) : i \in {k \in DOMAIN info.map :
                                         info.map[k].type \in types}}
BootServicesPages(info) == Described(info, {"BootServices"})

ASSUME PmmAssumption ==
  /\ MaxPages \in Nat
  /\ Cutoff \in Nat \ {0}
  /\ WordBits \in Nat \ {0}
  /\ WordBytes \in Nat \ {0}
  /\ PageBytes \in Nat \ {0}
  /\ BootInfos \subseteq BootInfo

(* What UEFI promises of the map: descriptors lie within the machine and   *)
(* do not overlap, and neither the buffer that holds the map (EfiLoaderData)*)
(* nor the framebuffer lies in boot services memory.                       *)
ASSUME FirmwareAssumption ==
  \A info \in BootInfos :
    /\ \A i \in DOMAIN info.map : PagesOf(info.map[i]) \subseteq 0 .. (MaxPages - 1)
    /\ \A i, j \in DOMAIN info.map :
         i # j => PagesOf(info.map[i]) \cap PagesOf(info.map[j]) = {}
    /\ PagesOf(info.mapBuffer) \cap BootServicesPages(info) = {}
    /\ PagesOf(info.framebuffer) \cap BootServicesPages(info) = {}

VARIABLES
  info,         \* the boot-info block KernelMain copied
  phase,        \* "off", "ready", "reclaimed", or "failed"
  totalPages,   \* PmmTotalPages
  bitmapBase,   \* PmmBitmapPhys
  free,         \* frames whose bit in PmmBitmap is clear
  freePages,    \* PmmFreePages
  searchHint,   \* PmmSearchHint
  reserved,     \* frames MmReservePhysicalRange was called for (history)
  owned         \* frames handed out and not given back (history)

vars == <<info, phase, totalPages, bitmapBase, free, freePages, searchHint, reserved, owned>>

-----------------------------------------------------------------------------
(* The bitmap primitives, lifted from one frame to a set of frames: a bit  *)
(* out of range reads as used and is never written, and the count moves    *)
(* only for the bits that really change.                                   *)
InRange(S) == S \cap (0 .. (totalPages - 1))

PmmTestBit(p) == p >= totalPages \/ p \notin free

PmmSetBitsUntested(S) ==          \* mutant: the count moves unconditionally
  /\ free' = free \ InRange(S)
  /\ freePages' = freePages - Cardinality(InRange(S))

PmmSetBits(S) ==
  /\ free' = free \ InRange(S)
  /\ freePages' = freePages - Cardinality(InRange(S) \cap free)

PmmClearBits(S) ==
  /\ free' = free \cup InRange(S)
  /\ freePages' = freePages + Cardinality(InRange(S) \ free)

-----------------------------------------------------------------------------
(* MmInitPhysical, pass 1: the end of the highest descriptor that is RAM.  *)
RamBacked == {"Loader", "BootServices", "Conventional", "ACPIReclaim", "ACPINVS"}
Reclaimable == {"Conventional"}

End(d) == d.base + d.pages
RamEnds(map) == {End(map[i]) : i \in {k \in DOMAIN map : map[k].type \in RamBacked}}
IsHighestPage(n, map) ==
  /\ n \in RamEnds(map) \cup {0}
  /\ \A e \in RamEnds(map) : e <= n

(* Pass 2: the bitmap goes at the bottom of the first conventional region  *)
(* with more bytes above the cutoff than the bitmap has.                   *)
BitmapBytes(total) == ((total + WordBits - 1) \div WordBits) * WordBytes
BitmapExtent(base, total) ==
  [base |-> base, pages |-> (BitmapBytes(total) + PageBytes - 1) \div PageBytes]

UsableBase(d) == IF d.base < Cutoff THEN Cutoff ELSE d.base
HoldsBitmap(d, total) ==
  /\ d.type \in Reclaimable
  /\ End(d) > Cutoff
  /\ (End(d) - UsableBase(d)) * PageBytes > BitmapBytes(total)
IsBitmapRegion(i, map, total) ==
  /\ HoldsBitmap(map[i], total)
  /\ \A j \in DOMAIN map : j < i => ~HoldsBitmap(map[j], total)

(* Pass 3 clears the bits of conventional memory; then page 0, the low     *)
(* megabyte, the bitmap, the map's buffer and the framebuffer are taken    *)
(* back.                                                                   *)
Framebuffer == IF info.framebuffer.base # 0 THEN PagesOf(info.framebuffer) ELSE {}

TakenBackButBitmap(base, total) ==   \* mutant: the bitmap is not reserved
  {0} \cup (0 .. (Cutoff - 1)) \cup PagesOf(info.mapBuffer) \cup Framebuffer

TakenBack(base, total) ==
  {0} \cup (0 .. (Cutoff - 1))
    \cup PagesOf(BitmapExtent(base, total))
    \cup PagesOf(info.mapBuffer)
    \cup Framebuffer

MmInitPhysical ==
  /\ phase = "off"
  /\ info.magic
  /\ \E total \in 0 .. MaxPages :
       /\ IsHighestPage(total, info.map)
       /\ totalPages' = total
       /\ \E i \in DOMAIN info.map :
            LET base == UsableBase(info.map[i])
                taken == TakenBack(base, total)
                released == Described(info, Reclaimable) \cap (0 .. (total - 1))
            IN  /\ IsBitmapRegion(i, info.map, total)
                /\ bitmapBase' = base
                /\ reserved' = taken
                /\ free' = released \ taken
                /\ freePages' = Cardinality(released) - Cardinality(released \cap taken)
  /\ searchHint' = Cutoff
  /\ phase' = "ready"
  /\ UNCHANGED <<info, owned>>

(* A wrong magic, or no region to hold the bitmap: the node fails and the  *)
(* boot halts.                                                             *)
MmInitPhysicalFails ==
  /\ phase = "off"
  /\ \/ ~info.magic /\ UNCHANGED totalPages
     \/ /\ info.magic
        /\ \E total \in 0 .. MaxPages :
             /\ IsHighestPage(total, info.map)
             /\ \A i \in DOMAIN info.map : ~HoldsBitmap(info.map[i], total)
             /\ totalPages' = total
  /\ phase' = "failed"
  /\ UNCHANGED <<info, bitmapBase, free, freePages, searchHint, reserved, owned>>

-----------------------------------------------------------------------------
(* MmAllocatePages sweeps from the hint to the top, then from the cutoff   *)
(* to the hint.  A sweep over from .. limit-1 stops at the first frame     *)
(* that begins a run of `count' free frames lying below the limit.         *)
Run(p, count) == p .. (p + count - 1)

StartsRunUnchecked(p, count, from, limit) ==   \* mutant: only the first frame is tested
  from <= p /\ p + count <= limit /\ ~PmmTestBit(p)

StartsRun(p, count, from, limit) ==
  /\ from <= p /\ p + count <= limit
  /\ \A q \in Run(p, count) : ~PmmTestBit(q)

SweepFinds(p, count, from, limit) ==
  /\ StartsRun(p, count, from, limit)
  /\ \A q \in from .. (p - 1) : ~StartsRun(q, count, from, limit)

SweepFails(count, from, limit) ==
  \A q \in from .. (limit - 1) : ~StartsRun(q, count, from, limit)

FindsAboveHint(p, count) ==       \* mutant: the second sweep is missing
  SweepFinds(p, count, searchHint, totalPages)

Finds(p, count) ==
  \/ SweepFinds(p, count, searchHint, totalPages)
  \/ /\ SweepFails(count, searchHint, totalPages)
     /\ SweepFinds(p, count, Cutoff, searchHint)


HintAfter(p, count) == IF p + count >= totalPages THEN Cutoff ELSE p + count

Usable == phase \in {"ready", "reclaimed"}

(* A successful call; one that returns PHYS_ADDR_INVALID changes nothing.  *)
MmAllocatePages(count) ==
  /\ Usable
  /\ count # 0 /\ count <= freePages
  /\ \E p \in 0 .. (totalPages - 1) :
       /\ Finds(p, count)
       /\ PmmSetBits(Run(p, count))
       /\ searchHint' = HintAfter(p, count)
       /\ owned' = owned \cup Run(p, count)
  /\ UNCHANGED <<info, phase, totalPages, bitmapBase, reserved>>

MmFreePagesShort(first, count) == \* mutant: the loop ends one frame early
  /\ Usable
  /\ count # 0 /\ Run(first, count) \subseteq owned
  /\ PmmClearBits(Run(first, count - 1))
  /\ searchHint' = IF first < searchHint THEN first ELSE searchHint
  /\ owned' = owned \ Run(first, count)
  /\ UNCHANGED <<info, phase, totalPages, bitmapBase, reserved>>

(* MmFreePages by a caller that holds the frames.  MmFreeVirtual returns   *)
(* what it took one frame at a time, so part of an allocation may come     *)
(* back before the rest.                                                   *)
MmFreePages(first, count) ==
  /\ Usable
  /\ count # 0 /\ Run(first, count) \subseteq owned
  /\ PmmClearBits(Run(first, count))
  /\ searchHint' = IF first < searchHint THEN first ELSE searchHint
  /\ owned' = owned \ Run(first, count)
  /\ UNCHANGED <<info, phase, totalPages, bitmapBase, reserved>>

(* MmReservePhysicalRange after boot, for frames nobody holds.  Boot       *)
(* services memory is left out: reclaiming it would undo the reservation.  *)
MmReservePhysicalRange(first, count) ==
  /\ Usable
  /\ count # 0
  /\ Run(first, count) \cap (owned \cup BootServicesPages(info)) = {}
  /\ PmmSetBits(Run(first, count))
  /\ reserved' = reserved \cup Run(first, count)
  /\ UNCHANGED <<info, phase, totalPages, bitmapBase, searchHint, owned>>

(* KernelMain calls this once, after XScopeRun has switched page tables.   *)
MmReclaimBootServices ==
  /\ phase = "ready"
  /\ PmmClearBits(BootServicesPages(info))
  /\ phase' = "reclaimed"
  /\ UNCHANGED <<info, totalPages, bitmapBase, searchHint, reserved, owned>>

-----------------------------------------------------------------------------
Init ==
  /\ info \in BootInfos
  /\ phase = "off"
  /\ totalPages = 0
  /\ bitmapBase = 0
  /\ free = {}
  /\ freePages = 0
  /\ searchHint = 0
  /\ reserved = {}
  /\ owned = {}

Next ==
  \/ MmInitPhysical
  \/ MmInitPhysicalFails
  \/ MmReclaimBootServices
  \/ \E count \in 1 .. MaxPages : MmAllocatePages(count)
  \/ \E first \in 0 .. (MaxPages - 1), count \in 1 .. MaxPages :
       MmFreePages(first, count) \/ MmReservePhysicalRange(first, count)

Spec == Init /\ [][Next]_vars

-----------------------------------------------------------------------------
TypeOK ==
  /\ info \in BootInfos
  /\ phase \in {"off", "ready", "reclaimed", "failed"}
  /\ totalPages \in 0 .. MaxPages
  /\ bitmapBase \in Nat
  /\ free \subseteq 0 .. (totalPages - 1)
  /\ freePages \in Nat
  /\ searchHint \in Nat
  /\ reserved \subseteq Nat
  /\ owned \subseteq 0 .. (totalPages - 1)

(* PmmFreePages is the number of clear bits, however ranges overlap: the   *)
(* guard of MmAllocatePages and the statistics rely on it (PMM.C:118-136). *)
FreeCountExact == freePages = Cardinality(free)

(* A frame somebody holds is never marked free, so it cannot be handed out *)
(* again: not by a later allocation and not by reclaiming boot services    *)
(* memory (PMM.C:393-401, 472-501).                                        *)
HeldFramesAreUsed == owned \cap free = {}

(* Nothing below the first megabyte is ever handed out, page 0 included    *)
(* (PMM.C:34-38, 315), although MmReclaimBootServices does clear the bits  *)
(* of boot services pages there.                                           *)
LowMemoryNeverHandedOut == \A p \in owned : p >= Cutoff

(* What is handed out was conventional memory, or boot services memory     *)
(* once that has been reclaimed, and never a frame something else lives    *)
(* in: a reserved range, the bitmap itself, the memory map, the            *)
(* framebuffer (PMM.C:139-168, 313-344).                                   *)
HandedOutIsOurs ==
  /\ owned \subseteq Described(info, Reclaimable)
                       \cup (IF phase = "reclaimed" THEN BootServicesPages(info) ELSE {})
  /\ owned \cap reserved = {}
  /\ owned \cap (PagesOf(BitmapExtent(bitmapBase, totalPages))
                 \cup PagesOf(info.mapBuffer) \cup Framebuffer) = {}

(* Every usable frame is on exactly one side of the ledger: what is free or *)
(* held is the conventional memory that is not reserved, plus all boot     *)
(* services memory once reclaimed.  No frame is lost by any sequence of    *)
(* calls and none is invented (PMM.C:297-344, 419-429, 472-501).           *)
FramesAccounted ==
  Usable =>
    free \cup owned =
      (Described(info, Reclaimable) \ reserved)
        \cup (IF phase = "reclaimed" THEN BootServicesPages(info) ELSE {})

(* The hint stays inside the span the two sweeps cover, so that together   *)
(* they look at every frame above the cutoff (PMM.C:371-373, 397-400).     *)
HintInSpan == Usable => Cutoff <= searchHint /\ searchHint < totalPages

(* When a call for count frames fails although that many are free, the     *)
(* sweeps missed nothing but runs that straddle the hint; so a call for    *)
(* one frame fails only when every free frame lies in low memory           *)
(* (PMM.C:363-412).                                                        *)
SearchComplete ==
  Usable =>
    \A count \in 1 .. MaxPages :
      (\A p \in 0 .. MaxPages : ~Finds(p, count)) =>
        \A p \in Cutoff .. (totalPages - 1) :
          Run(p, count) \subseteq free => p < searchHint /\ searchHint < p + count

(* The manager implements the pool of frames its callers rely on; free     *)
(* frames below the cutoff are not part of the pool.                       *)
Pool == INSTANCE FramePool WITH
          Frames <- 0 .. (MaxPages - 1),
          avail <- {p \in free : p >= Cutoff},
          held <- owned
ImplementsPool == Pool!Spec
=============================================================================

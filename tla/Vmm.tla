-------------------------------- MODULE Vmm --------------------------------
(***************************************************************************)
(* Virtual memory, src/Shadow/MM/VMM.C over src/Shadow/MM/Paging.C: the    *)
(* windows for device memory and for the heap, and the four-level page     *)
(* tables under them, built in frames of the physical memory manager.      *)
(*                                                                         *)
(* Addresses are page numbers.  A call is cut into steps: one per level of *)
(* a walk that creates tables, one per page unmapped.  Only the kernel's   *)
(* thread calls in here; beside it the processor may at any time cache a   *)
(* translation it finds in the tables.  Protection bits are left out.      *)
(***************************************************************************)
EXTENDS Integers, Sequences, FiniteSets

CONSTANTS
  Frames,      \* frames of memory
  Supplies,    \* what the physical memory manager may have to give at boot
  Search,      \* which of the free frames MmAllocatePage may return
  Junk,        \* what the frames hold at boot, read as page tables
  Slots,       \* indices into a table
  Pages,       \* the virtual pages considered; a 1 GiB leaf counts as one
  Path,        \* PML4_INDEX .. PT_INDEX of a page
  DirectMap,   \* the 1 GiB pages of the direct map, [virt, phys] each
  Image,       \* the pages of the kernel, [virt, phys, section] each
  HeapBase, HeapEnd,   \* MM_HEAP_BASE and its end
  MmioBase, MmioEnd,   \* MM_MMIO_BASE and its end
  Devices,     \* first frames of the devices callers map
  MaxRequest,  \* bound on the pages of one request
  MaxTlb,      \* bound on the translations cached at a time
  AllPages     \* pages of the address space; cursors are bumped modulo it

Nowhere == -1                  \* PHYS_ADDR_INVALID
Levels == 1 .. 4
Entry == [present : BOOLEAN, ps : BOOLEAN, phys : Nat]
Window == (HeapBase .. HeapEnd) \cup (MmioBase .. MmioEnd)

ASSUME VmmAssumption ==
  /\ Frames \subseteq Nat
  /\ Supplies \subseteq SUBSET Frames
  /\ Search \in [SUBSET Frames -> SUBSET Frames]
  /\ \A S \in SUBSET Frames : Search[S] \subseteq S /\ (Search[S] = {} => S = {})
  /\ Junk \in [Frames -> [Slots -> Entry]]
  /\ Pages \subseteq Nat
  /\ Path \in [Pages -> [Levels -> Slots]]
  /\ \A v, w \in Pages : Path[v] = Path[w] => v = w
  /\ {HeapBase, HeapEnd, MmioBase, MmioEnd, MaxRequest, MaxTlb} \subseteq Nat
  /\ HeapBase <= HeapEnd /\ MmioBase <= MmioEnd
  /\ Window \subseteq Pages
  /\ Devices \subseteq Nat
  /\ \A d \in Devices : (d .. (d + MaxRequest)) \cap Frames = {}
  /\ DirectMap \in Seq([virt : Pages, phys : Nat])
  /\ Image \in Seq([virt : Pages, phys : Nat, section : Nat])

(* The windows, the direct map and the kernel lie under different entries  *)
(* of the top-level table, and nothing else lies in a 1 GiB page of the    *)
(* direct map.                                                             *)
ASSUME LayoutAssumption ==
  /\ \A h \in HeapBase .. HeapEnd, m \in MmioBase .. MmioEnd : h # m
  /\ \A i \in DOMAIN DirectMap, v \in Window \cup {Image[j].virt : j \in DOMAIN Image} :
       Path[DirectMap[i].virt][1] # Path[v][1]
  /\ \A i, j \in DOMAIN DirectMap :
       /\ Path[DirectMap[i].virt][1] = Path[DirectMap[j].virt][1]
       /\ Path[DirectMap[i].virt][2] = Path[DirectMap[j].virt][2]
       => i = j
  /\ \A i \in DOMAIN DirectMap, v \in Pages :
       /\ Path[v][1] = Path[DirectMap[i].virt][1]
       /\ Path[v][2] = Path[DirectMap[i].virt][2]
       => v = DirectMap[i].virt
  /\ \A i, j \in DOMAIN Image : Image[i].virt = Image[j].virt => i = j
  /\ \A i \in DOMAIN Image : Image[i].virt \notin Window /\ Image[i].phys \notin Frames

(* No request is so large that it wraps the cursor of its window; module   *)
(* Heap has requests that do.                                              *)
ASSUME RequestAssumption ==
  /\ AllPages \in Nat
  /\ HeapEnd + MaxRequest + 1 < AllPages /\ MmioEnd + MaxRequest + 1 < AllPages

VARIABLES
  free,        \* frames in the physical memory manager
  table,       \* what each frame holds, read as a page table
  root,        \* KernelSpace.TopLevelTable
  heapNext,    \* KernelSpace.HeapNext
  mmioNext,    \* KernelSpace.MmioNext
  tlb,         \* translations the processor has cached
  call,        \* the call that is running, and how far it is
  live,        \* address ranges returned and not given back (history)
  abandoned,   \* pages a failed MmAllocateVirtual left mapped (history)
  supply,      \* frames free before MmInitPaging (history)
  depth        \* the level of the table in a frame, 0 if none (history)

vars == <<free, table, root, heapNext, mmioNext, tlb, call, live, abandoned, supply, depth>>

Ops == {"boot", "direct", "section", "idle", "failed",
        "alloc", "unwind", "release", "map", "rollback", "unmap"}
Call == [op : Ops, virt : Nat, phys : Nat \cup {Nowhere}, pages : Nat, i : Nat,
         level : 0 .. 4, at : Frames \cup {Nowhere}]
Grant == [kind : {"heap", "mmio"}, virt : Nat, phys : Nat \cup {Nowhere}, pages : Nat]

Start(op, virt, phys, pages) ==
  [op |-> op, virt |-> virt, phys |-> phys, pages |-> pages, i |-> 0,
   level |-> 0, at |-> Nowhere]
Idle == Start("idle", 0, Nowhere, 0)

PagesOf(r) == r.virt .. (r.virt + r.pages - 1)

TypeOK ==
  /\ free \subseteq Frames
  /\ table \in [Frames -> [Slots -> Entry]]
  /\ root \in Frames \cup {Nowhere}
  /\ heapNext \in Nat /\ mmioNext \in Nat
  /\ tlb \subseteq [page : Pages, phys : Nat]
  /\ call \in Call
  /\ live \subseteq Grant
  /\ abandoned \subseteq Pages
  /\ supply \subseteq Frames
  /\ depth \in [Frames -> 0 .. 4]

-----------------------------------------------------------------------------
(* The tables, read the way MmGetPhysicalAddress and the processor do.     *)
Absent == [present |-> FALSE, ps |-> FALSE, phys |-> 0]
Points(phys) == [present |-> TRUE, ps |-> FALSE, phys |-> phys]
HugeLeaf(phys) == [present |-> TRUE, ps |-> TRUE, phys |-> phys]
Zeroed == [s \in Slots |-> Absent]

EntryAt(t, v, level) == table[t][Path[v][level]]

(* The frame with the table that decides about a page at a level, if the   *)
(* walk gets there.                                                        *)
TableAt2(v) ==
  IF root # Nowhere /\ EntryAt(root, v, 1).present
  THEN EntryAt(root, v, 1).phys ELSE Nowhere
Below(t, v, level) ==
  IF t # Nowhere /\ EntryAt(t, v, level).present /\ ~EntryAt(t, v, level).ps
  THEN EntryAt(t, v, level).phys ELSE Nowhere
TableAt3(v) == Below(TableAt2(v), v, 2)
TableAt4(v) == Below(TableAt3(v), v, 3)

IsHuge(t, v, level) ==
  t # Nowhere /\ EntryAt(t, v, level).present /\ EntryAt(t, v, level).ps

MmGetPhysicalAddress(v) ==
  LET pdpt == TableAt2(v)
      pd == Below(pdpt, v, 2)
      pt == Below(pd, v, 3)
  IN  IF IsHuge(pdpt, v, 2) THEN EntryAt(pdpt, v, 2).phys
      ELSE IF IsHuge(pd, v, 3) THEN EntryAt(pd, v, 3).phys
      ELSE IF pt # Nowhere /\ EntryAt(pt, v, 4).present THEN EntryAt(pt, v, 4).phys
      ELSE Nowhere

Space == [v \in Pages |-> MmGetPhysicalAddress(v)]

Init ==
  /\ supply \in Supplies
  /\ free = supply
  /\ table = Junk
  /\ root = Nowhere
  /\ heapNext = HeapBase
  /\ mmioNext = MmioBase
  /\ tlb = {}
  /\ call = Start("boot", 0, Nowhere, 0)
  /\ live = {}
  /\ abandoned = {}
  /\ depth = [f \in Frames |-> 0]

-----------------------------------------------------------------------------
(* The page a running call maps or unmaps, and the frame it maps it to.    *)
PageNow ==
  CASE call.op = "direct"  -> DirectMap[call.i + 1].virt
    [] call.op = "section" -> Image[call.i + 1].virt
    [] OTHER -> call.virt + call.i
PhysNow ==
  CASE call.op = "direct"  -> DirectMap[call.i + 1].phys
    [] call.op = "section" -> Image[call.i + 1].phys
    [] call.op = "alloc" -> call.phys
    [] OTHER -> call.phys + call.i
Count ==
  CASE call.op = "direct"  -> Len(DirectMap)
    [] call.op = "section" -> Len(Image)
    [] OTHER -> call.pages

NextPage == [call EXCEPT !.i = @ + 1, !.level = 0, !.at = Nowhere]

(* MmAllocatePage.                                                         *)
Takes(f) == f \in Search[free] /\ free' = free \ {f}
NoneFree == Search[free] = {}

(* MmInitPaging: the root, then the direct map, then the kernel.           *)
MmInitPaging ==
  /\ call.op = "boot"
  /\ \/ \E f \in Frames :
          /\ Takes(f)
          /\ table' = [table EXCEPT ![f] = Zeroed]
          /\ root' = f
          /\ depth' = [depth EXCEPT ![f] = 1]
          /\ call' = Start("direct", 0, Nowhere, 0)
     \/ /\ NoneFree
        /\ call' = Start("failed", 0, Nowhere, 0)
        /\ UNCHANGED <<free, table, root, depth>>
  /\ UNCHANGED <<heapNext, mmioNext, tlb, live, abandoned, supply>>

(* The next turn of the loop of MmInitPaging, PagingMapKernelSection or    *)
(* MmMapRange: MmMapPage or MmMapHugePage is called.                       *)
Maps == {"direct", "section", "map"}
BeginMapPage ==
  /\ call.op \in Maps
  /\ call.level = 0
  /\ call.i < Count
  /\ call' = [call EXCEPT !.level = 1, !.at = root]
  /\ UNCHANGED <<free, table, root, heapNext, mmioNext, tlb, live, abandoned, supply, depth>>

(* The end of such a loop.  The last one of MmInitPaging loads CR3.        *)
EndMapLoop ==
  /\ call.op \in Maps
  /\ call.level = 0
  /\ call.i = Count
  /\ call' = IF call.op = "direct" THEN Start("section", 0, Nowhere, 0) ELSE Idle
  /\ live' = IF call.op = "map"
             THEN live \cup {[kind |-> "mmio", virt |-> call.virt,
                              phys |-> call.phys, pages |-> call.pages]}
             ELSE live
  /\ UNCHANGED <<free, table, root, heapNext, mmioNext, tlb, abandoned, supply, depth>>

-----------------------------------------------------------------------------
(* MmMapPage and MmMapHugePage, one PagingDescend at a time.               *)
LeafLevel == IF call.op = "direct" THEN 2 ELSE 4
Here == EntryAt(call.at, PageNow, call.level)
Descending == call.level \in 1 .. (LeafLevel - 1)

Follow ==
  /\ Descending
  /\ Here.present
  /\ ~Here.ps
  /\ call' = [call EXCEPT !.at = Here.phys, !.level = @ + 1]
  /\ UNCHANGED <<free, table, root, heapNext, mmioNext, tlb, live, abandoned, supply, depth>>

CreateUncleared(f) ==           \* mutant: the fresh table is not cleared
  table' = [table EXCEPT ![call.at][Path[PageNow][call.level]] = Points(f)]

Create(f) ==
  table' = [table EXCEPT ![call.at][Path[PageNow][call.level]] = Points(f),
                         ![f] = Zeroed]

CreateTable ==
  /\ Descending
  /\ ~Here.present
  /\ \E f \in Frames :
       /\ Takes(f)
       /\ Create(f)
       /\ depth' = [depth EXCEPT ![f] = call.level + 1]
       /\ call' = [call EXCEPT !.at = f, !.level = @ + 1]
  /\ UNCHANGED <<root, heapNext, mmioNext, tlb, live, abandoned, supply>>

(* MmInvalidatePage.                                                       *)
Invalidate(v) == tlb' = {t \in tlb : t.page # v}

WriteLeaf ==
  /\ call.level = LeafLevel
  /\ table' = [table EXCEPT ![call.at][Path[PageNow][call.level]] =
                 IF call.op = "direct" THEN HugeLeaf(PhysNow) ELSE Points(PhysNow)]
  /\ Invalidate(PageNow)
  /\ call' = NextPage
  /\ UNCHANGED <<free, root, heapNext, mmioNext, live, abandoned, supply, depth>>

(* No frame for a table, or a huge leaf in the way: MmMapPage fails.  The  *)
(* tables it has made so far stay.  MmInitPaging gives up; the rest of the *)
(* kernel section is skipped silently; MmMapRange rolls back;              *)
(* MmAllocateVirtual releases the frame in hand and no other.              *)
CannotDescend ==
  /\ Descending
  /\ IF Here.present THEN Here.ps ELSE NoneFree

SectionAfter(i) ==
  CHOOSE j \in i .. Len(Image) :
    /\ \A k \in (i + 1) .. j : Image[k].section = Image[i + 1].section
    /\ j = Len(Image) \/ Image[j + 1].section # Image[i + 1].section

RollbackShort == Start("rollback", call.virt, Nowhere,   \* mutant: one page too few
                       IF call.i = 0 THEN 0 ELSE call.i - 1)
Rollback == Start("rollback", call.virt, Nowhere, call.i)

MapPageFails ==
  /\ CannotDescend
  /\ call' = CASE call.op = "direct"  -> Start("failed", 0, Nowhere, 0)
               [] call.op = "section" -> [call EXCEPT !.i = SectionAfter(@), !.level = 0,
                                                      !.at = Nowhere]
               [] call.op = "map"     -> Rollback
               [] call.op = "alloc"   -> Idle
  /\ free' = IF call.op = "alloc" THEN free \cup {call.phys} ELSE free
  /\ abandoned' = IF call.op = "alloc"
                  THEN abandoned \cup (call.virt .. (call.virt + call.i - 1))
                  ELSE abandoned
  /\ UNCHANGED <<table, root, heapNext, mmioNext, tlb, live, supply, depth>>

-----------------------------------------------------------------------------
(* VmmBumpHeap and VmmBumpMmio: the cursor moves behind the range and one  *)
(* page that stays unused; sums are modulo the size of the address space.  *)
VMM_GUARD_PAGES == 1
Span(pages) == (pages + VMM_GUARD_PAGES) % AllPages
Bumped(cursor, pages) == (cursor + Span(pages)) % AllPages

MmAllocateVirtual(pages) ==
  /\ call = Idle
  /\ Bumped(heapNext, pages) < HeapEnd
  /\ heapNext' = Bumped(heapNext, pages)
  /\ call' = Start("alloc", heapNext, Nowhere, pages)
  /\ UNCHANGED <<free, table, root, mmioNext, tlb, live, abandoned, supply, depth>>

(* Its loop: a frame for the next page, or unwinding, or the end.          *)
AllocateFrame ==
  /\ call.op = "alloc"
  /\ call.level = 0
  /\ call.i < call.pages
  /\ \E f \in Frames :
       /\ Takes(f)
       /\ call' = [call EXCEPT !.phys = f, !.level = 1, !.at = root]
  /\ UNCHANGED <<table, root, heapNext, mmioNext, tlb, live, abandoned, supply, depth>>

AllocateFails ==
  /\ call.op = "alloc"
  /\ call.level = 0
  /\ call.i < call.pages
  /\ NoneFree
  /\ call' = Start("unwind", call.virt, Nowhere, call.i)
  /\ UNCHANGED <<free, table, root, heapNext, mmioNext, tlb, live, abandoned, supply, depth>>

AllocateReturns ==
  /\ call.op = "alloc"
  /\ call.level = 0
  /\ call.i = call.pages
  /\ call' = Idle
  /\ live' = live \cup {[kind |-> "heap", virt |-> call.virt, phys |-> Nowhere,
                         pages |-> call.pages]}
  /\ UNCHANGED <<free, table, root, heapNext, mmioNext, tlb, abandoned, supply, depth>>

(* MmMapIoSpace: the address space is spent even if the mapping fails.     *)
MmMapIoSpace(phys, pages) ==
  /\ call = Idle
  /\ Bumped(mmioNext, pages) < MmioEnd
  /\ mmioNext' = Bumped(mmioNext, pages)
  /\ call' = Start("map", mmioNext, phys, pages)
  /\ UNCHANGED <<free, table, root, heapNext, tlb, live, abandoned, supply, depth>>

(* Callers give back whole ranges.                                         *)
MmFreeVirtual(r) ==
  /\ call = Idle
  /\ r \in live /\ r.kind = "heap"
  /\ live' = live \ {r}
  /\ call' = Start("release", r.virt, Nowhere, r.pages)
  /\ UNCHANGED <<free, table, root, heapNext, mmioNext, tlb, abandoned, supply, depth>>

MmUnmapIoSpace(r) ==
  /\ call = Idle
  /\ r \in live /\ r.kind = "mmio"
  /\ live' = live \ {r}
  /\ call' = Start("unmap", r.virt, Nowhere, r.pages)
  /\ UNCHANGED <<free, table, root, heapNext, mmioNext, tlb, abandoned, supply, depth>>

-----------------------------------------------------------------------------
(* MmUnmapPage: the leaf is cleared and the translation forgotten, tables   *)
(* stay.                                                                   *)
ClearLeaf(v) ==
  table' = IF TableAt4(v) = Nowhere THEN table
           ELSE [table EXCEPT ![TableAt4(v)][Path[v][4]] = Absent]

MmUnmapPageKeepingTlb(v) ==     \* mutant: no invlpg
  ClearLeaf(v) /\ UNCHANGED tlb

MmUnmapPage(v) ==
  /\ ClearLeaf(v)
  /\ IF TableAt4(v) = Nowhere THEN UNCHANGED tlb ELSE Invalidate(v)

(* One turn of MmUnmapRange.                                               *)
UnmapNext ==
  /\ call.op \in {"rollback", "unmap"}
  /\ call.i < call.pages
  /\ MmUnmapPage(PageNow)
  /\ call' = NextPage
  /\ UNCHANGED <<free, root, heapNext, mmioNext, live, abandoned, supply, depth>>

(* One turn of the loops that give frames back, in MmFreeVirtual and in    *)
(* the unwinding of MmAllocateVirtual.  The frame is looked up before the  *)
(* page is unmapped.                                                       *)
FreedByTooLate(v) == {}         \* mutant: looked up when it is no longer mapped
FreedBy(v) == {MmGetPhysicalAddress(v)} \ {Nowhere}

ReleaseNext ==
  /\ call.op \in {"unwind", "release"}
  /\ call.i < call.pages
  /\ MmUnmapPage(PageNow)
  /\ free' = free \cup FreedBy(PageNow)
  /\ call' = NextPage
  /\ UNCHANGED <<root, heapNext, mmioNext, live, abandoned, supply, depth>>

EndUnmapLoop ==
  /\ call.op \in {"rollback", "unmap", "unwind", "release"}
  /\ call.i = call.pages
  /\ call' = Idle
  /\ UNCHANGED <<free, table, root, heapNext, mmioNext, tlb, live, abandoned, supply, depth>>

-----------------------------------------------------------------------------
(* Once CR3 is loaded the processor may cache any translation, and forget  *)
(* it.                                                                     *)
Switched == call.op \notin {"boot", "direct", "section", "failed"}

Cache(v) ==
  /\ Switched
  /\ MmGetPhysicalAddress(v) # Nowhere
  /\ Cardinality(tlb) < MaxTlb
  /\ tlb' = tlb \cup {[page |-> v, phys |-> MmGetPhysicalAddress(v)]}
  /\ UNCHANGED <<free, table, root, heapNext, mmioNext, call, live, abandoned, supply, depth>>

Evict ==
  /\ \E t \in tlb : tlb' = tlb \ {t}
  /\ UNCHANGED <<free, table, root, heapNext, mmioNext, call, live, abandoned, supply, depth>>

Next ==
  \/ MmInitPaging \/ BeginMapPage \/ EndMapLoop
  \/ Follow \/ CreateTable \/ WriteLeaf \/ MapPageFails
  \/ \E pages \in 1 .. MaxRequest : MmAllocateVirtual(pages)
  \/ AllocateFrame \/ AllocateFails \/ AllocateReturns
  \/ \E phys \in Devices : \E pages \in 0 .. MaxRequest : MmMapIoSpace(phys, pages)
  \/ \E r \in live : MmFreeVirtual(r) \/ MmUnmapIoSpace(r)
  \/ UnmapNext \/ ReleaseNext \/ EndUnmapLoop
  \/ \E v \in Pages : Cache(v)
  \/ Evict

Spec == Init /\ [][Next]_vars

-----------------------------------------------------------------------------
Mapped(v) == MmGetPhysicalAddress(v) # Nowhere
HeapPages == HeapBase .. HeapEnd
Tables == {f \in Frames : depth[f] > 0}
InHand == IF call.op = "alloc" /\ call.level > 0 THEN {call.phys} ELSE {}

(* A frame the kernel's memory code has taken is in exactly one use: in    *)
(* the physical memory manager, a page table, behind one heap page, or in  *)
(* the hands of MmAllocateVirtual.  None is in two and none is lost, at    *)
(* any point of any call (Paging.C:152-191, VMM.C:201-230, 236-252).       *)
FramesHaveOneUse ==
  LET backs == [v \in {w \in HeapPages : Mapped(w)} |-> MmGetPhysicalAddress(v)]
      backing == {backs[v] : v \in DOMAIN backs}
  IN  /\ supply = free \cup Tables \cup backing \cup InHand
      /\ free \cap Tables = {}
      /\ backing \cap (free \cup Tables) = {}
      /\ InHand \cap (free \cup Tables \cup backing) = {}
      /\ \A v, w \in DOMAIN backs : backs[v] = backs[w] => v = w

(* The processor never holds a translation the tables no longer have, so   *)
(* no frame is reached through a page it was taken from (Paging.C:243,     *)
(* 269-276; VMM.C:243-250 frees only after that).                          *)
TlbCoherent == \A t \in tlb : MmGetPhysicalAddress(t.page) = t.phys

(* Between calls the windows hold what callers were given and nothing      *)
(* else: heap ranges are backed throughout, device ranges map their device *)
(* page by page, guard pages and failed mappings are not there             *)
(* (VMM.C:99-108), save for the pages a failed MmAllocateVirtual forgets.  *)
Held == abandoned \cup UNION {PagesOf(r) : r \in live}
MappedExactlyHeld ==
  call = Idle =>
    /\ \A v \in Window : Mapped(v) <=> v \in Held
    /\ \A r \in live : r.kind = "mmio" =>
         \A v \in PagesOf(r) : MmGetPhysicalAddress(v) = r.phys + (v - r.virt)

(* "Unwind: unmap and release everything already taken" (VMM.C:208): when  *)
(* MmAllocateVirtual fails, none of the pages it mapped stays mapped.      *)
FailureReleasesAll == call = Idle => \A v \in Window \ UNION {PagesOf(r) : r \in live} : ~Mapped(v)

(* Every step leaves all translations alone but the one page it maps or    *)
(* unmaps (Paging.C: building a table, or leaving an empty one, changes    *)
(* none).                                                                  *)
A == INSTANCE AddressSpace WITH space <- Space
ImplementsSpace == A!Spec
=============================================================================

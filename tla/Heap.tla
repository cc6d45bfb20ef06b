------------------------------- MODULE Heap -------------------------------
(***************************************************************************)
(* The kernel pool allocator, src/Shadow/MM/Heap.C: blocks with in-band    *)
(* headers, linked through Next and Prev, cut from chunks that             *)
(* MmAllocateVirtual returns at the cursor of its window, with an unmapped *)
(* guard page after each.                                                  *)
(*                                                                         *)
(* Addresses and sizes are counted in units of one header.  mem[a] is what *)
(* memory at address a holds, read as a header, whether a block begins     *)
(* there or not: the code follows stale links into such memory.  `blocks'  *)
(* records where the pool really keeps a header.  HeapTail and Prev may    *)
(* name a place where none is left; what is read or written there depends  *)
(* on how the bytes of the headers overlap, which units of a header do not *)
(* tell, so `strayed' records that the pool followed such a link and the   *)
(* properties speak of the states before that.                             *)
(* The cursor is bumped modulo 2^64 (VMM.C:69-82): a request of tens of    *)
(* terabytes passes the check of the window's end by wrapping, takes the   *)
(* cursor down, and then fails for want of frames.  Chunks mapped from     *)
(* there replace pages in use (Paging.C:218-219) and the failures after    *)
(* unmap some: `sunk' records that the cursor has gone down, and there the *)
(* model ends.                                                             *)
(* The kernel calls the pool from its single thread and no interrupt       *)
(* handler allocates: an operation is one step.                            *)
(***************************************************************************)
EXTENDS Integers, FiniteSets

CONSTANTS
  HeapBase, HeapEnd,   \* the window MmAllocateVirtual hands out
  MinChunk,            \* HEAP_MIN_CHUNK
  MinSplit,            \* HEAP_MIN_SPLIT
  PageSize,            \* PAGE_SIZE; also the size of the guard
  Word,                \* SIZE_T and address arithmetic is modulo Word
  Backing,             \* the most the frames of the machine can back
  Requests,            \* the sizes callers ask for
  Data                 \* what callers write into their allocations, and where

ASSUME HeapAssumption ==
  /\ HeapBase \in Nat \ {0} /\ HeapEnd \in Nat /\ HeapBase <= HeapEnd
  /\ MinChunk \in Nat \ {0} /\ MinSplit \in Nat
  /\ PageSize \in Nat \ {0} /\ Word \in Nat \ {0}
  /\ Backing \in Nat
  /\ HeapEnd + Backing + PageSize < Word    \* under 48 TiB of frames

Hdr == 1                                   \* sizeof(_HEAP_BLOCK)
Null == 0
Address == HeapBase .. (HeapEnd - 1)
Link == Address \cup {Null}
Header == [magic : BOOLEAN, size : 0 .. HeapEnd, free : BOOLEAN, next : Link, prev : Link]

ASSUME CallersAssumption ==
  /\ Requests \subseteq 1 .. (Word - 1)
  /\ Data \subseteq [at : Address, as : Header]

VARIABLES
  mem,       \* what each address holds, read as a header
  head,      \* HeapHead
  tail,      \* HeapTail
  heapNext,  \* Space->HeapNext, the cursor of the address window
  ready,     \* HeapReady
  chunks,    \* the chunks mapped so far (history)
  blocks,    \* where the pool keeps a header, listed or not (history)
  strayed,   \* the pool has followed a link to no block (history)
  sunk,      \* the cursor has gone down (history)
  live,      \* blocks handed out and not freed, with the bytes asked for (history)
  stale      \* pointers freed once whose header nothing has overwritten (history)

vars == <<mem, head, tail, heapNext, ready, chunks, blocks, strayed, sunk, live, stale>>

Zeroes == [magic |-> FALSE, size |-> 0, free |-> FALSE, next |-> Null, prev |-> Null]

(* The addresses a chunk or an allocation occupies, header included.       *)
Extent(c) == c.base .. (c.base + c.bytes - 1)
Payload(a) == (a.block + Hdr) .. (a.block + Hdr + a.bytes - 1)
Footprint(a) == a.block .. (a.block + Hdr + a.bytes - 1)

-----------------------------------------------------------------------------
(* HeapExpand.  The chunk size is computed in SIZE_T, and so are the span  *)
(* and the end that VmmBumpHeap compares with the end of its window.  A    *)
(* span that wraps leaves the cursor anywhere below, also under the window *)
(* or where it was.                                                        *)
PageAlignUp(n) == (((n + PageSize - 1) % Word) \div PageSize) * PageSize
ChunkBytes(min) ==
  LET wanted == (min + Hdr) % Word
  IN  PageAlignUp(IF wanted < MinChunk THEN MinChunk ELSE wanted)
Span(bytes) == (bytes + PageSize) % Word
NextCursor(bytes) == (heapNext + Span(bytes)) % Word
RoomFor(bytes) == bytes > 0 /\ NextCursor(bytes) < HeapEnd

(* The memory after a new chunk at virt has been linked behind the tail.   *)
AppendChunk(virt, bytes) ==
  LET block == [magic |-> TRUE, size |-> bytes - Hdr, free |-> TRUE,
                next |-> Null, prev |-> tail]
      fresh == [mem EXCEPT ![virt] = block]
  IN  IF tail # Null THEN [fresh EXCEPT ![tail].next = virt] ELSE fresh

HeapExpand(min) ==
  LET bytes == ChunkBytes(min)
  IN  /\ RoomFor(bytes) /\ bytes <= Backing
      /\ heapNext' = NextCursor(bytes)
      /\ chunks' = chunks \cup {[base |-> heapNext, bytes |-> bytes]}
      /\ tail' = heapNext
      /\ head' = IF tail # Null THEN head ELSE heapNext
      /\ strayed' = (strayed \/ tail \notin blocks \cup {Null})
      /\ UNCHANGED sunk

(* No address range is left, or no frames, with the range already spent.   *)
HeapExpandFails(min) ==
  LET bytes == ChunkBytes(min)
  IN  /\ heapNext' = IF RoomFor(bytes) THEN NextCursor(bytes) ELSE heapNext
      /\ sunk' = (heapNext' < heapNext)
      /\ UNCHANGED <<mem, head, tail, chunks, blocks, strayed>>

-----------------------------------------------------------------------------
(* HeapFindFit: the first free block of the list that is large enough, as  *)
(* the walk from `first' along Next in memory m meets it.                  *)
FirstFit(m, first, bytes) ==
  LET walk[a \in Link] ==
        IF a = Null THEN Null
        ELSE IF m[a].free /\ m[a].size >= bytes THEN a
        ELSE walk[m[a].next]
  IN  walk[first]

SplitTight(m, b, bytes) ==             \* mutant: no room kept for the new header
  IF m[b].size <= bytes THEN m
  ELSE LET rest == b + Hdr + bytes
           block == [magic |-> TRUE, size |-> m[b].size - bytes, free |-> TRUE,
                     next |-> m[b].next, prev |-> b]
       IN  [m EXCEPT ![rest] = block, ![b].next = rest, ![b].size = bytes]

SplitUnshrunk(m, b, bytes) ==          \* mutant: Block->Size is not reduced
  IF m[b].size < bytes + Hdr + MinSplit THEN m
  ELSE LET rest == b + Hdr + bytes
           next == m[b].next
           block == [magic |-> TRUE, size |-> m[b].size - bytes - Hdr, free |-> TRUE,
                     next |-> next, prev |-> b]
           cut == [m EXCEPT ![rest] = block, ![b].next = rest]
       IN  IF next # Null THEN [cut EXCEPT ![next].prev = rest] ELSE cut

(* HeapSplit; the tail pointer is not among the things it updates.         *)
Splits(m, b, bytes) == m[b].size >= bytes + Hdr + MinSplit

Split(m, b, bytes) ==
  IF ~Splits(m, b, bytes) THEN m
  ELSE LET rest == b + Hdr + bytes
           next == m[b].next
           block == [magic |-> TRUE, size |-> m[b].size - bytes - Hdr, free |-> TRUE,
                     next |-> next, prev |-> b]
           cut == [m EXCEPT ![rest] = block, ![b].next = rest, ![b].size = bytes]
       IN  IF next # Null THEN [cut EXCEPT ![next].prev = rest] ELSE cut

(* Memory once block b has been handed out, its payload cleared if asked.  *)
HandOut(m, b, bytes, zeroed) ==
  LET split == Split(m, b, bytes)
      taken == [split EXCEPT ![b].free = FALSE]
  IN  IF zeroed
      THEN [a \in Address |-> IF a \in Payload([block |-> b, bytes |-> bytes])
                              THEN Zeroes ELSE taken[a]]
      ELSE taken

(* Block b of memory m, in which the blocks are bs, goes to a caller.      *)
GiveTo(m, bs, b, bytes, zeroed) ==
  LET grant == [block |-> b, bytes |-> bytes]
  IN  /\ mem' = HandOut(m, b, bytes, zeroed)
      /\ blocks' = bs \cup (IF Splits(m, b, bytes) THEN {b + Hdr + bytes} ELSE {})
      /\ live' = live \cup {grant}
      /\ stale' = {p \in stale : p \notin Footprint(grant) /\ mem'[p] = m[p]}

(* ExAllocatePool and ExAllocatePoolZeroed.                                *)
AllocateFromList(bytes, zeroed) ==
  LET b == FirstFit(mem, head, bytes)
  IN  /\ ready
      /\ b # Null
      /\ GiveTo(mem, blocks, b, bytes, zeroed)
      /\ UNCHANGED <<head, tail, heapNext, ready, chunks, strayed, sunk>>

AllocateAfterGrowth(bytes, zeroed) ==
  /\ ready
  /\ FirstFit(mem, head, bytes) = Null
  /\ HeapExpand(bytes)
  /\ LET grown == AppendChunk(heapNext, ChunkBytes(bytes))
         among == blocks \cup {heapNext}
         b == FirstFit(grown, head', bytes)
     IN  IF b # Null THEN GiveTo(grown, among, b, bytes, zeroed)
         ELSE mem' = grown /\ blocks' = among /\ UNCHANGED <<live, stale>>
  /\ UNCHANGED ready

AllocateFails(bytes) ==
  /\ ready
  /\ FirstFit(mem, head, bytes) = Null
  /\ HeapExpandFails(bytes)
  /\ UNCHANGED <<ready, live, stale>>

-----------------------------------------------------------------------------
(* ExFreePool joins the block with a free neighbour on either side, as     *)
(* Next and Prev name them, when the two touch in memory.                  *)
Touches(m, a, b) == a + Hdr + m[a].size = b

Absorb(m, a, b) ==     \* a takes over b, its successor, and b's link onward
  LET joined == [m EXCEPT ![a].size = @ + Hdr + m[b].size, ![a].next = m[b].next]
  IN  IF m[b].next # Null THEN [joined EXCEPT ![m[b].next].prev = a] ELSE joined

JoinsUsed(m, b) == m[b].next # Null /\ Touches(m, b, m[b].next)         \* mutant: Free not tested
JoinsAcrossGap(m, b) == m[b].next # Null /\ m[m[b].next].free           \* mutant: adjacency not tested
JoinsNext(m, b) == m[b].next # Null /\ m[m[b].next].free /\ Touches(m, b, m[b].next)
JoinsNoPrev(m, b) == FALSE             \* mutant: no backward coalesce
JoinsPrev(m, b) == m[b].prev # Null /\ m[m[b].prev].free /\ Touches(m, m[b].prev, b)

CoalescedDeadUsed(b) ==                \* mutant: only a block that stays is marked free
  LET next == mem[b].next
      fwd == IF JoinsNext(mem, b) THEN Absorb(mem, b, next) ELSE mem
      tail1 == IF JoinsNext(mem, b) /\ mem[next].next = Null THEN b ELSE tail
      prev == fwd[b].prev
  IN  IF JoinsPrev(fwd, b)
      THEN [mem |-> Absorb(fwd, prev, b),
            tail |-> IF fwd[b].next = Null THEN prev ELSE tail1,
            gone |-> {b}, stray |-> prev \notin blocks \cup {Null}]
      ELSE [mem |-> [fwd EXCEPT ![b].free = TRUE], tail |-> tail1,
            gone |-> {}, stray |-> prev \notin blocks \cup {Null}]

(* What ExFreePool leaves, the blocks that are no more, and whether the    *)
(* Prev it followed named none.                                            *)
Coalesced(b) ==
  LET freed == [mem EXCEPT ![b].free = TRUE]
      next == freed[b].next
      fwd == IF JoinsNext(freed, b) THEN Absorb(freed, b, next) ELSE freed
      tail1 == IF JoinsNext(freed, b) /\ freed[next].next = Null THEN b ELSE tail
      gone1 == IF JoinsNext(freed, b) THEN {next} ELSE {}
      prev == fwd[b].prev
  IN  IF JoinsPrev(fwd, b)
      THEN [mem |-> Absorb(fwd, prev, b),
            tail |-> IF fwd[b].next = Null THEN prev ELSE tail1,
            gone |-> gone1 \cup {b}, stray |-> prev \notin blocks \cup {Null}]
      ELSE [mem |-> fwd, tail |-> tail1, gone |-> gone1,
            stray |-> prev \notin blocks \cup {Null}]

Refuses(b) == ~mem[b].magic \/ mem[b].free

ExFreePool(b) ==
  /\ IF Refuses(b)
     THEN UNCHANGED <<mem, tail, blocks, strayed>>
     ELSE /\ mem' = Coalesced(b).mem
          /\ tail' = Coalesced(b).tail
          /\ blocks' = blocks \ Coalesced(b).gone
          /\ strayed' = (strayed \/ Coalesced(b).stray)
  /\ UNCHANGED <<head, heapNext, ready, chunks, sunk>>

(* A caller returns what it holds.                                         *)
Free ==
  \E a \in live :
    /\ ExFreePool(a.block)
    /\ live' = live \ {a}
    /\ stale' = stale \cup {a.block}

(* A caller frees a pointer for the second time.                           *)
FreeAgain ==
  \E b \in stale : ExFreePool(b) /\ UNCHANGED <<live, stale>>

(* A caller writes to what it holds.                                       *)
Write ==
  \E a \in live, d \in Data :
    /\ d.at \in Payload(a)
    /\ mem' = [mem EXCEPT ![d.at] = d.as]
    /\ UNCHANGED <<head, tail, heapNext, ready, chunks, blocks, strayed, sunk, live, stale>>

-----------------------------------------------------------------------------
ExInitializePool ==
  /\ ~ready
  /\ HeapExpand(MinChunk)
  /\ mem' = AppendChunk(heapNext, ChunkBytes(MinChunk))
  /\ blocks' = blocks \cup {heapNext}
  /\ ready' = TRUE
  /\ UNCHANGED <<live, stale>>

Init ==
  /\ mem = [a \in Address |-> Zeroes]
  /\ head = Null
  /\ tail = Null
  /\ heapNext = HeapBase
  /\ ready = FALSE
  /\ chunks = {}
  /\ blocks = {}
  /\ strayed = FALSE
  /\ sunk = FALSE
  /\ live = {}
  /\ stale = {}

(* The calls from where the cursor has gone down are not followed.         *)
Beyond == sunk /\ UNCHANGED vars

Call ==
  \/ ExInitializePool
  \/ \E bytes \in Requests :
       \/ \E zeroed \in BOOLEAN : AllocateFromList(bytes, zeroed)
       \/ \E zeroed \in BOOLEAN : AllocateAfterGrowth(bytes, zeroed)
       \/ AllocateFails(bytes)
  \/ Free
  \/ FreeAgain
  \/ Write

Next == (~sunk /\ Call) \/ Beyond

Spec == Init /\ [][Next]_vars

-----------------------------------------------------------------------------
(* The pool has followed no link to no block, and nothing has wrapped the  *)
(* cursor of its window.                                                   *)
Sound == ~strayed /\ ~sunk

TypeOK ==
  /\ ready \in BOOLEAN /\ strayed \in BOOLEAN /\ sunk \in BOOLEAN
  /\ Sound =>
       /\ mem \in [Address -> Header]
       /\ head \in Link /\ tail \in Link
       /\ heapNext \in HeapBase .. HeapEnd
       /\ \A c \in chunks : Extent(c) \subseteq Address
       /\ blocks \subseteq Address
       /\ \A a \in live : Footprint(a) \subseteq Address
       /\ stale \subseteq Address

(* Blocks reachable from HeapHead along Next.                              *)
Listed ==
  LET from[a \in Link] == IF a = Null THEN {} ELSE {a} \cup from[mem[a].next]
  IN  from[head]

Block(b) == [block |-> b, bytes |-> mem[b].size]

(* Two allocations never share an address, headers included, whatever      *)
(* blocks were split, joined, lost from the list or freed twice, up to the *)
(* first link to no block (Heap.C:111-152, 201-254).                       *)
LiveDisjoint ==
  Sound => \A a, b \in live : a # b => Footprint(a) \cap Footprint(b) = {}

(* An allocation lies inside one chunk: coalescing never bridges the guard *)
(* page between two chunks (Heap.C:222-254, VMM.C:69-82).                  *)
LiveInsideChunk ==
  Sound => \A a \in live : \E c \in chunks : Footprint(a) \subseteq Extent(c)

(* The header in front of an allocation still says so, whatever its caller *)
(* and the others wrote: the magic stands, the block is in use and no      *)
(* smaller than what was asked for, so a correct ExFreePool is never       *)
(* refused (Heap.C:208-218).                                               *)
LiveHeaderIntact ==
  Sound => \A a \in live : /\ mem[a.block].magic /\ ~mem[a.block].free
                             /\ mem[a.block].size >= a.bytes

(* A free block of the list shares nothing with an allocation, so what the *)
(* next call hands out is nobody's (Heap.C:111-121).                       *)
ListedFreeIsUnused ==
  Sound => \A b \in Listed, a \in live :
                mem[b].free => Footprint(Block(b)) \cap Footprint(a) = {}

(* No two neighbours of the list that touch are both free: every order of  *)
(* frees leaves the list coalesced (Heap.C:222-254).                       *)
ListCoalesced ==
  Sound => \A b \in Listed :
                mem[b].free /\ mem[b].next # Null /\ mem[mem[b].next].free
                  => ~Touches(mem, b, mem[b].next)

(* A pointer freed once and not handed out again never passes the checks   *)
(* of ExFreePool, not even when its block has been absorbed by a neighbour *)
(* (Heap.C:208-218).                                                       *)
DoubleFreeRefused == Sound => \A b \in stale : ~mem[b].magic \/ mem[b].free

-----------------------------------------------------------------------------
(* What an allocation holds is its caller's: no call of the pool writes to *)
(* it.  The pool relies on new chunks being "always appended at the tail"  *)
(* (Heap.C:68), that is on HeapTail being the last block of the list.      *)
(* Does not hold: HeapSplit leaves HeapTail on the first half of what it   *)
(* cuts (Heap.C:144-151), a later ExFreePool joins that half to the block  *)
(* before it, the joined block is handed out, and the next HeapExpand      *)
(* writes HeapTail->Next into the middle of it.                            *)
PayloadIsTheCallers ==
  [][~Write => \A a \in live \cap live' : \A x \in Payload(a) : mem'[x] = mem[x]]_vars

(* "One list, address-ordered, holding both used and free blocks"          *)
(* (Heap.C:37-42): the block of every allocation is on the list.  Does not *)
(* hold either: with HeapTail left behind by HeapSplit, the next           *)
(* HeapExpand unlinks the remainder.                                       *)
OneListHoldsLive == \A a \in live : a.block \in Listed

(* "A fresh chunk is always at a higher virtual address than everything    *)
(* before it" (Heap.C:67-69), for "neither window ever reuses an address"  *)
(* (VMM.C:48-49).  Does not hold: VMM.C:74-80 bumps the cursor modulo 2^64 *)
(* without a test for overflow, so a request that wraps takes it below     *)
(* chunks in use.                                                          *)
FreshChunkAbove == \A c \in chunks : c.base + c.bytes <= heapNext
=============================================================================

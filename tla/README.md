# PhononL, specified and checked

PhononL is an x86-64 kernel, *Shadow* (`src/Shadow`), and the UEFI program that
loads it (`src/PhononPkg/Boot`). The kernel runs one thread; what happens beside
it is interrupts, exceptions and hardware. This directory holds TLA+ models of
the parts whose correctness depends on the order of things, the TLC
configurations that check them, and TLAPS proofs about them. Line numbers below
refer to `src/`.

## 1. Inventory

| Component | State it keeps | Operations | Talks to | Model |
|---|---|---|---|---|
| PMM (`MM/PMM.C`) | bitmap, free count, search hint | init, allocate, free, reserve, reclaim | firmware map; Paging, VMM | `Pmm`, `PmmSweep` |
| Paging (`MM/Paging.C`) | page tables, CR3, the TLB | build tables, map, map huge, unmap, walk, invalidate | PMM, VMM | `Vmm` |
| VMM (`MM/VMM.C`) | cursors of the heap and MMIO windows | map/unmap ranges, MMIO, allocate/free virtual | PMM, Paging | `Vmm`; the bump also in `Heap` |
| Pool (`MM/Heap.C`) | list of in-band headers, head, tail | expand, allocate, free | VMM; every subsystem | `Heap` |
| XScope (`XAL/XScope.C`) | which nodes are done | run every Init in dependency order | all | `XScope`, `Boot` |
| Loader (`PhononPkg/Boot`) | boot-info block, firmware buffers, map key | find screen and RSDP, read and load the kernel, exit boot services, jump | firmware, kernel | `Loader`, `Boot` |
| 8042 (`DRV/PS2/I8042.C`) | port-2 flag; the chip's configuration and buffers | commands, reads, drains, enable/disable, init | keyboard, KBD | `I8042` |
| Keyboard (`DRV/PS2/KBD.C`) | ring, prefix flags, live flag | IRQ handler, read, breakpoint, LEDs, init | 8042, PIC, IDT | `Scancode`, `KbdRing`, `Kbd`, `I8042` |
| IDT (`Int/IDT.C`) | handler table | register, dispatch, default fault | PIC, printk | `Irq`, `Console` |
| IAL and 8259 (`IAL/`) | masks; the chips' request and service registers | remap, enable, disable, EOI | IDT | `Irq` |
| TAL and PIT (`TAL/`) | ticks, divisor | tick, stop, set rate | IDT, IAL | `Irq`, `Pit` |
| PCI (`BUS/PCI/CORE`, `HOST`) | next bus number, buses, devices, BARs | enumerate, number bridges, probe BARs | configuration space | `Pci`, `PciInit` |
| MCFG (`BUS/PCI/ACPI/MCFG.C`) | ECAM regions | find the table, take entries, look up a bus | ACPI tables | `Mcfg`, `PciInit` |
| Console, FB (`GFX/`), printk | text rows, cursor, dirty rows; back and front buffers | put, wrap, tab, scroll, redraw, present | heap; IDT's fault message | `Console` |
| Serial, Lib, CPUID, GDT, stubs | a flag; nothing; features; tables | polled I/O; pure functions; loads | – | section 7 |
| PciNames, fonts, scripts | – | – | – | generated or data |

How they interact. Firmware runs the loader, which hands the kernel a block with
the memory map and jumps. `KernelMain` runs `XScopeRun`, which calls every
subsystem's Init in dependency order: PMM comes up on the identity map, Paging
builds new tables and switches, VMM and the pool follow, then the interrupt
controllers, the timer, the keyboard, the screen. After that the kernel reclaims
the boot services memory (`Kernel.C:60`), sets the timer rate, scans PCI and
stops at `Kbr`, the keyboard breakpoint, between these steps. What runs beside this thread is
interrupt handlers (IRQ0 counts ticks, IRQ1 fills the key ring), which do not
nest and do not allocate, exceptions, which print through the console they may
have broken into, and the hardware: the 8042 and its keyboard, the two 8259s,
the TLB, the bridges on the way to a PCI function. So PMM and pool operations
are atomic, page-table walks are atomic but for what the processor caches, and the
keyboard, the controllers and the screen are where interleavings count.

What is hard here:

* **allocation histories** – partial frees, wrap-around of the hint, splitting and
  merging over stale links, growth across guard pages: only long call sequences
  go wrong;
* **page tables under failure** – every level of every walk may find no frame for
  a table, and each caller undoes a different part of what it did;
* **one buffer, many speakers** – the 8042's output buffer carries controller
  answers, keyboard replies, keys and, once live, is popped by an interrupt
  handler as well;
* **preemption** – `KbdRead` may be interrupted between any two accesses, printk
  by an exception between any two writes;
* **two chips, two EOIs** – requests come, are masked and vanish between INT and
  the acknowledge cycle;
* **self-reference** – the scan of the PCI buses goes through the bridge windows
  it is rewriting;
* **partial failure** – any command of the keyboard's bring-up may be refused, any
  answer late, garbled or missing; any firmware call of the loader may fail, and
  the memory map moves whenever it allocates to ask for it;
* **order of bring-up** – found at run time from names and link order.

What makes each part correct is stated by the properties of sections 3 and 4.
`PROJECT.json` lists every hazard at its line with the properties aimed at it.

## 2. Modules

```
FramePool       what PMM promises            <- Pmm            PmmProofs
                                                PmmSweep (the loop; a recursive function)
AddressSpace    what page tables promise     <- Vmm            VmmProofs
KeyQueue        what the ring promises       <- Kbd = KbdRing + Scancode
                                                               KbdProofs
                                                Heap             HeapProofs
                                                I8042            I8042Proofs
                                                Console          BootProofs
                                                Irq = Pit + controllers  IrqProofs
                                                PciInit = Pci + Mcfg     PciProofs
                                                Boot = Loader + XScope   BootProofs
MCPmm, MCHeap, MCVmm, MCKbd, MCI8042, MCIrq, MCPci, MCBoot, MCConsole: instances for TLC
```

`<-` means: refines. Proof modules only extend what they prove about; `PmmProofs` covers `PmmSweep`, and
`BootProofs` covers the console that the bring-up reports on.

**Pmm.** The bitmap is the set `free` of frames whose bit is clear; addresses are
frame numbers. `MmInitPhysical` is the whole function, its three passes and five
reservations; `MmInitPhysicalFails` its two error returns. An allocation is one
step; what a sweep returns is *specified* in `Pmm` (the lowest run that fits
below the limit), while `PmmSweep` transcribes the loop with its word skip and
its jump past broken runs, and `LoopFindsLowestRun` states that the two agree.
Histories: `reserved`, `owned`. Callers free only what they hold; the code does
not check, and nothing in the repository does otherwise. Boot services memory
is never reserved after boot: reclaiming would undo it (PMM.C:497-499).

**FramePool.** Abstract: frames are supplied, withdrawn, taken as a contiguous
run, given back. `Pmm!ImplementsPool` maps `avail` to the free frames above the
cutoff and `held` to `owned`.

**Vmm.** Page tables are what frames hold: `table[f]` is the content of frame `f`
read as a table, all four levels of it, so that a frame full of stale bytes is a
table full of stale entries until it is cleared. A call is cut into steps: one
per `PagingDescend`, one per leaf written, one per page unmapped. Any of them may
find the PMM empty (the PMM is the set `free` and a function `Search` that says
which free frame comes next, because only its result matters here). Each caller
fails in its own way, as written: `MmInitPaging` gives up, a kernel section is
skipped silently (`PagingMapKernelSection` returns nothing), `MmMapRange` rolls
back, `MmAllocateVirtual` unwinds if the *frame* is missing and does not if a
*table* is. Beside the thread the processor caches and evicts translations.
Histories: `live`, `abandoned` (pages a failed allocation leaves mapped), `supply`,
`depth` (which level's table a frame is). `space` of **AddressSpace** is the
translation `MmGetPhysicalAddress` computes.

**Heap.** `mem[a]` is whatever header was last written at `a`, even if no block
begins there any more, because the code follows such links. Sizes are in units of
one header, and all sums of sizes and addresses wrap modulo `Word`: `PAGE_ALIGN_UP`, the one in
`HeapExpand`, and the span and the end of it that `VmmBumpHeap` compares with the end of its window
(`VMM.C:74-80`). A request whose span reaches beyond the last address passes that comparison and
takes the cursor down, under live chunks or under the window; it then fails, for no machine can back it
(`Backing`), but the next chunk lands where the cursor is. `sunk` records such a step and the model
ends there, since what follows is a matter of page tables; the properties speak of the states before. A
zeroed allocation overwrites the headers in its payload, a plain one keeps them.
`HeapExpandFails` covers a failure before and after address space is spent. A caller
may free twice (`FreeAgain`) as long as nobody has been handed the memory since, and
writes what it likes into what it holds (`Write`; `Data` may look like headers).
Histories: `blocks`, where the pool keeps a header, and `strayed`. The tail pointer and
`Prev` may name a place where no header is left (finding 1). A store through such a link
hits some bytes of what is there now, which units of one header cannot tell, so the step that
follows one sets `strayed` and the properties speak of the states before it.

**Scancode, KbdRing, Kbd.** `Kind`, `After` and `Emits` are the handler's tests in
its order. `KbdRingPush` is one step (interrupts are off). `KbdRead` is a test, a
copy and a store, and since `KbdRing` is not `volatile` while the indices are
(KBD.C:44-47), the copy may come after the store. The keyboard sends whole key
sequences, the controller passes one byte at a time and may garble it, the IRQ
line is up while the buffer is full. A key has a stroke each for press, repeat and release: its bytes,
and the events they stand for by whether the handler is left waiting for the second half of a Print Screen
(`armed`), since with a real keyboard it may be: Print Screen is released with E0 B7 E0 AA, and E0 AA is
taken for a first half (section 5). `Kbr` is the `__SH_DEBUG__` build.
**KeyQueue** is a bounded first-in first-out queue that loses only newcomers.

**I8042.** `pc` is `<<routine, step>>`, a step is one call of a primitive; reading is
two steps (status, then data), and the data register keeps its last byte for a
reader whose byte was popped meanwhile. `I8042CommandArg` is one step. The
device is a keyboard, a broken one, something else or nothing. It may refuse, ask
for a resend, answer late; somebody may type. A spin for the controller's own
answer does not run out (I8042.C:254-256); one for a device may. `DisablePort` has three ends: done, given
up half way, and refused at its first command, which leaves the port as it was. The self-test may
revert the configuration or fail. The chip and the device, and nothing else, are
external to `src/`. Port 2 is probed and tested; its EnablePort/DisablePort halves
have no caller.

**Irq, Pit.** `irr`, `isr`, `imr` are the registers of both 8259s as sets of lines;
the slave's output is request 2 of the master. The processor samples INT and
acknowledges later (a vector beyond the table raises a general protection fault, `Raised`), so a line withdrawn or masked in between leaves a spurious
interrupt, of the master or of the slave alone. `IdtDispatch` is the handler, then
the EOIs `IALPicSendEoi` chooses by the vector, each a step. `PicRemap` sends ICW1
to the master only: the slave is not initialised, takes the bytes meant as
ICW2–ICW4 for masks, and keeps the vector base firmware gave it. `Pit` is the arithmetic of
`TalPitSetFrequency`: clamping, the two bytes written, what the counter makes of
them, and the number returned.

**Pci, Mcfg, PciInit.** A machine is a set of functions on wires; a bridge hands a
configuration cycle on by the window in its registers, which is what the scan
rewrites, one register a step. `scan` is the recursion stack of `PciScanBus`, `work` the
locals of `PciReadBases`; base address registers answer a probe by kind, size and
width. `Mcfg` is `PciMcfgInit`, one table entry a step. `PciInit` runs one after the other.

**Loader, XScope, Boot.** One action per firmware call of the loader; `held` is what
it has taken and not given back, `current` says whether the map in the buffer is
the map there is, and so whether the key is good. Firmware refuses, moves the map
behind the loader's back, or, if `stubborn`, never lets go. In XScope a step is one
node's Init, `Done` is read off the order, and every Init returns with success or failure.
`Boot` composes them: the kernel's loop starts when the loader has jumped, and a loader
that halts starts none.

**Console.** Whoever prints is cut into single writes, of the cell, its terminator,
the two dirty marks, each scrolled row, each redrawn and presented row. An exception may come between
any two of them: `Fault` starts `IdtDefaultFault`'s message with every variable as
it stands, and the victim never resumes. `struck` is the row being written then. The message
begins with a line feed (`IDT.C:135`), which `ConsoleAssumption` states.

## 3. Runs

| Run | Instance | What it shows |
|---|---|---|
| `pmm` | 11 frames, cutoff 2, words of 2 bits, 4 boot-info blocks | conservation, no double hand-out, completeness of the search, refinement of `FramePool` |
| `heap` | window of 21 units, chunks of 4, addresses modulo 64, 4 request sizes (one wraps in the size of its chunk, one takes the cursor down) | until a link to no block is followed or the cursor goes down: live blocks disjoint, inside one chunk, with intact headers whatever callers write; free blocks coalesced; double frees refused |
| `heap_list` | same | *violated*: live blocks may be off the list (finding 1) |
| `vmm` | 13 frames of 4 entries, 8 sizes of memory, windows of 6 and 4 pages, ranges of up to 2, one cached translation | one use per frame, no stale translation, windows map what was handed out and only that, refinement of `AddressSpace` |
| `vmm_unwind` | same | *violated*: a failed allocation keeps pages (finding 3) |
| `kbd` | ring of 3, 5 keys, 3 strokes, 1 garbled byte, 2 breakpoints | translation with a real Print Screen among the keys, accounting, refinement of `KeyQueue`, both drains, one release ends one breakpoint |
| `i8042` | 2 keystrokes, 1 garbled byte, 1 resend honoured, 1 LED update | ready means quiet, live means a keyboard, who has begun to shut the port hears nothing of the device again, bring-up ends |
| `i8042_leds` | no keystroke | *violated* (finding 2) |
| `irq` | timer and two slave lines, one without a handler, slave at 40 or at 112, 4 requests, 2 exceptions, 4 rates | nothing stays in service, every request let through is served, the rate reported is the rate |
| `pci` | every sub-tree of 7 functions with 3 bridges, numbered by firmware densely, with gaps or not at all, 7 pool sizes; every MCFG list of up to 3 of 7 entries | descriptors stay true while bridges are renumbered, every function found once with its BARs, probes hidden, one region per bus |
| `boot` | 2 segments, 4 surprises, up to 6 descriptors; every table of 3 nodes over 2 names, a missing name and 2 priorities; the kernel's 16 nodes in two link orders; empty, malformed, oversized tables | a sound hand-off, order, priority, stuck only if impossible, hidden needs met, booting ends |
| `console` | 3 rows of 3 characters, 5 characters printed, a fault anywhere, scanlines of equal length or padded | the back surface shows the buffer, and the screen if the scanlines are equally long |

Seven more configurations are kept beside these. Each shows a disagreement that the model
exhibits and that no run repeats (`tlc -config X.cfg M`):

* `MCHeapTail.cfg` (with `MCHeap`): **the pool writes into an allocation** (`Heap.C:98-103`). The
  stale tail of finding 1, once its block has been joined to the one before and handed out
  again, lies inside somebody's memory when the next chunk is linked behind it.
* `MCHeapWrap.cfg` (with `MCHeap`): **the cursor of a window goes down** (`VMM.C:74-80`).
  `(Pages + 1) * PAGE_SIZE` and `Virt + Span` are not tested for overflow, although "neither window ever
  reuses an address" (`VMM.C:48-49`) and `Heap.C:67-69` relies on it.
* `MCKbdSysRq.cfg` (with `MCKbd`): **SysRq stays armed** (`KBD.C:159`). The handler
  expects a release of E0 AA E0 B7; keyboards send E0 B7 E0 AA, and the next extended key is
  reported under Print Screen's code. Same keyboard as the `kbd` run.
* `MCI8042Config.cfg` (with `MCI8042`): **a key read as the configuration byte**
  (`I8042.C:343`). The second `I8042EnablePort` drains, then asks, while the keyboard scans.
* `MCIrqSlave.cfg` (with `MCIrq`): **the slave's vectors are firmware's**. Without
  ICW1 (`PIC.C:122-135`) it keeps its base; with 0x70 its lines arrive beyond the
  table, although `PIC.C:47` says "slave: 40-47".
* `MCConsolePadded.cfg` (with `MCConsole`): **padded scanlines show nothing**. If the two surfaces have
  scanlines of different length, which `Graphics.c:63` takes over from firmware, `FbPresent` ("Present
  backbuffer to screen", `FB.C:157`) copies nothing at 32 bits a pixel (`FB.C:163-186`).
* `MCConsoleFault.cfg` (with `MCConsole`): **a message may be invisible**.
  `IdtDefaultFault` begins with a bare `\n`, which moves down and not left; text that
  starts behind NULs in a fresh row is a string that ends before it. `IDT.C:125`
  promises "a real, readable exception".

### Bounds

* `pmm`: descriptors straddle the cutoff and lie below it, RAM ends inside a bitmap
  word, the bitmap occupies a page of conventional memory, four to six frames
  remain to allocate, so exhaustion, wrap of the hint and runs straddling it
  occur. Requests and frees range over every start and length.
* `heap`: three chunks fit with their guard pages; a minimal chunk holds up to two
  blocks of size 1 and one of size 3 exactly. Splits with and without remainder,
  merges in both directions, growth behind a stale tail, both wraps and both
  kinds of exhaustion are reached. Callers write what looks like a free block at two
  addresses where blocks come and go.
* `vmm`: the sizes of memory make boot fail at its first frame, at a table and in a kernel
  section, and calls fail at a frame, at each level of table, on a first and on a
  second page. The first two pages of each window lie under different page
  tables, the heap crosses a page directory, frames hold entries that lead to
  themselves. One cached translation suffices: coherence speaks of one at a time.
* `kbd`: a ring of three holds two events; three strokes fill it while a reader
  stands between any two of its steps. Five keys cover every branch of the
  handler.
* `i8042`: one keystroke can be mistaken for one answer; two let a wrong answer
  follow a right one. The bytes are 0x2A (translation bit clear) and 0xAA (equal
  to a passed self-test). Typing without end would keep a drain from ending:
  `MaxKeys` is that bound. One resend tells "honoured" from "given up".
* `irq`: two lines of the slave and one of the master interrupt one another in every
  order the chips allow, withdraw and come back. The rates lie on either side of both
  edges of the divisor. Firmware leaves the slave at 40, where `PIC.C` means it to be, or at 0x70,
  where PC firmware has it and every interrupt of it ends in the fault handler (`MCIrqSlave.cfg`). Bases at which
  a slave's vector is one of the master's are excluded (`KeptApart`): at 32, `IALPicSendEoi` would take the slave's
  interrupt for the master's, and it would stay in service.
* `pci`: two slots of two functions, eight bus numbers, a bridge behind a bridge and one
  beside it. Pools end in the middle of every branch.
* `boot`: four surprises are one for each attempt and one more. Surprises are spent only before
  the kernel's own table, since the loader does not see the table. Three nodes give cycles of each length,
  duplicates of a name, equal and different priorities.
* `console`: five characters in three rows of three wrap, scroll and tab at the edge.

The theorems of section 4 lift the bounds of `pmm`, `heap`, `vmm`, `kbd` (ring, keyboard), `i8042`,
`irq`, `boot`, `console` and `pci`.

### Deadlock

`heap` is checked for deadlock: the pool never runs out of legal calls. The other
runs stop by design: a boot that fails halts (`pmm`, `vmm`, `boot`), the bounded
keyboard falls silent (`kbd`), a bring-up that gave up does nothing more
(`i8042`), a fault halts (`irq`, `console`), a scan comes to its end (`pci`). What must
not stop there is stated as liveness.

### Fairness

* `Kbd`: weak fairness of the byte transfer (hardware), of the handler (a raised,
  unmasked line is taken; it is not nested and always returns) and of a started
  `Kbr` (the only thread). None of pressing keys or calling `Kbr`.
* `I8042`: weak fairness of the driver (straight-line code with bounded spins), of
  the transfer to an empty buffer, and of the handler. None of the device: it may
  be silent for ever.
* `Irq`: weak fairness of the processor following INT, of taking an enabled interrupt, and of
  each step of a dispatch. None of the lines or of the thread.
* `Boot`: weak fairness of the one processor, which runs the loader and then the loop. Firmware calls
  return and Inits return; one that never did would be a fault of that subsystem.

## 4. Proofs

| Module | Proved for every | Theorems |
|---|---|---|
| `PmmProofs` | memory map, frame count, cutoff, word size | types; exact free count; no double hand-out; cutoff; hint; conservation; what is handed out; completeness of the search; the loop finds the lowest run; refinement |
| `HeapProofs` | window, chunk, split and page size, requests, what callers write | types; allocations apart, inside a chunk, behind intact headers; free means unused; coalesced; second free refused; fresh chunks above the others; which requests wrap the cursor |
| `VmmProofs` | layout, amount and content of memory, device, length of calls | types; one use per frame; coherence of the TLB; windows map exactly what is held; refinement |
| `KbdProofs` | ring size above one, keyboard, number of strokes and garbled bytes | types; accounting; refinement; one release ends one breakpoint; translation; measure |
| `I8042Proofs` | firmware configuration, device, keys, number of resends and garbled bytes | in step; types; ready means quiet; live means a keyboard; given up means silent; measure |
| `IrqProofs` | set of lines and handlers; clock and counter width | types; nothing stays in service; a request let through is not held up; rate; measure |
| `BootProofs` | number of segments, size of the map, number of surprises; table of nodes | loader's types; sound hand-off; XScope's types; order; priority; stuck only if impossible; hidden needs met; loader and loop composed; measure |
| `BootProofs`, second half | size of the screen, characters, tab stops, message that begins with a line feed | the console's types; the back surface shows what was printed, and so does a screen with equally long scanlines |
| `PciProofs` | tree of functions and bridges, pool; ACPI tables | scan invariant; descriptors stay reachable; probes are never decoded; every function found once; types of the regions; one region per bus |

None of these state predicates is inductive alone. The strengthenings:

**PmmProofs** assumes `PmmAssumption` (types of the constants) and
`FirmwareAssumption`, which is what UEFI promises of its map: descriptors lie in
the machine and do not overlap, and neither map buffer nor framebuffer is in boot
services memory. `IInv` adds

* `EmptyUntilReady`: nothing is free or held before boot;
* `BitmapIsConventional`, `TakenBackIsReserved`: where initialisation put the bitmap and
  what it took back stays so: with `FramesAccounted` this gives `HandedOutIsOurs`;
* `ReservedSparesBootServices`: what makes `MmReclaimBootServices` harmless to reserved
  frames above the cutoff;
* `BitmapCoversUsable`: no frame to be freed is silently ignored as out of range.

Counting rests on lemmas about the cardinality of disjoint and nested sets. `SearchComplete` needs
no more than the bounds on the hint: a run that neither sweep accepts reaches over the hint.

`LoopFindsLowestRun` is about a recursive function, and no induction over operators is to be had. `LowestRun` says
in closed form what the loop returns once it has reached a frame. It satisfies the loop's equation, one lemma for each
way the loop goes on: a word in use holds no start of a run (`WordPassedOver`), a frame in use starts none
(`UsedStartsNoRun`), and the frame that broke a run ends every other run that holds it (`RunCounted`). And nothing else
satisfies it: where two solutions differ they differ at a later frame below the limit too, so there would be a last one.

**HeapProofs** assumes `HeapAssumption` (types; a window that does not end before it begins; `Backing`, the
memory of the machine, does not reach from the end of the window beyond the last address, that is, less than 48 TiB) and
`CallersAssumption` (requests are nonzero sizes, writes lie in the window). What succeeds is therefore
above the cursor, and what takes the cursor down fails. `HeapInv` says, while the
pool has not strayed and the cursor has not gone down (`Sound`), that

* `Laid`: blocks lie in chunks and do not overlap;
* `Chained`: `Next` of every block, on the list or off it, leads to a block further up whose `Prev`
  leads back. The converse is false: `Prev` may name what has been absorbed, and a remainder
  that `HeapExpand` unlinked still has its `Prev`, so two blocks may claim one predecessor;
* `Held`: an allocation is a block in use, of its own, at least as large as asked for;
* `Spent`: a pointer freed once is refused and is nobody's;
* `Coal`: no block and its `Next` are both free and touch.

The lemmas say what marking, cutting, joining and appending do to these. Joining needs one more
fact: two free blocks that touch may become one even when the *second* names the first as its
`Prev` and the first does not name the second, which is how a remainder off the list comes back.
`FirstFit` and `Listed` are recursive functions along `Next`; that their values are those of a
walk is shown with the library's theorem of minimal elements (links ascend), so no induction
over an operator is needed. `DoubleFreeRefused` rests on `GiveTo`'s note of which headers have
been overwritten, and on `Write` reaching only what is held.

`PlainRequestsNeverSink` removes half of the condition: if no request is so large that the end of the window
and its chunk reach beyond the last address, the cursor never goes down, whatever fails. In the kernel
such a request is one of about 48 TiB or more, and no caller of the repository makes one.

**VmmProofs** assumes `VmmAssumption` (types; devices are not memory; `Search` finds a free
frame if there is one; a page is known by its path), `RequestAssumption` (no request is so large that it
wraps the cursor of its window: its sums are modulo `AllPages`, and `Heap` has requests that wrap) and `LayoutAssumption` (the windows are
apart; the direct map has a top-level entry to itself and nothing else lies in one of its
1 GiB pages; the kernel's pages lie outside the windows and its frames outside the PMM's).
The first part is about tables as data. `Forest` says that
the frames with a depth form a forest: an entry of a table of depth 1 to 3 leads to a
table one deeper, and no two entries lead to the same table. From that: two walks
that end at the same entry are walks of the same page (`WalksMeet`, `OnePage`); adding an empty table
changes no translation (`GrowForest`, `GrowWalk`), which is where the clearing of fresh tables
is needed; writing a leaf changes the one page whose walk ends there (`EnterForest`, `LeafWalk`,
`HugeWalk`). `VmmInv` is then

* `Tree`: the tables are such a forest; `NoHuge`: no 1 GiB leaf is in the way of a window or the kernel;
* `Ranges`, `Progress`: what calls have and work on lies behind the cursors;
* `OnWalk`: a walk in progress stands on the path of its page;
* `Fresh`: a page that a call is still to map, or that lies ahead of a cursor, is not mapped, so
  that no leaf is overwritten: this is what makes every store a `Map` of the abstract space;
* `OneUse` and `Coherent`: `FramesHaveOneUse` and `TlbCoherent` over the walks.

`MappedExactlyHeld` speaks of the moments between calls. What makes it inductive is `HeldInv`, which
speaks of every step: the windows map what is held and `Doing`, the pages the running call has mapped so far
or has still to unmap (`Exact`); what was handed out, what was forgotten and what a call works on do
not meet (`Apart`); a device range being mapped is right as far as it goes (`DeviceMapped`).
That a failed allocation forgets pages (finding 3) loses no frame to a second use: they stay
behind their pages, and `abandoned` stands for them.

**KbdProofs** assumes `SizeAssumption`, `KeyboardAssumption` (the keyboard sends bytes) and, for the
breakpoints, `EnterAssumption` (no other stroke sends the byte that releases Enter).
Its first part states what a push and a read do to the sequence of waiting events, by cases on whether an index wraps.
In the second, `IInv` adds

* `WaitingAreEvents`: the slots between the indices hold events;
* `ReaderIsSafe`: what an interrupted `KbdRead` relies on. The ring it found
  nonempty stays so, the slot it has copied from is not overwritten, and, if the
  copy comes after the store, nor is the slot it has released: a push writes at
  the head, and the ring counts as full one slot before the head gets there.

A push maps to `Offer` or `Lose`, the move of the tail to `Take`, all else to a stutter. The
one slot that is never filled is thus what makes the lock-free read sound
in both orders.

`OneReleaseOneBreakpoint` follows from `BreakpointInv`, which counts releases of Enter along their way:
those on the wire and in the buffer (as bytes), in the ring, in `KbdRead`'s hands and delivered are no more than
were typed, and breakpoints passed no more than were delivered. `StrokesTranslated` needs to know what the
keys send. `KeysTranslate` says it of one stroke at a time, from a handler that remembers nothing or the first
half of a Print Screen and nothing else (`Between`), and TLC evaluates
it on the keyboard of the `kbd` run; the theorem is that then any strokes in any order translate. Its
invariant `TranslationInv` looks ahead: the bytes not yet handled, run through the parser from where it
stands, turn what was offered so far into what was typed. A stroke extends this run at its end, a
byte handled shortens it at its beginning.
What a stroke leaves behind it (`arms`) is part of what it stands for; a prefix other than that, or a count left over
from a Pause, would make some keyboard's strokes untrue.

**I8042Proofs** assumes `ControllerAssumption` (configurations and keys are bytes) and
`ScancodeAssumption`: no key sends 0xFA or 0xFE, which `I8042.H:192-193` makes the device's
acknowledgement and resend request. A keyboard with such a key could answer a handshake by being
typed on, and the theorems would be false. The buffer carries controller answers, replies and keys
in one order, and the driver takes whatever comes first. `IInv` follows it through every routine:

* `SeenInv`: what a reader has seen is in the buffer still, or was popped by the live handler;
* `EarlyInv`: until the configuration is programmed, at most one byte is ahead of the answer
  the driver waits for, and the driver's command is the only one out;
* `ProgrammedInv`, `UnmuteInv`: from there on gates and translation are as written, and a controller's answer
  that is left over once the clock runs is a configuration without the clock's bit, hence is no handshake;
* `ConverseInv`: of what the device has sent and nobody has read, at most one is an answer
  to a handshake. Handshakes therefore never run ahead: what passes for the identity was sent after the
  identity was asked for, and anything that is not a keyboard is found out before it goes live;
* `EndInv`: what going live and shutting the port establish, until the end.

`GivenUpIsSilent` is about steps: while the port is being shut no other routine of the driver runs
(`ShuttingAlone`), what the driver does puts no byte into the buffer (`DriverPutsNothingIn`), and what the transfer puts
there comes from the controller, because the clock has been off since 0xAD was accepted. It says so of the exits half way too: a
timeout, a garbled answer, a key taken for the configuration byte, a refused write.

Each of the driver's steps, the transfer, the typist and the handler preserves it in a lemma of its own.

`BringUpShrinks` counts what is left: every label has a place from the end (`Places`), a handshake two for
each resend it may still honour (`Handshakes`), and a place outweighs what one step can put into the wires.
One lemma per primitive says that it moves on or takes a byte away, then one per routine that all its exits are
nearer to the end (`Nearer`).

**IrqProofs** assumes `IrqAssumption` (no device on the cascade line; a slave's base is a multiple of eight, as the chip
has it). The types and the measure hold wherever firmware left the slave. Two theorems need `SlavesKeptApart`, that no vector of the
slave is one of the master's or of an exception somebody handles; TLC evaluates it for 40 and 112. Without it they are false, see
the bounds of `irq`. `IrqInv` adds `Dispatched`: what is in service is what the
frame being dispatched has yet to retire, by the step it is at, for a real interrupt of either
chip and for both kinds of spurious ones. `RateReportedIsTheRate` rests on
lemmas about division and on the counter's two bytes being the divisor again. `InterruptsDieDown` weighs what is left
of the frame being dispatched against what pending requests may still start.

**BootProofs.** `LoaderInv` states what is held at each stage (`HeldAt`) and that at the call of
ExitBootServices a good key means that `MapSize` is the number of descriptors.

The part about XScope assumes `TablesAssumption` (a table is a sequence of nodes).
`NoPriorityInversion` follows from the inductive `WasBest`: each node initialised was
the best choice when its turn came. `StuckOnlyIfImpossible` is witnessed by the nodes
left over.

`NeedsMet` is about what particular tables say, and about what they leave to the order of link. `NeedsAssumption`
states it of the tables alone: whatever set of nodes the choice rule allows to be done when a node's turn
comes contains what that node silently needs. TLC evaluates it on the kernel's own table; the theorem
shows that the loop never runs a node with any other set done.

`KernelIsSound` puts loader and loop together: each one's steps leave the other's invariant alone, and the loop has
not begun before the loader has jumped. `BootShrinks` adds up what is left of both: steps of the present attempt, attempts,
surprises, nodes. `SomebodyIsBest` shows that where a node is ready one is best.

The second half is about `Console`, from `ConsoleAssumption` alone (types; distinct control characters; a message that
begins with a line feed). `ScreenShowsBuffer` holds when nobody prints; `ScreenInv` says what holds between any two writes:

* `DrawnOrDirty`: a row that is not on the back surface as it is in the buffer lies between the marks, is the one being
  marked, or is the one the fault struck. While rows are scrolled nothing of the kind holds, and need not:
  everything is marked at the end;
* `CursorInPlace`: the cursor is below the last row only while that is being scrolled away. A fault may find it
  there, or rows moved and not yet marked. The line feed its message begins with then scrolls again and marks
  everything; a message that began with a letter would write it behind the buffer;
* `CharFits`: the character a line was wrapped for has a cell in the new one;
* `BufferTyped`: the last cell of a row is NUL, so that drawing a row ends (`RowEnds`);
* `Copied`: of the rows presented so far, what is on the surface is on the screen. This is of equally long scanlines,
  as is what `PrintedIsShown` says of the screen; what it says of the back surface is of any (section 5).

**PciProofs.** What a cycle reaches is a function of windows that the scan rewrites on its own way, so
the invariant has to know all of them. It assumes

* `BusAssumption`, what the bus demands: wires form a tree, a place has one function, function 0 is there and
  says so when there are others;
* `NumberAssumption`: there are bus numbers enough, and firmware numbered the bridges in the order of the scan
  (with gaps perhaps) or none of them. Without it the theorem is false, see the last point of section 5;
* `RegisterAssumption`, what the bus demands of base address registers: a size divides the word and is a multiple
  of what the low bits take up, a base is a multiple of its size, a register of 64 bits has its other half next to it
  or is in the last slot. Sizes need not be powers of two for the proof.

TLC evaluates the three on every machine of the `pci` run. `ScanInv` says that there is a set `B` of bridges,
those the scan has given a window, with

* `Numbered`: the numbers given out are theirs, each once; a window lies inside of the one above
  it, two on one wire do not meet; and a number taken by `WritePrimary` is nobody's for two writes (`Limit`);
* `Unbegun`: the other bridges take nothing yet: their window is shut, or begins with a number the scan has still to reach.
  That this survives the next number given out is where the order of the scan is used (`FirstInOrder`);
* `Chained`: the stack of scans is a path down the tree. Each frame waits at the bridge behind which
  the one above it scans, and exactly those bridges' windows are open to 0xFF;
* `Covered`: while the pool lasts, a bridge without a window is still ahead of some frame;
* `Descriptors`: a descriptor has the place of its function, and the number of its wire.

From these follows which wire a number names (`NumberNamesWire`) and that one bridge takes the cycle (`OneTakes`). The
wire of a cycle is defined by recursion up the tree; `CrossesEquation` writes down a function that satisfies the
recursion (every bridge above hands the cycle on), so no induction over an operator is needed. `ProbeInv` adds what the
registers of the one function hold that is being probed, at each of the four steps of the probe.

`EveryFunctionFoundOnce` needs all of this and two invariants more. `Reached` keeps count: a function ahead of
a frame has a descriptor exactly if the frame is dealing with it, and, while the pool lasts, a function on a numbered
wire has a descriptor or is ahead of a frame. `ReadInv` keeps the place of the loop over the registers: what has been
appended to the bases is what the function has below `work.i`, and `work.i` never stands at the upper half of a
register of 64 bits. That `PciBARSize` and its 64-bit counterpart give back the size is arithmetic: all ones leave
the size's complement (`IoAnswers`, `MemAnswers`, `HighAnswers`, `WideAnswers`, `PairSize`), which needs what `DivMod`
says of division and nothing of bits. When the stack is empty, a bridge without a number would be on a wire that
has one, and `BusAssumption` has no such wire: so every wire is numbered and every function found.

For Mcfg, `Disjoint`: regions of a segment taken over so far do not meet, in whichever order.

Only model-checked: liveness, since fairness and what is enabled are beyond the prover. Every safety property of
every passing run is a theorem. What the liveness properties rest on is proved: a natural number that the steps
concerned make smaller, so that no retry, drain, resend or nested dispatch goes round in circles. TLC adds that
some such step is enabled until the goal is reached, and that fairness takes it.

| Property | Run | Proved for every value of the constants |
|---|---|---|
| `BringUpEnds` | `i8042` | `BringUpShrinks`: each step but a key typed or a new `KbdSetLeds` decreases `BringUpWork`; no label but those of `Over` has place zero |
| `BufferDrains`, `RingDrains` | `kbd` | `DriverShrinks`: each step but a stroke or a call of `Kbr` decreases `KbdWork`; at zero wire, buffer and ring are empty |
| `RequestsServed` | `irq` | `InterruptsDieDown`: each step of the processor and dispatch decreases `IrqWork`; `NothingHoldsRequestsUp`: a request let through raises the pin when nothing is dispatched |
| `BootEnds` | `boot` | `BootShrinks`: each step decreases `BootWork`; `LoopAlwaysMoves`: the loop is never without a next step |

## 5. Findings

1. **HeapTail is stale after a split** (`Heap.C:144-151`). The `else` branch writes
   `Block->Next` again where it should move the tail. After the next
   `HeapExpand` the remainder is unreachable: memory is lost, and the list no longer holds
   every block as `Heap.C:38` says. Worse, `ExFreePool` may join the first half to the block before it
   while `HeapTail` still names it; once the joined block is handed out, the next `HeapExpand` stores
   `HeapTail->Next` into the middle of it (`MCHeapTail.cfg`). The `heap` run and `HeapProofs` show that
   safety survives up to that store.
2. **LED handshakes race the handler** (`KBD.C:323`). Nothing calls `KbdSetLeds` yet.
3. **A failed allocation keeps pages** (`VMM.C:223-226`). When a page table cannot be
   made, `MmAllocateVirtual` frees the frame in hand and returns; earlier pages stay mapped
   with nobody to free them. The other failure of the same loop unwinds, "unmap and
   release everything already taken" (`VMM.C:208`).

Smaller disagreements, not turned into runs:

* Memory: the cursors of both windows are bumped without a test for overflow (`VMM.C:59-65`, `74-80`;
  `MCHeapWrap.cfg`); a kernel section that cannot be mapped is skipped without a word
  (`PagingMapKernelSection` returns nothing); `MmInitPaging` writes the PAT register whatever
  CPUID says (`Paging.C:361`), although `PAT.C` asks first.
* Bring-up: a failing `I8042Init` halts the boot
  although "Hardware not existing is not a fail" (`XScope.H:40-41`).
* Keyboard: the conversation of
  `KbdInit` is held with the doorbell armed in the chip, and the PIC mask, not the
  doorbell (`KBD.C:244`), keeps the handler out; the header of the handler (`KBD.C:108-110`)
  promises two events for Print Screen and six for Pause, the code and the comments at its branches (`KBD.C:128-142`,
  `155-165`) make it one each, and so does `typed`; a real Print Screen leaves its first half
  armed (`MCKbdSysRq.cfg`); the first question of `I8042Init` precedes the drain (`I8042.C:429-431`); a key
  typed before F5 is acknowledged makes the keyboard degrade; port 2 is left running
  if 0xA7 is refused after the probe.
* Interrupts: `PicRemap` sends no ICW1 to the slave (`PIC.C:122`; `MCIrqSlave.cfg`); it masks everything under a comment
  that says "unmask both PICs" (`PIC.C:138`); the cascade line stays masked, so that enabling a line of the
  slave alone delivers nothing.
* Screen: if the scanlines of the two surfaces differ in length at 32 bits a pixel,
  `FbPresent` copies nothing (`FB.C:163-186`; `MCConsolePadded.cfg`).
* Loader: a `GetInfo` that answered the question for the size with success, which UEFI rules out, would make
  `FileIOReadFile` return success without a buffer (`FileIO.c:86-89`); the pages of segments loaded before one
  that fails are not given back (`Elf.c:120`), and `HandoffIsSound`, which speaks of buffers and handles, does not ask for it.
* PCI: a 16-bit write through the legacy ports reads and writes back the other half of the
  register, so that writing the command register clears the write-one-to-clear bits of the status;
  bridges that firmware numbered against the order of the scan may both take a cycle while they
  are renumbered (`ENUM.C:162-165`); bus number 256 would wrap to the root; discovered devices are
  linked from nowhere; windows (`RESOURCE.C`) are never known, so no resource is assigned.

## 6. Plan

Done: every module the plan named, with proofs for eight of them. What would add most from here is a
runtime for PCI windows and hot-plug, once the repository has one.

## 7. Not modelled, and why

Most of the repository's lines are data or straight-line input and output. `PciNames.C` (27294 lines) is a
table generated from pci.ids and `Font.C` (3083) a bitmap font: two thirds of all lines, with no
behaviour. Of the rest these are left out: `CPUID.C` and its header (feature bits read into a structure and
printed; that they are there before PAT needs them is `NeedsMet`), the printing half of `DEVICE.C`,
drawing primitives of `FB.C` (arithmetic on colours and coordinates), formatting in `PrintK.C`, byte
copying and fixed-point arithmetic in `Lib/`, GDT, stubs and `Boot.S` (descriptor layout, assembly),
the serial port (a UART programmed once and polled), headers of constants, and the build. These files have no
state that outlives a call and nothing runs beside them. `HOTPLUG.C`, `IRQ.C`, `CAPABILITY.C`, `PTP.C`
and two files under `ACPI/` hold no code yet; lines 150-247 of `RESOURCE.C` cannot run, since no host
bridge's windows are ever known. What is left, the code that keeps state, is what the modules above translate.

Inside modelled components: protection and cache bits and the 2 MiB leaves nobody makes (Paging);
port 2 of the 8042 beyond its probe; `IALPicDisable` and `ConsoleClear`, which nobody calls; the contents of the
kernel image (one flag of the loader); a pixel row (a surface has one row where the screen has eight).

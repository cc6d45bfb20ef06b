-------------------------------- MODULE Pci --------------------------------
(***************************************************************************)
(* PCI enumeration, src/Shadow/BUS/PCI/CORE: the depth-first scan that     *)
(* numbers the buses (ENUM.C), the probing of base address registers       *)
(* (RESOURCE.C), and configuration cycles through the legacy ports         *)
(* (HOST/HOST.C).  Bridges and functions are external: a bridge hands on a *)
(* cycle by the window in its registers, and that window is what the scan  *)
(* rewrites while it depends on it.                                        *)
(*                                                                         *)
(* One step is one access to configuration space, or what the code does    *)
(* between two.  PciAssignResource is left out: WindowsKnown is never set, *)
(* so that it returns before it changes anything.                          *)
(***************************************************************************)
EXTENDS Integers, Sequences, FiniteSets

CONSTANTS
  Root,        \* the wire of the host bridge; a bridge names the one behind it
  Machines,    \* the machines firmware may hand over
  Pools,       \* how many descriptors the pool may have room for
  SlotCount, FuncCount,   \* 32 slots of 8 functions in the code
  BusCount,    \* bus numbers, 256 in the code
  Word,        \* values of a register, 2^32 in the code
  IoWord       \* the part of it PciBARSize keeps of an I/O size, 2^16

(* A function: where it is, the two facts its header type says, the base   *)
(* address registers it has, which spaces firmware lets it decode, and for *)
(* a bridge the window firmware left.                                      *)
Register == [kind : {"none", "io", "mem", "mem64", "high"}, size : Nat, base : Nat]
Function == [wire : UNION {DOMAIN m : m \in Machines} \cup {Root},
             slot : 0 .. (SlotCount - 1), func : 0 .. (FuncCount - 1),
             bridge : BOOLEAN, multi : BOOLEAN, bars : Seq(Register),
             command : SUBSET {"io", "mem", "master"},
             primary : Nat, secondary : Nat, subordinate : Nat]

ASSUME PciAssumption ==
  /\ {SlotCount, FuncCount, BusCount, Word, IoWord} \subseteq Nat \ {0}
  /\ Pools \subseteq Nat
  /\ \A m \in Machines : m \in [DOMAIN m -> Function] /\ IsFiniteSet(DOMAIN m)

BridgesOf(m) == {f \in DOMAIN m : m[f].bridge}
SameSlot(m, f, g) == m[f].wire = m[g].wire /\ m[f].slot = m[g].slot
Before(m, f, g) ==    \* on one wire, in the order of the scan
  /\ m[f].wire = m[g].wire
  /\ m[f].slot < m[g].slot \/ (m[f].slot = m[g].slot /\ m[f].func < m[g].func)

(* What the bus demands: the wires are a tree, a place has one function,   *)
(* and function 0 of a device is there and says so when there are others.  *)
ASSUME BusAssumption ==
  \A m \in Machines :
    /\ Root \notin DOMAIN m /\ \A f \in DOMAIN m : m[f].wire \in BridgesOf(m) \cup {Root}
    /\ \A S \in SUBSET BridgesOf(m) : S # {} => \E b \in S : m[b].wire \notin S
    /\ \A f, g \in DOMAIN m : SameSlot(m, f, g) /\ m[f].func = m[g].func => f = g
    /\ \A f \in DOMAIN m : m[f].func # 0 =>
         \E g \in DOMAIN m : SameSlot(m, f, g) /\ m[g].func = 0 /\ m[g].multi

(* There are bus numbers enough, and firmware gave them out in the order   *)
(* of the scan, with gaps perhaps, or not at all.  Within(m, c, b): the    *)
(* bridge c is b or lies behind it.                                        *)
Within(m, c, b) ==
  \A S \in SUBSET BridgesOf(m) :
    c \in S /\ (\A x \in S : m[x].wire \in BridgesOf(m) => m[x].wire \in S) => b \in S
Unnumbered(m) == \A b \in BridgesOf(m) : m[b].subordinate = 0
ASSUME NumberAssumption ==
  \A m \in Machines :
    /\ Cardinality(BridgesOf(m)) < BusCount
    /\ \/ Unnumbered(m)
       \/ \A b, c \in BridgesOf(m) :
            /\ m[b].secondary > 0
            /\ b # c /\ Within(m, c, b) => m[b].secondary < m[c].secondary
            /\ \A x, y \in BridgesOf(m) :
                 Before(m, x, y) /\ Within(m, b, x) /\ Within(m, c, y)
                   => m[b].secondary < m[c].secondary

VARIABLES
  machine,        \* the functions there are
  window,         \* what the bus number registers of each bridge hold
  command,        \* what the command register of each function lets it decode
  bar,            \* what the base address registers of each function hold
  NextBusNumber,
  pool,           \* descriptors the pool has still room for
  scan,           \* the buses being scanned, innermost first
  work,           \* the locals of PciReadBases
  found           \* the descriptors filled in, with the function each is of (history)

vars == <<machine, window, command, bar, NextBusNumber, pool, scan, work, found>>

MaxBars(bridge) == IF bridge THEN 2 ELSE 6
AllOnes == Word - 1
Idle == [i |-> 0, command |-> {}, low |-> 0, high |-> 0, probed |-> 0, bases |-> <<>>]

-----------------------------------------------------------------------------
(* Bridges.  A cycle for bus n crosses the bridges whose window has n      *)
(* without starting at it, and is answered on the wire behind a bridge     *)
(* whose window starts at n.                                               *)
Bridges == BridgesOf(machine)
Wire(f) == machine[f].wire
HandsOn(b, n) == window[b].secondary < n /\ n <= window[b].subordinate

Crosses(n) ==          \* the bridges to whose own wire a cycle for bus n comes
  LET c[b \in Bridges] == Wire(b) = Root \/ (HandsOn(Wire(b), n) /\ c[Wire(b)])
  IN  c

WiresOf(n) ==
  IF n = 0 THEN {Root}
  ELSE {b \in Bridges : /\ window[b].secondary = n
                        /\ n <= window[b].subordinate
                        /\ Crosses(n)[b]}

(* PciMakeAddress, and the functions that answer.                          *)
Answers(number, slot, func) ==
  {f \in DOMAIN machine : /\ Wire(f) \in WiresOf(number % BusCount)
                          /\ machine[f].slot = slot % SlotCount
                          /\ machine[f].func = func % FuncCount}

-----------------------------------------------------------------------------
(* Base address registers.  A register keeps the bits of the value written *)
(* that lie above its size, and the low bits say what it is.               *)
Tag(r) ==
  CASE r.kind = "io" -> 1 [] r.kind = "mem64" -> 4 [] OTHER -> 0
Keeps(r, v) ==
  CASE r.kind = "none" -> 0
    [] r.kind = "io"   -> (v % IoWord) - (v % r.size) + Tag(r)
    [] r.kind = "high" -> v - (v % r.size)
    [] OTHER           -> v - (v % r.size) + Tag(r)

(* What the bus demands of a register: its size is a power of two, so that *)
(* it divides the word, its base is a multiple of it, and a register of 64 *)
(* bits has its other half next to it or comes last.                       *)
Fits(r, unit, word) ==
  /\ r.size \in 1 .. (word - 1) /\ r.size % unit = 0 /\ word % r.size = 0
  /\ r.base < word /\ r.base % r.size = 0
ASSUME RegisterAssumption ==
  /\ Word % 16 = 0 /\ Word % IoWord = 0
  /\ \A m \in Machines : \A f \in DOMAIN m : \A k \in DOMAIN m[f].bars :
       LET r == m[f].bars[k]
           other == k + 1 \in DOMAIN m[f].bars
       IN  /\ k <= MaxBars(m[f].bridge)
           /\ r.kind = "io" => Fits(r, 4, IoWord)
           /\ r.kind = "mem" => Fits(r, 16, Word)
           /\ r.kind = "high" => Fits(r, 1, Word) /\ k > 1 /\ m[f].bars[k - 1].kind = "mem64"
           /\ r.kind = "mem64" =>
                /\ IF other THEN m[f].bars[k + 1].kind = "high" ELSE k = MaxBars(m[f].bridge)
                /\ \/ Fits(r, 16, Word) /\ (other => m[f].bars[k + 1].size = 1)
                   \/ r.size >= Word /\ r.base = 0

(* PciBARSize: the two's complement, and only 16 bits of an I/O size.      *)
Address(low) == IF low % 2 = 1 THEN low - (low % 4) ELSE low - (low % 16)
PciBARSize(low) ==
  IF Address(low) = 0 THEN 0
  ELSE IF low % 2 = 1 THEN (Word - Address(low)) % IoWord ELSE (Word - Address(low)) % Word

IsWide(low) == low % 2 = 0 /\ (low % 8) \div 2 = 2
Skipped(low) == low = 0 \/ low = AllOnes

(* The size of a 64-bit register from both of its halves.                  *)
WideSize(low, high) == (Word * Word - (high * Word + Address(low))) % (Word * Word)

(* What a function has, to compare with what PciReadBases makes of it.     *)
HasBases(f) ==
  LET m == machine[f]
      at == {k \in DOMAIN m.bars :
               \/ m.bars[k].kind \in {"io", "mem"}
               \/ m.bars[k].kind = "mem64" /\ k + 1 \in DOMAIN m.bars}
  IN  {[i |-> k - 1, io |-> m.bars[k].kind = "io",
        start |-> m.bars[k].base + (IF m.bars[k].kind = "mem64"
                                    THEN m.bars[k + 1].base * Word ELSE 0),
        size |-> IF m.bars[k].kind # "mem64" THEN m.bars[k].size
                 ELSE IF m.bars[k].size < Word THEN m.bars[k].size
                 ELSE Word * m.bars[k + 1].size] : k \in at}

-----------------------------------------------------------------------------
Frame(behind, number) ==
  [behind |-> behind, number |-> number, slot |-> 0, func |-> 0, multi |-> FALSE,
   step |-> "function", secondary |-> 0]

AtBoot(m) ==
  /\ window = [b \in BridgesOf(m) |->
                 [primary |-> m[b].primary, secondary |-> m[b].secondary,
                  subordinate |-> m[b].subordinate]]
  /\ command = [f \in DOMAIN m |-> m[f].command]
  /\ bar = [f \in DOMAIN m |->
              [k \in DOMAIN m[f].bars |-> Keeps(m[f].bars[k], m[f].bars[k].base)]]

Init ==
  /\ machine \in Machines
  /\ AtBoot(machine)
  /\ NextBusNumber = 1
  /\ pool \in Pools
  /\ scan = <<[Frame(Root, 0) EXCEPT !.step = "boot"]>>
  /\ work = Idle
  /\ found = {}

Now == Head(scan)
Goto(step) == scan' = <<[Now EXCEPT !.step = step]>> \o Tail(scan)
Here == Answers(Now.number, Now.slot, Now.func)

(* Where the loops of PciScanFunction and PciScanBus go after a function.  *)
After(t) ==
  IF t.func + 1 < FuncCount /\ (t.func > 0 \/ t.multi)
  THEN [t EXCEPT !.func = @ + 1, !.step = "function"]
  ELSE [t EXCEPT !.slot = @ + 1, !.func = 0, !.multi = FALSE,
                 !.step = IF t.slot + 1 = SlotCount THEN "end" ELSE "function"]
Advance == scan' = <<After(Now)>> \o Tail(scan)

-----------------------------------------------------------------------------
(* PciEnumerate: the descriptor of the root bus.                           *)
PciEnumerate ==
  /\ scan # <<>> /\ Now.step = "boot"
  /\ IF pool = 0
     THEN scan' = <<>> /\ UNCHANGED pool
     ELSE Goto("function") /\ pool' = pool - 1
  /\ UNCHANGED <<machine, window, command, bar, NextBusNumber, work, found>>

(* PciScanFunction, as far as PciDevInit: no descriptor, nobody there (the *)
(* descriptor is given back), or a function.                               *)
ScanNothing ==
  /\ scan # <<>> /\ Now.step = "function"
  /\ pool = 0 \/ Here = {}
  /\ Advance
  /\ UNCHANGED <<machine, window, command, bar, NextBusNumber, pool, work, found>>

ScanFunction ==
  /\ scan # <<>> /\ Now.step = "function"
  /\ pool > 0
  /\ \E f \in Here :
       /\ scan' = <<[Now EXCEPT !.step = "decode off",
                                !.multi = IF Now.func = 0 THEN machine[f].multi ELSE @]>>
                  \o Tail(scan)
       /\ found' = found \cup {[number |-> Now.number, slot |-> Now.slot,
                                func |-> Now.func, fn |-> f,
                                bases |-> <<>>, read |-> FALSE]}
  /\ pool' = pool - 1
  /\ UNCHANGED <<machine, window, command, bar, NextBusNumber, work>>

-----------------------------------------------------------------------------
(* PciReadBases.                                                           *)
Decodes == {"io", "mem"}
Commanded(set) == command' = [f \in DOMAIN command |-> IF f \in Here THEN set ELSE command[f]]

SilencedIoOnly(c) == c \ {"io"}     \* mutant: memory is still decoded
Silenced(c) == c \ Decodes

DecodeOff ==
  /\ scan # <<>> /\ Now.step = "decode off"
  /\ \E f \in Here :
       /\ work' = [Idle EXCEPT !.command = command[f]]
       /\ Commanded(Silenced(command[f]))
  /\ Goto("probe")
  /\ UNCHANGED <<machine, window, bar, NextBusNumber, pool, found>>

(* A write to register k of the function that answers.                     *)
RegisterOf(f, k) == IF k \in DOMAIN machine[f].bars THEN bar[f][k] ELSE 0
WriteBar(k, v) ==
  bar' = [f \in DOMAIN bar |->
            [j \in DOMAIN bar[f] |->
               IF f \in Here /\ j = k THEN Keeps(machine[f].bars[k], v) ELSE bar[f][j]]]

BarsOf(f) == MaxBars(machine[f].bridge)

ProbeLow ==
  /\ scan # <<>> /\ Now.step = "probe"
  /\ \E f \in Here :
       /\ work.i < BarsOf(f)
       /\ work' = [work EXCEPT !.low = RegisterOf(f, work.i + 1)]
  /\ WriteBar(work.i + 1, AllOnes)
  /\ Goto("low")
  /\ UNCHANGED <<machine, window, command, NextBusNumber, pool, found>>

Base(io, start, size) == [i |-> work.i, io |-> io, start |-> start, size |-> size]

(* What was read back decides: no register, one of 32 bits, the first half *)
(* of one of 64 bits, or such a half in the last slot, which ends the loop.*)
TakeLow ==
  /\ scan # <<>> /\ Now.step = "low"
  /\ \E f \in Here :
       LET low == RegisterOf(f, work.i + 1) IN
       \/ /\ Skipped(low)
          /\ work' = [work EXCEPT !.i = @ + 1]
          /\ Goto("probe")
       \/ /\ ~Skipped(low) /\ ~IsWide(low)
          /\ work' = [work EXCEPT !.i = @ + 1, !.bases =
                        Append(@, Base(low % 2 = 1,
                                       IF low % 2 = 1 THEN work.low - (work.low % 4)
                                       ELSE work.low - (work.low % 16),
                                       PciBARSize(low)))]
          /\ Goto("probe")
       \/ /\ ~Skipped(low) /\ IsWide(low) /\ work.i + 1 < BarsOf(f)
          /\ work' = [work EXCEPT !.probed = low, !.high = RegisterOf(f, work.i + 2)]
          /\ Goto("probe high")
       \/ /\ ~Skipped(low) /\ IsWide(low) /\ work.i + 1 >= BarsOf(f)
          /\ work' = [work EXCEPT !.i = 6]
          /\ Goto("probe")
  /\ WriteBar(work.i + 1, work.low)
  /\ UNCHANGED <<machine, window, command, NextBusNumber, pool, found>>

ProbeHigh ==
  /\ scan # <<>> /\ Now.step = "probe high"
  /\ WriteBar(work.i + 2, AllOnes)
  /\ Goto("high")
  /\ UNCHANGED <<machine, window, command, NextBusNumber, pool, work, found>>

NextSlotOne == work.i + 1       \* mutant: the second half is taken for a register
NextSlot == work.i + 2

TakeHigh ==
  /\ scan # <<>> /\ Now.step = "high"
  /\ \E f \in Here :
       work' = [work EXCEPT !.i = NextSlot, !.bases =
                  Append(@, Base(FALSE, work.high * Word + work.low - (work.low % 16),
                                 WideSize(work.probed, RegisterOf(f, work.i + 2))))]
  /\ WriteBar(work.i + 2, work.high)
  /\ Goto("probe")
  /\ UNCHANGED <<machine, window, command, NextBusNumber, pool, found>>

RestoreCommand ==
  /\ scan # <<>> /\ Now.step = "probe"
  /\ \E f \in Here :
       /\ work.i >= BarsOf(f)
       /\ IF machine[f].bridge THEN Goto("bridge") ELSE Advance
  /\ Commanded(work.command)
  /\ found' = {IF d.number = Now.number /\ d.slot = Now.slot /\ d.func = Now.func
                THEN [d EXCEPT !.bases = work.bases, !.read = TRUE] ELSE d : d \in found}
  /\ work' = Idle
  /\ UNCHANGED <<machine, window, bar, NextBusNumber, pool>>

-----------------------------------------------------------------------------
(* PciScanBridge: a number, a window that is open to the end, the bus      *)
(* behind it, and the window closed.                                       *)
WriteWindow(register, v) ==
  window' = [b \in DOMAIN window |->
               IF b \in Here THEN [window[b] EXCEPT ![register] = v % BusCount]
               ELSE window[b]]

NoBus ==
  /\ scan # <<>> /\ Now.step = "bridge"
  /\ pool = 0
  /\ Advance
  /\ UNCHANGED <<machine, window, command, bar, NextBusNumber, pool, work, found>>

WritePrimary ==
  /\ scan # <<>> /\ Now.step = "bridge"
  /\ pool > 0
  /\ pool' = pool - 1
  /\ NextBusNumber' = NextBusNumber + 1
  /\ WriteWindow("primary", Now.number)
  /\ scan' = <<[Now EXCEPT !.step = "secondary", !.secondary = NextBusNumber]>> \o Tail(scan)
  /\ UNCHANGED <<machine, command, bar, work, found>>

WriteSecondary ==
  /\ scan # <<>> /\ Now.step = "secondary"
  /\ WriteWindow("secondary", Now.secondary)
  /\ Goto("open")
  /\ UNCHANGED <<machine, command, bar, NextBusNumber, pool, work, found>>

OpenedTight == Now.secondary     \* mutant: no room for the buses behind
Opened == BusCount - 1

OpenWindow ==
  /\ scan # <<>> /\ Now.step = "open"
  /\ WriteWindow("subordinate", Opened)
  /\ \E b \in Here :
       scan' = <<Frame(b, Now.secondary), [Now EXCEPT !.step = "close"]>> \o Tail(scan)
  /\ UNCHANGED <<machine, command, bar, NextBusNumber, pool, work, found>>

EndBus ==
  /\ scan # <<>> /\ Now.step = "end"
  /\ scan' = Tail(scan)
  /\ UNCHANGED <<machine, window, command, bar, NextBusNumber, pool, work, found>>

LastBehindOpen == NextBusNumber  \* mutant: one bus too many
LastBehind == NextBusNumber - 1

CloseWindow ==
  /\ scan # <<>> /\ Now.step = "close"
  /\ WriteWindow("subordinate", LastBehind)
  /\ Advance
  /\ UNCHANGED <<machine, command, bar, NextBusNumber, pool, work, found>>

-----------------------------------------------------------------------------
Next ==
  \/ PciEnumerate \/ ScanNothing \/ ScanFunction
  \/ DecodeOff \/ ProbeLow \/ TakeLow \/ ProbeHigh \/ TakeHigh \/ RestoreCommand
  \/ NoBus \/ WritePrimary \/ WriteSecondary \/ OpenWindow \/ EndBus \/ CloseWindow

Spec == Init /\ [][Next]_vars

Done == scan = <<>>

(* On each wire a cycle comes to, one bridge at most takes it.             *)
OneTaker(n) ==
  \A b, c \in Bridges :
    /\ Wire(b) = Wire(c) /\ Crosses(n)[b]
    /\ n \in window[b].secondary .. window[b].subordinate
    /\ n \in window[c].secondary .. window[c].subordinate
    => b = c

(* A descriptor that was filled in keeps naming the function it was filled *)
(* in from, while the bridges above it, before it and after it are being   *)
(* rewritten: at no moment does another function, or nobody, answer there, *)
(* or do two bridges take the cycle; nor two for a bus that is scanned.    *)
FoundStaysReachable ==
  /\ \A d \in found :
       /\ Answers(d.number, d.slot, d.func) = {d.fn}
       /\ d.number # 0 => OneTaker(d.number)
  /\ \A i \in DOMAIN scan : scan[i].number # 0 => OneTaker(scan[i].number)

(* When the scan is over and the pool did not run out, every function has  *)
(* been found, once, and what PciReadBases made of its base address        *)
(* registers is what they are: addresses and sizes of every kind, 64-bit   *)
(* ones from both halves, also with a half in the last slot.               *)
EveryFunctionFoundOnce ==
  Done /\ pool > 0 =>
    \A f \in DOMAIN machine :
      \E d \in found :
        /\ {e \in found : e.fn = f} = {d}
        /\ d.read
        /\ {d.bases[j] : j \in DOMAIN d.bases} = HasBases(f)

(* While a base address register holds the ones it is probed with, nobody  *)
(* decodes it; and a function that decodes has the addresses firmware gave *)
(* it.                                                                     *)
ProbesAreHidden ==
  \A f \in DOMAIN machine :
    command[f] \cap Decodes # {} =>
      /\ command[f] = machine[f].command
      /\ \A k \in DOMAIN bar[f] :
           bar[f][k] = Keeps(machine[f].bars[k], machine[f].bars[k].base)
=============================================================================

-------------------------------- MODULE Mcfg --------------------------------
(***************************************************************************)
(* The memory-mapped configuration regions, src/Shadow/BUS/PCI/ACPI/MCFG.C: *)
(* the MCFG table is looked for through the root pointer the boot loader   *)
(* passed on, and its entries are taken over one by one.                   *)
(*                                                                         *)
(* What a checksum, a signature or a length says about a table is one      *)
(* Boolean of the table; an entry is what the checks tell apart.           *)
(***************************************************************************)
EXTENDS Integers, Sequences

CONSTANTS
  Segments,            \* PCI segments
  Buses,               \* bus numbers, 0 .. 255 in the code
  PCI_ECAM_MAX_REGIONS,
  Firmware             \* the ACPI tables firmware may have left

(* An entry: is its base aligned and not 0, and which buses it is for.     *)
McfgEntry == [aligned : BOOLEAN, segment : Segments, start : Buses, end : Buses]

(* A table a root table points to: the two checks it may fail, and what is *)
(* in it.  A root pointer of revision 2 that fails no check names the XSDT. *)
SdtTable == [mcfg : BOOLEAN, valid : BOOLEAN, long : BOOLEAN, entries : Seq(McfgEntry)]
RootTable == [valid : BOOLEAN, tables : Seq(SdtTable)]

ASSUME McfgAssumption ==
  /\ Buses \subseteq Nat
  /\ PCI_ECAM_MAX_REGIONS \in Nat
  /\ Firmware \subseteq [rsdp : BOOLEAN, extended : BOOLEAN,
                         xsdt : RootTable, rsdt : RootTable]

VARIABLES
  acpi,        \* the tables in memory
  entries,     \* the entries of the table found that are still to be read
  regions,     \* Regions, the first RegionCount of them
  mcfg         \* how far PciMcfgInit is

mcfgVars == <<acpi, entries, regions, mcfg>>

Region == [segment : Segments, start : Buses, end : Buses]

McfgTypeOK ==
  /\ acpi \in Firmware
  /\ entries \in Seq(McfgEntry)
  /\ regions \in Seq(Region)
  /\ Len(regions) <= PCI_ECAM_MAX_REGIONS
  /\ mcfg \in {"start", "entries", "done", "legacy only"}

McfgInit ==
  /\ acpi \in Firmware
  /\ entries = <<>>
  /\ regions = <<>>
  /\ mcfg = "start"

-----------------------------------------------------------------------------
(* McfgFind: a bad XSDT is not made up for by the RSDT; a bad MCFG is       *)
(* passed over for a later one.                                            *)
RootOf(a) == IF a.extended THEN a.xsdt ELSE a.rsdt
Usable(a) ==
  IF a.rsdp /\ RootOf(a).valid
  THEN {i \in DOMAIN RootOf(a).tables : RootOf(a).tables[i].mcfg /\ RootOf(a).tables[i].valid}
  ELSE {}
McfgFind(a) == {RootOf(a).tables[i] : i \in {j \in Usable(a) : \A k \in Usable(a) : j <= k}}

FindTable ==
  /\ mcfg = "start"
  /\ \/ \E t \in McfgFind(acpi) :
          /\ t.long
          /\ entries' = t.entries
          /\ mcfg' = "entries"
     \/ /\ \A t \in McfgFind(acpi) : ~t.long
        /\ UNCHANGED entries
        /\ mcfg' = "legacy only"
  /\ UNCHANGED <<acpi, regions>>

RegionOverlapsInside(segment, start, end) ==     \* mutant: one end only
  \E i \in DOMAIN regions :
    /\ regions[i].segment = segment
    /\ start \in regions[i].start .. regions[i].end

RegionOverlaps(segment, start, end) ==
  \E i \in DOMAIN regions :
    /\ regions[i].segment = segment
    /\ start <= regions[i].end
    /\ end >= regions[i].start

Acceptable(e) ==
  /\ e.aligned
  /\ e.start <= e.end
  /\ ~RegionOverlaps(e.segment, e.start, e.end)

(* One turn of the loop of PciMcfgInit.                                    *)
TakeEntry ==
  /\ mcfg = "entries"
  /\ entries # <<>>
  /\ LET e == Head(entries) IN
     IF ~Acceptable(e)
     THEN /\ entries' = Tail(entries)
          /\ UNCHANGED <<regions, mcfg>>
     ELSE IF Len(regions) = PCI_ECAM_MAX_REGIONS
     THEN /\ mcfg' = "done"
          /\ UNCHANGED <<entries, regions>>
     ELSE /\ entries' = Tail(entries)
          /\ regions' = Append(regions, [segment |-> e.segment, start |-> e.start,
                                         end |-> e.end])
          /\ UNCHANGED mcfg
  /\ UNCHANGED acpi

EndOfTable ==
  /\ mcfg = "entries"
  /\ entries = <<>>
  /\ mcfg' = IF regions # <<>> THEN "done" ELSE "legacy only"
  /\ UNCHANGED <<acpi, entries, regions>>

PciMcfgInit == FindTable \/ TakeEntry \/ EndOfTable

McfgSpec == McfgInit /\ [][PciMcfgInit]_mcfgVars

(* PciEcamLookup: the first region that has the bus.                       *)
PciEcamHits(segment, bus) ==
  {i \in DOMAIN regions :
     regions[i].segment = segment /\ bus \in regions[i].start .. regions[i].end}

(* A bus has at most one region, so that whichever entry firmware listed   *)
(* first, PciEcamLookup and a later use of a region agree on the address.  *)
OneRegionPerBus ==
  \A s \in Segments, b \in Buses :
    \A i, j \in PciEcamHits(s, b) : i = j
=============================================================================

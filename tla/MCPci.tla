------------------------------- MODULE MCPci -------------------------------
(* Instances of module PciInit.  The tree, with the numbers firmware gave  *)
(* the buses:                                                              *)
(*   root  00.0 A  (1..2)   A    00.0 A1 (2..2)   A1  01.0 disk            *)
(*                               01.0 net                                  *)
(*         01.0 gpu, multi                                                 *)
(*         01.1 B  (3..3)   B    00.0 nic                                  *)
(* A machine has some of these functions, and firmware that numbered all   *)
(* of the buses, in the order of the scan and perhaps with gaps, or none.  *)
EXTENDS PciInit

Io(size, base) == [kind |-> "io", size |-> size, base |-> base]
Mem(size, base) == [kind |-> "mem", size |-> size, base |-> base]
Mem64(size, base) == [kind |-> "mem64", size |-> size, base |-> base]
High(size, base) == [kind |-> "high", size |-> size, base |-> base]
NoBar == [kind |-> "none", size |-> 1, base |-> 0]

Endpoint(wire, slot, bars) ==
  [wire |-> wire, slot |-> slot, func |-> 0, bridge |-> FALSE, multi |-> FALSE,
   bars |-> bars, command |-> {"io", "mem", "master"},
   primary |-> 0, secondary |-> 0, subordinate |-> 0]
Bridge(wire, slot, primary, secondary, subordinate) ==
  [Endpoint(wire, slot, <<Mem64(32, 64), High(1, 2)>>) EXCEPT
     !.bridge = TRUE, !.primary = primary, !.secondary = secondary,
     !.subordinate = subordinate]

Full ==
  [f \in {"A", "A1", "disk", "net", "gpu", "B", "nic"} |->
     CASE f = "A" -> Bridge("root", 0, 0, 1, 2)
       [] f = "A1" -> [Bridge("A", 0, 1, 2, 2) EXCEPT !.command = {"master"}]
       [] f = "disk" -> Endpoint("A1", 1, <<Io(4, 16), NoBar, Mem(16, 32)>>)
       [] f = "net" -> Endpoint("A", 1, <<Mem64(1024, 0), High(4, 12), Io(32, 32)>>)
       [] f = "gpu" -> [Endpoint("root", 1, <<Mem(128, 128), Mem64(64, 64), High(1, 1),
                                              Io(8, 0), NoBar, Mem64(16, 16)>>)
                          EXCEPT !.multi = TRUE]
       [] f = "B" -> [Bridge("root", 1, 0, 3, 3) EXCEPT !.func = 1, !.bars = <<Mem(64, 64)>>]
       [] OTHER -> Endpoint("B", 0, <<>>)]

Forgotten(m) ==
  [f \in DOMAIN m |-> [m[f] EXCEPT !.primary = 0, !.secondary = 0, !.subordinate = 0]]

Spaced(m) ==
  [f \in DOMAIN m |->
     CASE f = "A"  -> [m[f] EXCEPT !.secondary = 1, !.subordinate = 4]
       [] f = "A1" -> [m[f] EXCEPT !.secondary = 3, !.subordinate = 4]
       [] f = "B"  -> [m[f] EXCEPT !.secondary = 5, !.subordinate = 6]
       [] OTHER    -> m[f]]

Present == {fs \in SUBSET DOMAIN Full :
              /\ "B" \in fs => "gpu" \in fs
              /\ \A f \in fs : Full[f].wire \in fs \cup {"root"}}
MCMachines ==
  LET some == {[f \in fs |-> Full[f]] : fs \in Present}
  IN  some \cup {Forgotten(m) : m \in some} \cup {Spaced(m) : m \in some}

Entry(aligned, segment, start, end) ==
  [aligned |-> aligned, segment |-> segment, start |-> start, end |-> end]
Entries == {Entry(TRUE, 0, 0, 1), Entry(TRUE, 0, 1, 2), Entry(TRUE, 0, 3, 3),
            Entry(TRUE, 1, 0, 3), Entry(TRUE, 0, 0, 3), Entry(FALSE, 0, 0, 3),
            Entry(TRUE, 0, 3, 2)}
Table(isMcfg, valid, long, list) ==
  [mcfg |-> isMcfg, valid |-> valid, long |-> long, entries |-> list]
Good(list) == [valid |-> TRUE, tables |-> <<Table(FALSE, TRUE, TRUE, <<>>),
                                               Table(TRUE, FALSE, TRUE, <<>>),
                                               Table(TRUE, TRUE, TRUE, list)>>]
Short == [valid |-> TRUE, tables |-> <<Table(TRUE, TRUE, FALSE, <<>>)>>]
Bad == [valid |-> FALSE, tables |-> <<>>]
Acpi(rsdp, extended, xsdt, rsdt) ==
  [rsdp |-> rsdp, extended |-> extended, xsdt |-> xsdt, rsdt |-> rsdt]

(* Every list of up to three entries, and the ways not to come to one.     *)
Lists == UNION {[1 .. n -> Entries] : n \in 0 .. 3}
Plain == Acpi(TRUE, FALSE, Bad, Good(<<Entry(TRUE, 0, 0, 3)>>))
MCFirmware ==
  {Acpi(TRUE, TRUE, Good(l), Bad) : l \in Lists} \cup
  {Plain, Acpi(FALSE, FALSE, Bad, Bad), Acpi(TRUE, FALSE, Good(<<>>), Bad),
   Acpi(TRUE, TRUE, Bad, Good(<<>>)), Acpi(TRUE, TRUE, Short, Bad)}

(* Every machine with plain tables, and all tables with an empty machine.  *)
MCInit == PciInitInit /\ (acpi = Plain \/ (DOMAIN machine = {} /\ pool = 1))
MCSpec == MCInit /\ [][PciInit]_<<vars, mcfgVars>>
=============================================================================

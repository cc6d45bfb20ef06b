------------------------------- MODULE MCBoot -------------------------------
(* Instances of module Boot: every small table over three names, and the   *)
(* kernel's own table, gathered in two link orders.  Firmware is full of   *)
(* surprises before the kernel's own table, and has none before the rest.  *)
EXTENDS Boot

N(name, priority, depends) ==
  [name |-> name, depends |-> depends, priority |-> priority, wellFormed |-> TRUE]

(* The XSCOPENODE declarations, by file.                                   *)
Kernel == <<
  N("I8042", 0, {}),
  N("PS2_KBD", 0, {"X64_IDT", "I8042", "IAL"}),
  N("SERIAL", -100, {}),
  N("GAL", 0, {"MM_Heap"}),
  N("Console", -100, {"FB", "MM_Heap"}),
  N("FB", 0, {"GAL", "MM_Heap"}),
  N("IAL", 0, {"SERIAL", "X64_IDT"}),
  N("CPUID", -100, {"SERIAL"}),
  N("X64_GDT", 0, {"MM_VMM"}),
  N("X64_IDT", 0, {"X64_GDT"}),
  N("MM_Heap", 0, {"MM_VMM"}),
  N("MM_PAT", 0, {"MM_PMM"}),
  N("MM_PMM", 0, {}),
  N("MM_Paging", 0, {"MM_PAT"}),
  N("MM_VMM", 0, {"MM_Paging"}),
  N("TAL", 0, {"X64_IDT", "IAL"}) >>

Backwards == [i \in 1 .. Len(Kernel) |-> Kernel[Len(Kernel) + 1 - i]]

Small == {"a", "b", "c"}
SmallNode == [name : {"a", "b"}, depends : SUBSET Small, priority : {-1, 0}, wellFormed : {TRUE}]
Malformed == [N("a", 0, {}) EXCEPT !.wellFormed = FALSE]

MCNames == Small \cup {Kernel[i].name : i \in DOMAIN Kernel}
MCTables ==
  {Kernel, Backwards, <<>>, <<N("a", 0, {}), Malformed>>}
    \cup [1 .. 3 -> SmallNode]
    \cup {Append(Kernel, N("a", 0, {}))}
MCNeeds == {<<"MM_PAT", "CPUID">>}
             \cup {<<Kernel[i].name, "SERIAL">> : i \in {j \in DOMAIN Kernel : Kernel[j].name # "SERIAL"}}

MCInit == BootInit /\ (table = Kernel \/ (surprises = 0 /\ ~stubborn))
MCSpec == MCInit /\ [][Boot]_bootVars /\ WF_bootVars(Boot)
=============================================================================

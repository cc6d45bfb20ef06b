------------------------------- MODULE XScope -------------------------------
(***************************************************************************)
(* XScopeRun, src/Shadow/XAL/XScope.C: the kernel's subsystems register    *)
(* themselves in a linker section, and this loop initialises them one by   *)
(* one, each time the node of lowest priority among those whose            *)
(* dependencies, matched by name, are done.  A table that makes no sense,  *)
(* a failing Init and a round in which nothing is ready halt the machine.  *)
(***************************************************************************)
EXTENDS Integers, Sequences, FiniteSets

CONSTANTS
  Names,       \* names nodes have or depend on
  MaxNodes,    \* XSCOPE_MAX_NODES
  Tables,      \* the tables the linker may gather
  Needs        \* <<a, b>>: a's Init uses what b's Init sets up, declared or not

Node == [name : Names, depends : SUBSET Names, priority : Int, wellFormed : BOOLEAN]

ASSUME TablesAssumption ==
  /\ MaxNodes \in Nat
  /\ Tables \subseteq Seq(Node)

(* Whether S can be what is done when the loop chooses i: it holds all that*)
(* its members and i depend on, no node that depends on nothing was passed *)
(* over for it, and none that is ready now is passed over for i.           *)
Precedes(t, i, j) ==
  \/ t[i].priority < t[j].priority
  \/ t[i].priority = t[j].priority /\ i < j
Provided(t, i, S) == \A d \in t[i].depends : \E j \in S : t[j].name = d
MayBeDone(t, i, S) ==
  /\ \A j \in S \cup {i} : Provided(t, j, S)
  /\ \A k \in DOMAIN t \ S :
       /\ t[k].depends = {} => \A j \in S : Precedes(t, j, k)
       /\ k # i /\ Provided(t, k, S) => Precedes(t, i, k)

(* What a subsystem uses without saying so is among them in any case.      *)
ASSUME NeedsAssumption ==
  \A t \in Tables : Len(t) <= MaxNodes =>
    \A i \in {n \in DOMAIN t : \E need \in Needs : need[1] = t[n].name} :
      \A S \in SUBSET (DOMAIN t \ {i}) :
        MayBeDone(t, i, S) =>
          \A need \in Needs : need[1] = t[i].name => \E j \in S : t[j].name = need[2]

VARIABLES
  table,       \* __XScopeNodesStart .. __XScopeNodesEnd, in link order
  order,       \* the nodes initialised so far, by index; Done is their set
  state        \* "start", "running", "finished" or how the machine halted

vars == <<table, order, state>>

Indices == DOMAIN table
Done == {order[p] : p \in DOMAIN order}

-----------------------------------------------------------------------------
FirstNamedIsDone(name) ==         \* mutant: only the first node of a name counts
  \E i \in Done : table[i].name = name /\ \A j \in 1 .. (i - 1) : table[j].name # name

XScopeNameIsDone(name) == \E i \in Done : table[i].name = name

ReadyAnyDepend(i) ==              \* mutant: one dependency done is enough
  i \notin Done /\ (table[i].depends = {} \/ \E d \in table[i].depends : XScopeNameIsDone(d))

Ready(i) == i \notin Done /\ \A d \in table[i].depends : XScopeNameIsDone(d)

AheadByIndex(i, j) == i < j       \* mutant: the priority is not looked at

(* i is chosen before j: strictly lower priority, or linked earlier.       *)
Ahead(i, j) == Precedes(table, i, j)

Best(i) == Ready(i) /\ \A j \in Indices \ {i} : Ready(j) => Ahead(i, j)

CheckTable ==
  /\ state = "start"
  /\ state' = IF Len(table) \in 1 .. MaxNodes
              THEN IF \A i \in Indices : table[i].wellFormed
                   THEN "running" ELSE "malformed"
              ELSE "out of range"
  /\ UNCHANGED <<table, order>>

RunNode ==
  /\ state = "running"
  /\ \E i \in Indices :
       /\ Best(i)
       /\ \/ order' = Append(order, i) /\ UNCHANGED state
          \/ state' = "failed" /\ UNCHANGED order       \* Init() # STATUS_SUCCESS
  /\ UNCHANGED table

StuckSpins ==                     \* mutant: a round without progress is not noticed
  /\ state = "running"
  /\ Done # Indices
  /\ \A i \in Indices : ~Ready(i)
  /\ UNCHANGED vars

Stuck ==
  /\ state = "running"
  /\ Done # Indices
  /\ \A i \in Indices : ~Ready(i)
  /\ state' = "stuck"
  /\ UNCHANGED <<table, order>>

Finish ==
  /\ state = "running"
  /\ Done = Indices
  /\ state' = "finished"
  /\ UNCHANGED <<table, order>>

Init ==
  /\ table \in Tables
  /\ order = <<>>
  /\ state = "start"

Next == CheckTable \/ RunNode \/ Stuck \/ Finish

Spec == Init /\ [][Next]_vars /\ WF_vars(Next)

-----------------------------------------------------------------------------
States == {"start", "running", "finished", "malformed", "out of range", "failed", "stuck"}

TypeOK ==
  /\ table \in Tables
  /\ order \in Seq(Indices)
  /\ state \in States

(* No subsystem is initialised twice, and each only after everything it    *)
(* depends on (XScope.C:98-146).                                           *)
NobodyTwice == \A p, q \in DOMAIN order : p # q => order[p] # order[q]
DependsBefore ==
  \A p \in DOMAIN order : \A d \in table[order[p]].depends :
    \E q \in 1 .. (p - 1) : table[order[q]].name = d
OrderIsSound == NobodyTwice /\ DependsBefore

(* A node that could have gone first went first: one initialised later, of *)
(* lower priority or of equal priority and linked earlier, still waited for*)
(* a dependency at the time (XScope.C:120-123).                            *)
NoPriorityInversion ==
  \A q \in DOMAIN order : \A p \in 1 .. (q - 1) :
    \/ table[order[p]].priority < table[order[q]].priority
    \/ table[order[p]].priority = table[order[q]].priority /\ order[p] < order[q]
    \/ \E d \in table[order[q]].depends :
         \A r \in 1 .. (p - 1) : table[order[r]].name # d

(* "Stuck" is never the fault of the order chosen: some of the nodes left  *)
(* depend on nothing but each other or on names nobody has, so no order    *)
(* whatever would have initialised them (XScope.C:126-134, XScope.H:73-81).*)
StuckOnlyIfImpossible ==
  state = "stuck" =>
    \E left \in (SUBSET Indices) \ {{}} :
      \A i \in left : \E d \in table[i].depends :
        \A j \in Indices \ left : table[j].name # d

(* The machine goes on only with every subsystem initialised, each after   *)
(* what its Init relies on without saying so: MM_PAT reads the features    *)
(* CPUID collects, and everybody prints to SERIAL (PAT.C:38-49).           *)
NeedsMet ==
  /\ state = "finished" => Done = Indices
  /\ \A p \in DOMAIN order : \A need \in Needs :
       table[order[p]].name = need[1] =>
         \E q \in 1 .. (p - 1) : table[order[q]].name = need[2]
=============================================================================

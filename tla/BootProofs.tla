----------------------------- MODULE BootProofs -----------------------------
(***************************************************************************)
(* Proofs about modules Loader, XScope and Boot, and about module Console, *)
(* the screen on which the boot reports.  The loader first: for every      *)
(* number of segments and descriptors and however often firmware refuses   *)
(* or moves the map, what the kernel is handed is sound, and stays so      *)
(* while it runs.                                                          *)
(***************************************************************************)
EXTENDS Boot, Console, FiniteSetTheorems, WellFoundedInduction, TLAPS

(* What is held at each stage.                                             *)
HeldAt(s) ==
  CASE s = "info" -> {"root", "file"}
    [] s = "image" -> {"root", "file", "info"}
    [] s = "read" -> {"root", "file", "image"}
    [] s = "load" -> {"image"}
    [] s \in {"map", "exit", "retry", "jumped"} -> {"map"}
    [] OTHER -> {}

Exiting == {"size", "buffer", "map", "exit", "retry", "jumped"}

(* HandoffIsSound speaks of the last state alone; this says what each      *)
(* stage contributes to it, and that a good key means the size is the      *)
(* map's.                                                                  *)
LoaderInv ==
  /\ LoaderTypeOK
  /\ held = HeldAt(stage)
  /\ services <=> stage # "jumped"
  /\ stage \in Exiting => loaded = Segments
  /\ stage \notin {"screen", "halted"} => info.screen
  /\ stage \notin {"screen", "rsdp", "halted"} => info.rsdp
  /\ stage = "buffer" => mapSize <= MaxDescriptors
  /\ stage = "exit" => mapSize <= MaxDescriptors
  /\ stage = "exit" /\ current => mapSize = descriptors
  /\ stage # "halted" => attempt < MEMORY_EXIT_MAX_ATTEMPTS
  /\ stage = "jumped" => current /\ info.entries = descriptors

LEMMA Bounds ==
  /\ Segments \in Nat /\ MaxSurprises \in Nat
  /\ MaxDescriptors \in Nat /\ MaxDescriptors >= 1
<1>1. \A n \in {Segments, MaxSurprises, MaxDescriptors} : n \in Nat \ {0}
  BY LoaderAssumption
<1> QED BY <1>1

LEMMA LoaderInvInit == LoaderInit => LoaderInv
<1> SUFFICES ASSUME LoaderInit PROVE LoaderInv
  OBVIOUS
<1>1. info \in Filled
  <2>1. 0 \in 0 .. (MaxDescriptors + Pad)
    BY Bounds DEF Pad
  <2> QED BY <2>1 DEF LoaderInit, Filled
<1>2. /\ loaded \in 0 .. Segments /\ descriptors \in 1 .. MaxDescriptors
      /\ mapSize \in 0 .. (MaxDescriptors + 2) /\ attempt \in 0 .. 3
      /\ surprises \in 0 .. MaxSurprises
  BY Bounds DEF LoaderInit
<1>3. /\ stage \in Stages /\ held \subseteq Things
      /\ services \in BOOLEAN /\ current \in BOOLEAN /\ stubborn \in BOOLEAN
  BY DEF LoaderInit, Stages
<1>4. LoaderTypeOK
  BY <1>1, <1>2, <1>3 DEF LoaderTypeOK, Pad, MEMORY_EXIT_MAX_ATTEMPTS
<1>5. stage = "screen" /\ attempt < 3 /\ services
  BY DEF LoaderInit
<1>6. held = HeldAt(stage)
  BY DEF LoaderInit, HeldAt
<1> QED
  BY <1>4, <1>5, <1>6 DEF LoaderInv, Exiting, MEMORY_EXIT_MAX_ATTEMPTS

(* What a moving map does to the two variables it may change.              *)
LEMMA MapMovesTyped ==
  ASSUME LoaderTypeOK, MapMoves
  PROVE  /\ current' = FALSE
         /\ descriptors' \in 1 .. MaxDescriptors
         /\ surprises' \in 0 .. MaxSurprises
BY Bounds DEF LoaderTypeOK, MapMoves, Refuse, Pad

LEMMA RefuseTyped ==
  ASSUME LoaderTypeOK, Refuse
  PROVE  surprises' \in 0 .. MaxSurprises
BY Bounds DEF LoaderTypeOK, Refuse

LEMMA LoaderInvStep == LoaderInv /\ [LoaderNext]_loaderVars => LoaderInv'
<1> SUFFICES ASSUME LoaderInv, [LoaderNext]_loaderVars PROVE LoaderInv'
  OBVIOUS
<1> USE Bounds DEF LoaderInv, Pad, MEMORY_EXIT_MAX_ATTEMPTS
<1>t. LoaderTypeOK
  OBVIOUS
<1>1. CASE FirmwareEvent
  BY <1>1, RefuseTyped DEF FirmwareEvent, LoaderTypeOK
<1>2. CASE GraphicsInit
  <2>1. CASE stage' = "rsdp" /\ info' = [info EXCEPT !["screen"] = TRUE] /\ UNCHANGED <<held, surprises>>
    BY <1>2, <2>1 DEF GraphicsInit, Ask, LoaderTypeOK, MapStays, Stages, Filled, HeldAt, Exiting
  <2>2. CASE Refuse /\ Halt(held) /\ UNCHANGED info
    BY <1>2, <2>2, RefuseTyped DEF GraphicsInit, Ask, LoaderTypeOK, MapStays, Halt, Stages, HeldAt, Exiting
  <2> QED BY <1>2, <2>1, <2>2 DEF GraphicsInit, Ask
<1>3. CASE AcpiFindRsdp
  <2>1. CASE stage' = "open" /\ info' = [info EXCEPT !["rsdp"] = TRUE] /\ UNCHANGED <<held, surprises>>
    BY <1>3, <2>1 DEF AcpiFindRsdp, Ask, LoaderTypeOK, MapStays, Stages, Filled, HeldAt, Exiting
  <2>2. CASE Refuse /\ Halt(held) /\ UNCHANGED info
    BY <1>3, <2>2, RefuseTyped DEF AcpiFindRsdp, Ask, LoaderTypeOK, MapStays, Halt, Stages, HeldAt, Exiting
  <2> QED BY <1>3, <2>1, <2>2 DEF AcpiFindRsdp, Ask
<1>4. CASE OpenKernel
  BY <1>4, RefuseTyped DEF OpenKernel, LoaderTypeOK, MapStays, Halt, Stages, Things, HeldAt, Exiting
<1>5. CASE GetInfo
  BY <1>5, RefuseTyped, MapMovesTyped DEF GetInfo, LoaderTypeOK, MapStays, Halt, Stages, Things, HeldAt, Exiting
<1>6. CASE AllocateImage
  BY <1>6, RefuseTyped, MapMovesTyped DEF AllocateImage, LoaderTypeOK, MapStays, Halt, Stages, Things, HeldAt, Exiting
<1>7. CASE ReadImage
  BY <1>7, RefuseTyped DEF ReadImage, LoaderTypeOK, MapStays, Halt, Stages, Things, HeldAt, Exiting
<1>8. CASE LoadSegment
  <2>1. CASE loaded' = loaded + 1 /\ UNCHANGED <<stage, held>> /\ MapMoves
    <3>1. loaded' \in 0 .. Segments
      BY <1>8, <2>1 DEF LoadSegment, LoaderTypeOK
    <3>2. LoaderTypeOK'
      BY <1>8, <2>1, <3>1, MapMovesTyped DEF LoadSegment, LoaderTypeOK
    <3> QED BY <1>8, <2>1, <3>2 DEF LoadSegment, Exiting
  <2>2. CASE Refuse /\ Halt({}) /\ UNCHANGED <<loaded, descriptors, current>>
    BY <1>8, <2>2, RefuseTyped DEF LoadSegment, LoaderTypeOK, Halt, Stages, HeldAt, Exiting
  <2> QED BY <1>8, <2>1, <2>2 DEF LoadSegment
<1>9. CASE FreeImage
  BY <1>9, MapMovesTyped DEF FreeImage, LoaderTypeOK, Stages, Things, HeldAt, Exiting
<1>10. CASE AskMapSize
  BY <1>10, RefuseTyped DEF AskMapSize, LoaderTypeOK, MapStays, Halt, Stages, Things, HeldAt, Exiting
<1>11. CASE AllocateMap
  <2>1. CASE stage' = "map" /\ held' = held \cup {"map"} /\ mapSize' = mapSize + Pad /\ MapMoves
    <3>1. mapSize' \in 0 .. (MaxDescriptors + Pad)
      BY <1>11, <2>1 DEF AllocateMap, LoaderTypeOK
    <3>2. held = {} /\ held' = {"map"}
      BY <1>11, <2>1 DEF AllocateMap, HeldAt
    <3>3. LoaderTypeOK'
      BY <1>11, <2>1, <3>1, <3>2, MapMovesTyped DEF AllocateMap, LoaderTypeOK, Stages, Things
    <3> QED BY <1>11, <2>1, <3>2, <3>3 DEF AllocateMap, HeldAt, Exiting
  <2>2. CASE Refuse /\ Halt(held) /\ MapStays /\ UNCHANGED mapSize
    BY <1>11, <2>2, RefuseTyped DEF AllocateMap, LoaderTypeOK, MapStays, Halt, Stages, HeldAt, Exiting
  <2> QED BY <1>11, <2>1, <2>2 DEF AllocateMap
<1>12. CASE GetMemoryMap
  <2>0. /\ stage = "map" /\ held = {"map"} /\ descriptors \in 1 .. MaxDescriptors
        /\ descriptors \in 0 .. (MaxDescriptors + Pad)
    BY <1>12 DEF GetMemoryMap, HeldAt, LoaderTypeOK
  <2>1. CASE /\ stage' = "exit" /\ mapSize' = MapSize /\ current' = TRUE
             /\ UNCHANGED <<held, descriptors, surprises>>
    BY <1>12, <2>0, <2>1 DEF GetMemoryMap, MapSize, LoaderTypeOK, Stages, HeldAt, Exiting
  <2>2. CASE /\ stage' = "buffer" /\ mapSize' = descriptors /\ held' = held \ {"map"}
             /\ MapMoves
    <3>1. LoaderTypeOK'
      BY <1>12, <2>0, <2>2, MapMovesTyped DEF GetMemoryMap, LoaderTypeOK, Stages
    <3> QED BY <1>12, <2>0, <2>2, <3>1 DEF GetMemoryMap, HeldAt, Exiting
  <2>3. CASE /\ Refuse /\ Halt(held \ {"map"}) /\ UNCHANGED <<mapSize, descriptors, current>>
    BY <1>12, <2>0, <2>3, RefuseTyped DEF GetMemoryMap, LoaderTypeOK, Halt, Stages, HeldAt, Exiting
  <2> QED BY <1>12, <2>1, <2>2, <2>3 DEF GetMemoryMap
<1>13. CASE ExitBootServices
  BY <1>13, RefuseTyped DEF ExitBootServices, LoaderTypeOK, MapStays, Stages, Things, Filled, HeldAt, Exiting
<1>14. CASE Retry
  <2>1. /\ stage = "retry" /\ held = {"map"} /\ held' = {}
        /\ attempt \in 0 .. 2 /\ attempt' = attempt + 1
    BY <1>14 DEF Retry, Again, Halt, HeldAt, LoaderTypeOK
  <2>2. \/ stage' = "size" /\ attempt' < 3
        \/ stage' = "halted"
    BY <1>14 DEF Retry, Again, Halt
  <2>3. MapMoves /\ UNCHANGED <<services, loaded, mapSize, info, stubborn>>
    BY <1>14 DEF Retry
  <2>4. /\ attempt' \in 0 .. 3 /\ stage' \in Stages /\ held' \subseteq Things
    BY <2>1, <2>2 DEF Stages
  <2>5. LoaderTypeOK'
    BY <2>3, <2>4, MapMovesTyped DEF LoaderTypeOK
  <2> QED BY <2>1, <2>2, <2>3, <2>5 DEF HeldAt, Exiting
<1>15. CASE UNCHANGED loaderVars
  BY <1>15 DEF loaderVars, LoaderTypeOK
<1> QED
  BY <1>1, <1>2, <1>3, <1>4, <1>5, <1>6, <1>7, <1>8, <1>9, <1>10, <1>11, <1>12, <1>13, <1>14, <1>15
  DEF LoaderNext

LEMMA LoaderInvSound == LoaderInv => HandoffIsSound
BY DEF LoaderInv, HandoffIsSound, LoaderTypeOK, Filled, HeldAt, Exiting

(* The kernel touches nothing of the loader's.                             *)
LEMMA BootInvStep == LoaderInv /\ [Boot]_bootVars => LoaderInv'
BY LoaderInvStep DEF Boot, UefiMain, KernelMain, bootVars

(* Sizes, counts and attempts stay within their bounds: in particular the  *)
(* loader asks for boot services to end at most three times (Memory.c:22). *)
THEOREM LoaderTyped == BootSpec => []LoaderTypeOK
<1>1. BootInit => LoaderInv
  BY LoaderInvInit DEF BootInit
<1>2. LoaderInv /\ [Boot]_bootVars => LoaderInv'
  BY BootInvStep
<1>3. LoaderInv => LoaderTypeOK
  BY DEF LoaderInv
<1> QED BY <1>1, <1>2, <1>3, PTL DEF BootSpec

(* The kernel never starts on a half-loaded image, with boot services      *)
(* alive or with a map that is not the one they ended with; and a halted   *)
(* loader has leaked nothing (Memory.c:43-121, PhononBoot.c:22-82).        *)
THEOREM HandoffSound == BootSpec => []HandoffIsSound
<1>1. BootInit => LoaderInv
  BY LoaderInvInit DEF BootInit
<1>2. LoaderInv /\ [Boot]_bootVars => LoaderInv'
  BY BootInvStep
<1>3. LoaderInv => HandoffIsSound
  BY LoaderInvSound
<1> QED BY <1>1, <1>2, <1>3, PTL DEF BootSpec

-----------------------------------------------------------------------------
(* XScope's safety, for every table of nodes: the kernel's own, and any a  *)
(* later subsystem turns it into.                                          *)

(* The nodes not yet initialised when nothing is ready wait for each other *)
(* or for a name nobody has.                                               *)
StuckInv ==
  state = "stuck" =>
    /\ Done \subseteq Indices /\ Done # Indices
    /\ \A i \in Indices : ~Ready(i)

(* The machine goes on only with everything initialised.                   *)
FinishedInv == state = "finished" => Done = Indices

(* Nothing runs from a table out of range.                                 *)
SizeInv == state = "running" \/ DOMAIN order # {} => Len(table) <= MaxNodes

(* Every node initialised was the best choice when its turn came: ahead of *)
(* every node that was neither done nor waiting for a dependency then.     *)
WasBest ==
  \A p \in DOMAIN order : \A j \in Indices :
    \/ \E r \in 1 .. p : order[r] = j
    \/ \E d \in table[j].depends : \A r \in 1 .. (p - 1) : table[order[r]].name # d
    \/ Ahead(order[p], j)

IInv ==
  /\ TypeOK
  /\ OrderIsSound
  /\ WasBest
  /\ StuckInv
  /\ FinishedInv
  /\ SizeInv

(* Appending a node keeps the earlier positions.                           *)
LEMMA AppendedOrder ==
  ASSUME NEW S, NEW s \in Seq(S), NEW e \in S
  PROVE  /\ Append(s, e) \in Seq(S)
         /\ DOMAIN Append(s, e) = 1 .. (Len(s) + 1)
         /\ DOMAIN s = 1 .. Len(s)
         /\ Len(s) \in Nat
         /\ \A p \in 1 .. Len(s) : Append(s, e)[p] = s[p]
         /\ Append(s, e)[Len(s) + 1] = e
  OBVIOUS

(* Initially nothing is done.                                              *)
LEMMA InitIInv == Init => IInv
<1> SUFFICES ASSUME Init PROVE IInv
  OBVIOUS
<1>1. TypeOK
  BY DEF Init, TypeOK, States
<1>2. DOMAIN order = {}
  BY DEF Init
<1>3. OrderIsSound /\ WasBest
  BY <1>2 DEF OrderIsSound, NobodyTwice, DependsBefore, WasBest
<1>. QED
  BY <1>1, <1>2, <1>3 DEF Init, IInv, StuckInv, FinishedInv, SizeInv

(* A node whose Init succeeds goes to the end of the order.                *)
LEMMA RunSound ==
  ASSUME IInv, table' = table, state' = state, state = "running",
         NEW i \in Indices, Best(i), order' = Append(order, i)
  PROVE  IInv'
<1>1. order \in Seq(Indices) /\ table \in Tables /\ OrderIsSound /\ WasBest
  BY DEF IInv, TypeOK
<1>2. /\ order' \in Seq(Indices)
      /\ DOMAIN order' = 1 .. (Len(order) + 1)
      /\ DOMAIN order = 1 .. Len(order)
      /\ Len(order) \in Nat
      /\ \A p \in 1 .. Len(order) : order'[p] = order[p]
      /\ order'[Len(order) + 1] = i
  BY <1>1, AppendedOrder
<1>3. TypeOK'
  BY <1>1, <1>2 DEF TypeOK, IInv, Indices
<1>4. /\ \A q \in 1 .. Len(order) : order[q] # i
      /\ \A d \in table[i].depends : \E q \in 1 .. Len(order) : table[order[q]].name = d
  BY <1>2 DEF Best, Ready, XScopeNameIsDone, Done
<1>5. OrderIsSound'
  <2>1. \A p, q \in DOMAIN order' : p # q => order'[p] # order'[q]
    BY <1>1, <1>2, <1>4 DEF OrderIsSound, NobodyTwice
  <2>2. ASSUME NEW p \in DOMAIN order', NEW d \in table'[order'[p]].depends
        PROVE  \E q \in 1 .. (p - 1) : table'[order'[q]].name = d
    <3>1. CASE p = Len(order) + 1
      BY <1>2, <1>4, <3>1
    <3>2. CASE p # Len(order) + 1
      <4>1. p \in 1 .. Len(order) /\ order'[p] = order[p]
        BY <1>2, <3>2
      <4>2. PICK q \in 1 .. (p - 1) : table[order[q]].name = d
        BY <1>1, <1>2, <4>1 DEF OrderIsSound, DependsBefore
      <4>3. order'[q] = order[q]
        BY <1>2, <4>1
      <4>. QED
        BY <4>2, <4>3
    <3>. QED
      BY <3>1, <3>2
  <2>3. NobodyTwice'
    BY <2>1 DEF NobodyTwice
  <2>4. DependsBefore'
    BY <2>2, Zenon DEF DependsBefore
  <2>. QED
    BY <2>3, <2>4 DEF OrderIsSound
<1>6. WasBest'
  <2>1. ASSUME NEW p \in DOMAIN order', NEW j \in Indices
        PROVE  \/ \E r \in 1 .. p : order'[r] = j
               \/ \E d \in table[j].depends : \A r \in 1 .. (p - 1) : table[order'[r]].name # d
               \/ Ahead(order'[p], j)
    <3>1. CASE p = Len(order) + 1
      <4>1. CASE \E r \in 1 .. Len(order) : order[r] = j
        BY <1>2, <3>1, <4>1
      <4>2. CASE j = i
        BY <1>2, <3>1, <4>2
      <4>3. CASE j # i /\ ~\E r \in 1 .. Len(order) : order[r] = j
        <5>1. j \notin Done
          BY <1>2, <4>3 DEF Done
        <5>2. Ready(j) => Ahead(i, j)
          BY <4>3 DEF Best
        <5>3. Ready(j) \/ \E d \in table[j].depends : ~XScopeNameIsDone(d)
          BY <5>1 DEF Ready
        <5>4. \A d : ~XScopeNameIsDone(d) => \A r \in 1 .. Len(order) : table[order[r]].name # d
          BY <1>2 DEF XScopeNameIsDone, Done
        <5>5. \A r \in 1 .. (p - 1) : order'[r] = order[r] /\ r \in 1 .. Len(order)
          BY <1>2, <3>1
        <5>. QED
          BY <1>2, <3>1, <5>2, <5>3, <5>4, <5>5
      <4>. QED
        BY <4>1, <4>2, <4>3
    <3>2. CASE p # Len(order) + 1
      <4>1. p \in 1 .. Len(order) /\ \A r \in 1 .. p : order'[r] = order[r]
        BY <1>2, <3>2
      <4>2. order'[p] = order[p] /\ \A r \in 1 .. (p - 1) : order'[r] = order[r]
        BY <4>1
      <4>3. \/ \E r \in 1 .. p : order[r] = j
            \/ \E d \in table[j].depends : \A r \in 1 .. (p - 1) : table[order[r]].name # d
            \/ Ahead(order[p], j)
        BY <1>1, <1>2, <4>1 DEF WasBest
      <4>. QED
        BY <4>1, <4>2, <4>3
    <3>. QED
      BY <3>1, <3>2
  <2>. QED
    BY <2>1 DEF WasBest, Ahead, Indices
<1>. QED
  BY <1>3, <1>5, <1>6 DEF IInv, StuckInv, FinishedInv, SizeInv

(* The steps that only decide leave the order alone.                       *)
LEMMA DecisionSound ==
  ASSUME IInv, table' = table, order' = order, state' \in States, StuckInv', FinishedInv', SizeInv'
  PROVE  IInv'
<1>1. TypeOK'
  BY DEF IInv, TypeOK, Indices
<1>2. OrderIsSound'
  BY DEF IInv, OrderIsSound, NobodyTwice, DependsBefore
<1>3. WasBest'
  BY DEF IInv, WasBest, Ahead, Indices
<1>. QED
  BY <1>1, <1>2, <1>3 DEF IInv

(* Every step preserves the invariant.                                     *)
LEMMA StepIInv == IInv /\ [Next]_vars => IInv'
<1> SUFFICES ASSUME IInv, [Next]_vars PROVE IInv'
  OBVIOUS
<1>1. CASE CheckTable
  <2>1. table' = table /\ order' = order /\ state' \in States \ {"stuck", "finished"}
    BY <1>1 DEF CheckTable, States
  <2>2. SizeInv'
    <3>1. Len(table) \in Nat /\ MaxNodes \in Nat
      BY TablesAssumption DEF IInv, TypeOK
    <3>2. state' = "running" => Len(table) \in 1 .. MaxNodes
      BY <1>1 DEF CheckTable
    <3>3. DOMAIN order # {} => Len(table) <= MaxNodes
      BY DEF IInv, SizeInv
    <3>. QED BY <2>1, <3>1, <3>2, <3>3 DEF SizeInv
  <2>. QED
    BY <1>1, <2>1, <2>2, DecisionSound DEF StuckInv, FinishedInv
<1>2. CASE RunNode
  <2>1. PICK i \in Indices :
          /\ Best(i)
          /\ \/ order' = Append(order, i) /\ UNCHANGED state
             \/ state' = "failed" /\ UNCHANGED order
    BY <1>2 DEF RunNode
  <2>2. CASE order' = Append(order, i) /\ UNCHANGED state
    BY <1>2, <2>1, <2>2, RunSound DEF RunNode
  <2>3. CASE state' = "failed" /\ UNCHANGED order
    BY <1>2, <2>3, DecisionSound DEF RunNode, IInv, StuckInv, FinishedInv, SizeInv, States
  <2>. QED
    BY <2>1, <2>2, <2>3
<1>3. CASE Stuck
  <2>1. table' = table /\ order' = order /\ state' = "stuck"
    BY <1>3 DEF Stuck
  <2>2. order \in Seq(Indices)
    BY DEF IInv, TypeOK
  <2>3. Done \subseteq Indices
    BY <2>2 DEF Done
  <2>4. Done' = Done /\ Indices' = Indices
    BY <2>1 DEF Done, Indices
  <2>5. \A i \in Indices : ~Ready(i)'
    BY <1>3, <2>1 DEF Stuck, Ready, XScopeNameIsDone, Done
  <2>6. StuckInv'
    BY <1>3, <2>3, <2>4, <2>5 DEF StuckInv, Stuck
  <2>. QED
    BY <1>3, <2>1, <2>6, DecisionSound DEF Stuck, States, IInv, FinishedInv, SizeInv
<1>4. CASE Finish
  BY <1>4, DecisionSound DEF Finish, IInv, StuckInv, FinishedInv, SizeInv, States, Done, Indices
<1>5. CASE UNCHANGED vars
  <2>1. table' = table /\ order' = order /\ state' = state
    BY <1>5 DEF vars
  <2>2. state \in States
    BY DEF IInv, TypeOK
  <2>3. StuckInv'
    BY <2>1 DEF IInv, StuckInv, Done, Indices, Ready, XScopeNameIsDone
  <2>4. FinishedInv'
    BY <2>1 DEF IInv, FinishedInv, Done, Indices
  <2>5. SizeInv'
    BY <2>1 DEF IInv, SizeInv
  <2>. QED
    BY <2>1, <2>2, <2>3, <2>4, <2>5, DecisionSound
<1>. QED
  BY <1>1, <1>2, <1>3, <1>4, <1>5 DEF Next

LEMMA Inductive == Spec => []IInv
BY InitIInv, StepIInv, PTL DEF Spec

(* The table is never changed and its indices are all the order holds.     *)
THEOREM TypeCorrect == Spec => []TypeOK
<1>1. IInv => TypeOK
  BY DEF IInv
<1>. QED
  BY <1>1, Inductive, PTL

(* No subsystem is initialised twice, or before something it depends on.   *)
THEOREM DependenciesFirst == Spec => []OrderIsSound
<1>1. IInv => OrderIsSound
  BY DEF IInv
<1>. QED
  BY <1>1, Inductive, PTL

LEMMA BestWentFirst == IInv => NoPriorityInversion
<1> SUFFICES ASSUME IInv PROVE NoPriorityInversion
  OBVIOUS
<1>1. order \in Seq(Indices) /\ OrderIsSound /\ WasBest
  BY DEF IInv, TypeOK
<1>2. ASSUME NEW q \in DOMAIN order, NEW p \in 1 .. (q - 1)
      PROVE  \/ table[order[p]].priority < table[order[q]].priority
             \/ table[order[p]].priority = table[order[q]].priority /\ order[p] < order[q]
             \/ \E d \in table[order[q]].depends :
                  \A r \in 1 .. (p - 1) : table[order[r]].name # d
  <2>1. p \in DOMAIN order /\ order[q] \in Indices
    BY <1>1
  <2>2. \A r \in 1 .. p : r \in DOMAIN order /\ r # q
    BY <1>1
  <2>3. \A r \in 1 .. p : order[r] # order[q]
    BY <1>1, <2>2 DEF OrderIsSound, NobodyTwice
  <2>4. \/ \E d \in table[order[q]].depends : \A r \in 1 .. (p - 1) : table[order[r]].name # d
        \/ Ahead(order[p], order[q])
    BY <1>1, <2>1, <2>3 DEF WasBest
  <2>. QED
    BY <2>4 DEF Ahead, Precedes
<1>. QED
  BY <1>2 DEF NoPriorityInversion

(* Among the nodes that could have gone, the one of lowest priority went.  *)
THEOREM PriorityRespected == Spec => []NoPriorityInversion
BY BestWentFirst, Inductive, PTL

LEMMA LeftWaitForEachOther == IInv => StuckOnlyIfImpossible
<1> SUFFICES ASSUME IInv, state = "stuck"
             PROVE  \E left \in (SUBSET Indices) \ {{}} :
                      \A i \in left : \E d \in table[i].depends :
                        \A j \in Indices \ left : table[j].name # d
  BY DEF StuckOnlyIfImpossible
<1>1. /\ Done \subseteq Indices /\ Done # Indices
      /\ \A i \in Indices : ~Ready(i)
  BY DEF IInv, StuckInv
<1>2. Indices \ Done \in (SUBSET Indices) \ {{}}
  BY <1>1
<1>3. ASSUME NEW i \in Indices \ Done
      PROVE  \E d \in table[i].depends :
               \A j \in Indices \ (Indices \ Done) : table[j].name # d
  BY <1>1 DEF Ready, XScopeNameIsDone
<1>. QED
  BY <1>2, <1>3

(* A halt for want of a ready node is the table's fault: no order would do.*)
THEOREM StuckIsUnsatisfiable == Spec => []StuckOnlyIfImpossible
BY LeftWaitForEachOther, Inductive, PTL

(* What is done when a node is chosen is what may be done then.            *)
LEMMA DoneMayBeDone ==
  ASSUME IInv, NEW p \in DOMAIN order,
         NEW S, S = {order[q] : q \in 1 .. (p - 1)}
  PROVE  MayBeDone(table, order[p], S)
<1>1. /\ order \in Seq(Indices) /\ WasBest /\ OrderIsSound
      /\ table \in Seq(Node)
  BY TablesAssumption DEF IInv, TypeOK
<1>2. /\ p \in Nat /\ DOMAIN order = 1 .. Len(order) /\ Len(order) \in Nat
      /\ Indices = 1 .. Len(table) /\ Len(table) \in Nat
  BY <1>1 DEF Indices
<1>3. \A i, j \in Indices : i # j /\ ~Ahead(i, j) => Ahead(j, i)
  <2>1. \A i \in Indices : table[i].priority \in Int /\ i \in Int
    <3>1. \A i \in Indices : table[i] \in Node
      BY <1>1 DEF Indices
    <3>. QED BY <1>2, <3>1 DEF Node
  <2>. QED BY <2>1 DEF Ahead, Precedes
<1>4. ASSUME NEW q \in 1 .. p PROVE Provided(table, order[q], S)
  <2>1. ASSUME NEW d \in table[order[q]].depends
        PROVE  \E r \in 1 .. (q - 1) : table[order[r]].name = d
    BY <1>1, <1>2 DEF OrderIsSound, DependsBefore
  <2>2. \A r \in 1 .. (q - 1) : order[r] \in S
    BY <1>2
  <2>. QED BY <2>1, <2>2 DEF Provided
<1>5. ASSUME NEW i \in DOMAIN table \ S, table[i].depends = {}, NEW j \in S
      PROVE  Precedes(table, j, i)
  <2>1. PICK q \in 1 .. (p - 1) : j = order[q]
    BY <1>5
  <2>2. ~\E r \in 1 .. q : order[r] = i
    BY <1>2, <1>5, <2>1
  <2>3. q \in DOMAIN order /\ i \in Indices
    BY <1>2, <2>1 DEF Indices
  <2>4. Ahead(order[q], i)
    BY <1>1, <1>5, <2>2, <2>3 DEF WasBest
  <2>. QED BY <2>1, <2>4 DEF Ahead
<1>6. ASSUME NEW i \in DOMAIN table \ S, i # order[p], Provided(table, i, S)
      PROVE  Precedes(table, order[p], i)
  <2>1. ~\E r \in 1 .. p : order[r] = i
    BY <1>2, <1>6
  <2>2. ASSUME NEW d \in table[i].depends
        PROVE  \E r \in 1 .. (p - 1) : table[order[r]].name = d
    BY <1>6 DEF Provided
  <2>3. Ahead(order[p], i)
    BY <1>1, <1>6, <2>1, <2>2 DEF WasBest, Indices
  <2>. QED BY <2>3 DEF Ahead
<1>7. \A j \in S \cup {order[p]} : Provided(table, j, S)
  <2>1. \A j \in S \cup {order[p]} : \E q \in 1 .. p : j = order[q]
    BY <1>2
  <2>. QED BY <1>4, <2>1
<1>. QED BY <1>5, <1>6, <1>7 DEF MayBeDone

(* A table longer than MaxNodes is refused before anything is initialised. *)
LEMMA OnlyTablesInRangeRun ==
  ASSUME IInv, NEW p \in DOMAIN order
  PROVE  Len(table) <= MaxNodes
BY DEF IInv, SizeInv

LEMMA NeedsFound == IInv => NeedsMet
<1> SUFFICES ASSUME IInv PROVE NeedsMet
  OBVIOUS
<1>1. /\ order \in Seq(Indices) /\ table \in Tables
      /\ state = "finished" => Done = Indices
  BY DEF IInv, TypeOK, FinishedInv
<1>2. ASSUME NEW p \in DOMAIN order, NEW need \in Needs, table[order[p]].name = need[1]
      PROVE  \E q \in 1 .. (p - 1) : table[order[q]].name = need[2]
  <2> DEFINE S == {order[q] : q \in 1 .. (p - 1)}
  <2>1. /\ order[p] \in DOMAIN table
        /\ S \in SUBSET (DOMAIN table \ {order[p]})
    <3>1. \A q \in 1 .. (p - 1) : q \in DOMAIN order /\ q # p
      BY <1>1
    <3>. QED BY <1>1, <3>1 DEF Indices, IInv, OrderIsSound, NobodyTwice
  <2>2. MayBeDone(table, order[p], S) /\ Len(table) <= MaxNodes
    BY DoneMayBeDone, OnlyTablesInRangeRun
  <2>3. \E j \in S : table[j].name = need[2]
    <3> HIDE DEF S
    <3>. QED BY <1>1, <1>2, <2>1, <2>2, NeedsAssumption
  <2>. QED BY <2>3
<1>. QED BY <1>1, <1>2 DEF NeedsMet

(* Every subsystem finds set up what it relies on without declaring it, in *)
(* any table whose priorities arrange for it; the run evaluates that of the*)
(* kernel's own table (PAT.C:38-49, XScope.C:120-146).                     *)
THEOREM NeedsAreMet == Spec => []NeedsMet
BY NeedsFound, Inductive, PTL

(* The loader's steps leave the kernel alone.                              *)
LEMMA BootKeepsIInv == IInv /\ [Boot]_bootVars => IInv'
BY StepIInv DEF Boot, UefiMain, KernelMain, bootVars, vars

(* A subsystem is initialised only on the machine the hand-off left: what  *)
(* XScope promises of the order holds when the loader starts it, and no    *)
(* table is looked at before the loader has jumped (Kernel.C, XScope.C:98).*)
THEOREM KernelIsSound ==
  BootSpec => []( /\ OrderIsSound /\ NoPriorityInversion
                  /\ StuckOnlyIfImpossible /\ NeedsMet
                  /\ state # "start" => ~services /\ current /\ loaded = Segments )
<1> DEFINE After == state # "start" => stage = "jumped"
<1>1. BootInit => LoaderInv /\ IInv /\ After
  BY LoaderInvInit, InitIInv DEF BootInit, Init
<1>2. LoaderInv /\ IInv /\ After /\ [Boot]_bootVars => LoaderInv' /\ IInv' /\ After'
  <2>1. LoaderInv /\ After /\ LoaderNext /\ UNCHANGED vars => After'
    <3> SUFFICES ASSUME LoaderInv, After, LoaderNext, UNCHANGED vars, state # "start"
                 PROVE  stage' = "jumped"
      BY DEF vars
    <3>1. stage = "jumped" /\ ~services
      BY DEF LoaderInv
    <3>. QED
      BY <3>1 DEF LoaderNext, FirmwareEvent, GraphicsInit, AcpiFindRsdp, Ask, OpenKernel, GetInfo,
           AllocateImage, ReadImage, LoadSegment, FreeImage, AskMapSize, AllocateMap, GetMemoryMap,
           ExitBootServices, Retry
  <2>2. After /\ (KernelMain \/ UNCHANGED bootVars) => After'
    BY DEF KernelMain, bootVars, loaderVars, vars
  <2>. QED
    BY <2>1, <2>2, BootInvStep, BootKeepsIInv DEF Boot, UefiMain
<1>3. LoaderInv /\ IInv /\ After =>
        /\ OrderIsSound /\ NoPriorityInversion /\ StuckOnlyIfImpossible /\ NeedsMet
        /\ state # "start" => ~services /\ current /\ loaded = Segments
  <2> SUFFICES ASSUME LoaderInv, IInv, After
               PROVE  /\ OrderIsSound /\ NoPriorityInversion /\ StuckOnlyIfImpossible /\ NeedsMet
                      /\ state # "start" => ~services /\ current /\ loaded = Segments
    OBVIOUS
  <2>1. OrderIsSound
    BY DEF IInv
  <2>2. stage = "jumped" => ~services /\ current /\ loaded = Segments
    BY DEF LoaderInv, Exiting
  <2> HIDE DEF After
  <2>3. state # "start" => ~services /\ current /\ loaded = Segments
    BY <2>2 DEF After
  <2>. QED
    BY <2>1, <2>3, BestWentFirst, LeftWaitForEachOther, NeedsFound
<1>. QED
  BY <1>1, <1>2, <1>3, PTL DEF BootSpec

-----------------------------------------------------------------------------
(* Towards BootEnds: what is left to do, in steps, and a choice that the   *)
(* loop of XScopeRun can always make.                                      *)

(* How much is left at a stage when no map moves any more.  A map with     *)
(* more entries than the buffer costs a second buffer.                     *)
Weight(s, l, tooSmall) ==
  CASE s = "screen" -> Segments + 15
    [] s = "rsdp"   -> Segments + 14
    [] s = "open"   -> Segments + 13
    [] s = "info"   -> Segments + 12
    [] s = "image"  -> Segments + 11
    [] s = "read"   -> Segments + 10
    [] s = "load"   -> Segments + 9 - l
    [] s = "size"   -> 8
    [] s = "buffer" -> IF tooSmall THEN 7 ELSE 5
    [] s = "map"    -> IF tooSmall THEN 6 ELSE 4
    [] s = "exit"   -> 3
    [] s = "retry"  -> 2
    [] OTHER        -> 0

(* An attempt pays for the way from the size to the retry, a surprise for  *)
(* the buffer it may make too small.                                       *)
StageWork == Weight(stage, loaded, mapSize < descriptors)
LoaderWork == StageWork + 7 * (MEMORY_EXIT_MAX_ATTEMPTS - attempt) + 3 * surprises

Left == Indices \ Done
KernelWork ==
  CASE state = "start"   -> Cardinality(Left) + 2
    [] state = "running" -> Cardinality(Left) + 1
    [] OTHER             -> 0

BootWork == LoaderWork + KernelWork

IsWeight(w, s, l, tooSmall) ==
  /\ s = "screen" => w = Segments + 15
  /\ s = "rsdp"   => w = Segments + 14
  /\ s = "open"   => w = Segments + 13
  /\ s = "info"   => w = Segments + 12
  /\ s = "image"  => w = Segments + 11
  /\ s = "read"   => w = Segments + 10
  /\ s = "load"   => w = Segments + 9 - l
  /\ s = "size"   => w = 8
  /\ s = "buffer" => \/ tooSmall /\ w = 7
                     \/ ~tooSmall /\ w = 5
  /\ s = "map"    => \/ tooSmall /\ w = 6
                     \/ ~tooSmall /\ w = 4
  /\ s = "exit"   => w = 3
  /\ s = "retry"  => w = 2
  /\ s \in {"jumped", "halted"} => w = 0

LEMMA Weights ==
  ASSUME NEW s \in Stages, NEW l \in 0 .. Segments, NEW t \in BOOLEAN
  PROVE  IsWeight(Weight(s, l, t), s, l, t)
<1> DEFINE w == Weight(s, l, t)
<1>1. /\ s = "screen" => w = Segments + 15
      /\ s = "rsdp" => w = Segments + 14
      /\ s = "open" => w = Segments + 13
      /\ s = "info" => w = Segments + 12
      /\ s = "image" => w = Segments + 11
      /\ s = "read" => w = Segments + 10
      /\ s = "load" => w = Segments + 9 - l
  BY DEF Weight
<1>2. /\ s = "size" => w = 8
      /\ s = "buffer" => w = IF t THEN 7 ELSE 5
      /\ s = "map" => w = IF t THEN 6 ELSE 4
      /\ s = "exit" => w = 3
      /\ s = "retry" => w = 2
      /\ s \in {"jumped", "halted"} => w = 0
  BY DEF Weight
<1> HIDE DEF w
<1>3. IsWeight(w, s, l, t)
  BY <1>1, <1>2 DEF IsWeight
<1>. QED
  BY <1>3 DEF w

(* A map that moves adds two at most.                                      *)
LEMMA WeightMoves ==
  ASSUME NEW s \in Stages, NEW l \in 0 .. Segments, NEW t \in BOOLEAN, NEW u \in BOOLEAN
  PROVE  Weight(s, l, t) \in Nat /\ Weight(s, l, u) <= Weight(s, l, t) + 2
<1>1. Segments \in Nat /\ Segments - l \in Nat
  BY Bounds
<1>. QED
  BY <1>1 DEF Weight, Stages

LEMMA LoaderWorkTyped ==
  ASSUME LoaderTypeOK
  PROVE  /\ StageWork \in Nat /\ LoaderWork \in Nat
         /\ stage \in Stages /\ loaded \in 0 .. Segments
         /\ (mapSize < descriptors) \in BOOLEAN
         /\ attempt \in 0 .. 3 /\ surprises \in Nat
<1>1. /\ stage \in Stages /\ loaded \in 0 .. Segments
      /\ attempt \in 0 .. 3 /\ surprises \in Nat
  BY Bounds DEF LoaderTypeOK, MEMORY_EXIT_MAX_ATTEMPTS
<1>2. (mapSize < descriptors) \in BOOLEAN
  OBVIOUS
<1>3. StageWork \in Nat
  BY <1>1, <1>2, WeightMoves DEF StageWork
<1>4. LoaderWork \in Nat
  <2> DEFINE w == StageWork
  <2>1. w \in Nat
    BY <1>3
  <2> HIDE DEF w
  <2>2. w + 7 * (3 - attempt) + 3 * surprises \in Nat
    BY <1>1, <2>1
  <2>. QED
    BY <2>2 DEF w, LoaderWork, MEMORY_EXIT_MAX_ATTEMPTS
<1>. QED
  BY <1>1, <1>2, <1>3, <1>4

(* What a step must save at its stage, by what it spends otherwise.        *)
LEMMA Paid ==
  ASSUME LoaderTypeOK, LoaderTypeOK',
         \/ /\ attempt' = attempt /\ surprises' = surprises /\ StageWork' < StageWork
         \/ /\ attempt' = attempt /\ Refuse /\ StageWork' <= StageWork + 2
         \/ /\ attempt' = attempt + 1
            /\ surprises' = surprises \/ Refuse
            /\ StageWork' <= StageWork + 6
  PROVE  LoaderWork' < LoaderWork
<1> DEFINE w == StageWork
           v == StageWork'
<1>1. w \in Nat /\ attempt \in 0 .. 3 /\ surprises \in Nat
  BY LoaderWorkTyped
<1>2. v \in Nat
  <2>1. stage' \in Stages /\ loaded' \in 0 .. Segments /\ (mapSize < descriptors)' \in BOOLEAN
    BY DEF LoaderTypeOK
  <2>. QED
    BY <2>1, WeightMoves DEF StageWork
<1>3. /\ LoaderWork = w + 7 * (3 - attempt) + 3 * surprises
      /\ LoaderWork' = v + 7 * (3 - attempt') + 3 * surprises'
  BY DEF LoaderWork, MEMORY_EXIT_MAX_ATTEMPTS
<1>4. \/ /\ attempt' = attempt /\ surprises' = surprises /\ v < w
      \/ /\ attempt' = attempt /\ surprises' = surprises - 1 /\ v <= w + 2
      \/ /\ attempt' = attempt + 1
         /\ surprises' \in {surprises, surprises - 1}
         /\ v <= w + 6
  BY DEF Refuse
<1> HIDE DEF w, v
<1>. QED
  BY <1>1, <1>2, <1>3, <1>4

(* The map moves: at no cost, or at the cost of a surprise.                *)
LEMMA Moved ==
  ASSUME MapMoves
  PROVE  UNCHANGED <<descriptors, surprises>> \/ Refuse
BY DEF MapMoves

(* Every step of the loader leaves less to do.                             *)
LEMMA LoaderShrinks ==
  ASSUME LoaderTypeOK, LoaderTypeOK', LoaderNext
  PROVE  LoaderWork' < LoaderWork
<1>1. /\ stage \in Stages /\ loaded \in 0 .. Segments /\ Segments \in Nat
      /\ (mapSize < descriptors) \in BOOLEAN
  BY LoaderWorkTyped, Bounds
<1>2. /\ stage' \in Stages /\ loaded' \in 0 .. Segments
      /\ (mapSize < descriptors)' \in BOOLEAN
  BY DEF LoaderTypeOK
<1> DEFINE Saves == attempt' = attempt /\ surprises' = surprises /\ StageWork' < StageWork
           Pays == attempt' = attempt /\ Refuse /\ StageWork' <= StageWork + 2
<1>p. Saves \/ Pays => LoaderWork' < LoaderWork
  BY Paid
<1>w. /\ IsWeight(StageWork, stage, loaded, mapSize < descriptors)
      /\ IsWeight(StageWork', stage', loaded', (mapSize < descriptors)')
  BY <1>1, <1>2, Weights DEF StageWork
<1>3. stage' = "halted" => StageWork' = 0 /\ StageWork \in Nat
  BY <1>w, LoaderWorkTyped DEF IsWeight
<1>4. Refuse /\ stage' = "halted" /\ attempt' = attempt => Pays
  BY <1>3
<1>5. CASE FirmwareEvent
  <2>1. stage' = stage /\ loaded' = loaded /\ attempt' = attempt /\ Refuse
    BY <1>5 DEF FirmwareEvent
  <2>2. StageWork' <= StageWork + 2
    BY <1>1, <1>2, <2>1, WeightMoves DEF StageWork
  <2>. QED
    BY <1>p, <2>1, <2>2
<1>6. CASE GraphicsInit \/ AcpiFindRsdp \/ OpenKernel \/ ReadImage \/ AskMapSize
  <2>1. /\ attempt' = attempt
        /\ \/ /\ <<stage, stage'>> \in {<<"screen", "rsdp">>, <<"rsdp", "open">>, <<"open", "info">>,
                                      <<"read", "load">>, <<"size", "buffer">>}
              /\ surprises' = surprises /\ loaded' = loaded
           \/ Refuse /\ stage' = "halted"
    BY <1>6 DEF GraphicsInit, AcpiFindRsdp, Ask, OpenKernel, ReadImage, AskMapSize, Halt, MapStays
  <2>. QED
    BY <1>1, <1>2, <1>w, <1>4, <1>p, <2>1 DEF IsWeight
<1>7. CASE GetInfo \/ AllocateImage \/ FreeImage
  <2>1. /\ attempt' = attempt
        /\ \/ /\ \/ stage = "info" /\ stage' = "image"
                 \/ stage = "image" /\ stage' = "read"
                 \/ stage = "load" /\ loaded = Segments /\ stage' = "size"
              /\ surprises' = surprises \/ Refuse
           \/ Refuse /\ stage' = "halted"
    BY <1>7, Moved DEF GetInfo, AllocateImage, FreeImage, Halt
  <2>2. Refuse /\ stage' = "halted" => Pays
    BY <1>4, <2>1
  <2>3. CASE stage = "info" /\ stage' = "image"
    BY <1>1, <1>2, <1>w, <1>p, <2>1, <2>3 DEF IsWeight
  <2>. QED
    BY <1>1, <1>2, <1>w, <1>p, <2>1, <2>2, <2>3 DEF IsWeight
<1>8. CASE LoadSegment
  <2>1. /\ attempt' = attempt /\ stage = "load"
        /\ \/ /\ loaded' = loaded + 1 /\ stage' = "load"
              /\ surprises' = surprises \/ Refuse
           \/ Refuse /\ stage' = "halted"
    BY <1>8, Moved DEF LoadSegment, Halt
  <2>. QED
    BY <1>1, <1>2, <1>w, <1>4, <1>p, <2>1 DEF IsWeight
<1>9. CASE AllocateMap
  <2>1. /\ attempt' = attempt /\ stage = "buffer"
        /\ \/ /\ stage' = "map" /\ mapSize' = mapSize + 2
              /\ \/ descriptors' = descriptors /\ surprises' = surprises
                 \/ Refuse
           \/ Refuse /\ stage' = "halted"
    BY <1>9, Moved DEF AllocateMap, Halt, Pad
  <2>2. mapSize \in Nat /\ descriptors \in Nat
    BY Bounds DEF LoaderTypeOK, Pad
  <2>. QED
    BY <1>1, <1>2, <1>w, <1>4, <1>p, <2>1, <2>2 DEF IsWeight
<1>10. CASE GetMemoryMap
  <2>1. /\ attempt' = attempt /\ stage = "map"
        /\ \/ /\ ~(mapSize < descriptors) /\ stage' = "exit" /\ surprises' = surprises
           \/ /\ mapSize < descriptors /\ stage' = "buffer" /\ mapSize' = descriptors
              /\ \/ descriptors' = descriptors /\ surprises' = surprises
                 \/ Refuse
           \/ Refuse /\ stage' = "halted"
    BY <1>10, Moved, Bounds DEF GetMemoryMap, Halt, LoaderTypeOK, Pad
  <2>2. mapSize' = descriptors /\ descriptors' = descriptors => ~(mapSize < descriptors)'
    BY Bounds DEF LoaderTypeOK
  <2>. QED
    BY <1>1, <1>2, <1>w, <1>4, <1>p, <2>1, <2>2 DEF IsWeight
<1>11. CASE ExitBootServices
  <2>1. /\ attempt' = attempt /\ stage = "exit" /\ stage' \in {"jumped", "retry"}
        /\ surprises' = surprises \/ Refuse
    BY <1>11 DEF ExitBootServices
  <2>. QED
    BY <1>1, <1>2, <1>w, <1>p, <2>1 DEF IsWeight
<1>12. CASE Retry
  <2>1. /\ attempt' = attempt + 1 /\ stage = "retry" /\ stage' \in {"size", "halted"}
        /\ surprises' = surprises \/ Refuse
    BY <1>12, Moved DEF Retry, Again, Halt
  <2>2. StageWork' <= StageWork + 6
    BY <1>1, <1>2, <1>w, <2>1 DEF IsWeight
  <2>. QED
    BY <2>1, <2>2, Paid
<1>. QED
  BY <1>5, <1>6, <1>7, <1>8, <1>9, <1>10, <1>11, <1>12 DEF LoaderNext

LEMMA TableFinite ==
  ASSUME NEW t \in Tables, NEW S \in SUBSET DOMAIN t
  PROVE  IsFiniteSet(S) /\ Cardinality(S) \in Nat
<1>1. DOMAIN t = 1 .. Len(t) /\ Len(t) \in Int
  BY TablesAssumption
<1>2. IsFiniteSet(DOMAIN t)
  BY <1>1, FS_Interval
<1>. QED
  BY <1>2, FS_Subset, FS_CardinalityType

(* Every step of the kernel's loop leaves less to do.                      *)
LEMMA KernelShrinks ==
  ASSUME IInv, Next
  PROVE  KernelWork' < KernelWork
<1> DEFINE c == Cardinality(Left)
<1>1. table \in Tables /\ order \in Seq(Indices) /\ table' = table
  BY DEF IInv, TypeOK, Next, CheckTable, RunNode, Stuck, Finish
<1>2. IsFiniteSet(Left) /\ c \in Nat
  BY <1>1, TableFinite DEF Left, Indices
<1>3. CASE CheckTable
  <2>1. state = "start" /\ Left' = Left
    BY <1>3 DEF CheckTable, Left, Indices, Done
  <2>2. state' = "running" \/ state' \notin {"start", "running"}
    BY <1>3 DEF CheckTable
  <2>3. KernelWork = c + 2 /\ KernelWork' \in {c + 1, 0}
    BY <2>1, <2>2 DEF KernelWork
  <2> HIDE DEF c
  <2>. QED
    BY <1>2, <2>3
<1>4. CASE RunNode
  <2>1. PICK i \in Indices :
          /\ Best(i)
          /\ \/ order' = Append(order, i) /\ UNCHANGED state
             \/ state' = "failed" /\ UNCHANGED order
    BY <1>4 DEF RunNode
  <2>2. state = "running" /\ i \in Left
    BY <1>4, <2>1 DEF RunNode, Best, Ready, Left
  <2>3. KernelWork = c + 1
    BY <2>2 DEF KernelWork
  <2>4. CASE order' = Append(order, i) /\ UNCHANGED state
    <3>1. Done' = Done \cup {i}
      <4>1. /\ DOMAIN order' = 1 .. (Len(order) + 1)
            /\ DOMAIN order = 1 .. Len(order)
            /\ Len(order) \in Nat
            /\ \A p \in 1 .. Len(order) : order'[p] = order[p]
            /\ order'[Len(order) + 1] = i
        BY <1>1, <2>1, <2>4, AppendedOrder
      <4>. QED BY <4>1 DEF Done
    <3>2. Left' = Left \ {i}
      BY <1>1, <3>1 DEF Left, Indices
    <3>3. Cardinality(Left') = c - 1
      BY <1>2, <2>2, <3>2, FS_RemoveElement
    <3>4. KernelWork' = (c - 1) + 1
      BY <2>2, <2>4, <3>3 DEF KernelWork
    <3> HIDE DEF c
    <3>. QED
      BY <1>2, <2>3, <3>4
  <2>5. CASE state' = "failed"
    <3>1. KernelWork' = 0
      BY <2>5 DEF KernelWork
    <3> HIDE DEF c
    <3>. QED
      BY <1>2, <2>3, <3>1
  <2>. QED
    BY <2>1, <2>4, <2>5
<1>5. CASE Stuck \/ Finish
  <2>1. state = "running" /\ state' \in {"stuck", "finished"}
    BY <1>5 DEF Stuck, Finish
  <2>2. KernelWork = c + 1 /\ KernelWork' = 0
    BY <2>1 DEF KernelWork
  <2> HIDE DEF c
  <2>. QED
    BY <1>2, <2>2
<1>. QED
  BY <1>3, <1>4, <1>5 DEF Next

LEMMA BootWorkTyped ==
  ASSUME LoaderInv, IInv
  PROVE  LoaderWork \in Nat /\ KernelWork \in Nat /\ BootWork \in Nat
<1>1. LoaderWork \in Nat
  BY LoaderWorkTyped DEF LoaderInv
<1>2. Cardinality(Left) \in Nat
  BY TableFinite DEF IInv, TypeOK, Left, Indices
<1>3. KernelWork \in Nat
  <2> DEFINE c == Cardinality(Left)
  <2>1. KernelWork \in {c + 2, c + 1, 0}
    BY DEF KernelWork
  <2>2. c \in Nat
    BY <1>2
  <2> HIDE DEF c
  <2>. QED
    BY <2>1, <2>2
<1>. QED
  BY <1>1, <1>3 DEF BootWork

(* However firmware answers and whatever the table says, a boot never goes *)
(* round in circles: every step, of the loader and of the kernel's loop,   *)
(* leaves less to do than there was, and less than nothing there is not    *)
(* (Memory.c:46, XScope.C:98).                                             *)
THEOREM BootShrinks ==
  BootSpec => [](BootWork \in Nat) /\ [][BootWork' < BootWork]_bootVars
<1>1. BootInit => LoaderInv /\ IInv
  BY LoaderInvInit, InitIInv DEF BootInit
<1>2. LoaderInv /\ IInv /\ [Boot]_bootVars => LoaderInv' /\ IInv'
  BY BootInvStep, BootKeepsIInv
<1>3. LoaderInv /\ IInv => BootWork \in Nat
  BY BootWorkTyped
<1> DEFINE WorkTyped == LoaderWork \in Nat /\ KernelWork \in Nat
<1>t. LoaderInv /\ IInv => WorkTyped
  BY BootWorkTyped
<1> HIDE DEF WorkTyped
<1>n. LoaderInv' /\ IInv' => WorkTyped'
  BY <1>t, PTL
<1>4. LoaderInv /\ IInv /\ LoaderInv' /\ IInv' /\ [Boot]_bootVars => [BootWork' < BootWork]_bootVars
  <2> SUFFICES ASSUME LoaderInv, IInv, LoaderInv', IInv', Boot
               PROVE  BootWork' < BootWork
    BY DEF bootVars
  <2> DEFINE a == LoaderWork
             b == KernelWork
             d == LoaderWork'
             e == KernelWork'
  <2>1. a \in Nat /\ b \in Nat
    BY BootWorkTyped
  <2>2. LoaderTypeOK /\ LoaderTypeOK'
    BY DEF LoaderInv
  <2>3. \/ d < a /\ e = b
        \/ d = a /\ e < b
    <3>1. CASE UefiMain
      BY <3>1, <2>2, LoaderShrinks DEF UefiMain, vars, KernelWork, Left, Indices, Done
    <3>2. CASE KernelMain
      BY <3>2, KernelShrinks DEF KernelMain, loaderVars, LoaderWork, StageWork
    <3>. QED
      BY <3>1, <3>2 DEF Boot
  <2>4. BootWork = a + b /\ BootWork' = d + e
    BY DEF BootWork
  <2>5. d \in Nat /\ e \in Nat
    BY <1>n DEF WorkTyped
  <2> HIDE DEF a, b, d, e
  <2>. QED
    BY <2>1, <2>3, <2>4, <2>5
<1>. QED
  BY <1>1, <1>2, <1>3, <1>4, PTL DEF BootSpec

(* Of the nodes that are ready one is the best: the one with the fewest    *)
(* ready nodes before it.                                                  *)
LEMMA SomebodyIsBest ==
  ASSUME IInv, NEW i \in Indices, Ready(i)
  PROVE  \E j \in Indices : Best(j)
<1> DEFINE R == {j \in Indices : Ready(j)}
           Before(j) == {n \in R : Precedes(table, n, j)}
           N == {Cardinality(Before(j)) : j \in R}
           Lt == OpToRel(<, Nat)
<1>1. table \in Tables /\ table \in Seq(Node) /\ Indices = 1 .. Len(table)
  BY TablesAssumption DEF IInv, TypeOK, Indices
<1>2. \A j \in Indices : table[j].priority \in Int /\ j \in Int
  <2>1. \A j \in Indices : table[j] \in Node
    BY <1>1
  <2>. QED BY <1>1, <2>1 DEF Node
<1>3. \A j \in R : IsFiniteSet(Before(j)) /\ Cardinality(Before(j)) \in Nat
  <2>1. \A j \in R : Before(j) \in SUBSET DOMAIN table
    BY DEF Indices
  <2>. QED BY <1>1, <2>1, TableFinite
<1>4. Cardinality(Before(i)) \in N /\ N \subseteq Nat
  <2>1. i \in R
    OBVIOUS
  <2> HIDE DEF R, Before
  <2>. QED BY <1>3, <2>1
<1>5. PICK n \in N : \A m \in Nat : m < n => m \notin N
  <2> HIDE DEF N
  <2>1. IsWellFoundedOn(Lt, Nat)
    BY NatLessThanWellFounded
  <2>2. \E n \in N : \A m \in Nat : <<m, n>> \in Lt => m \notin N
    BY <2>1, <1>4, WFMin
  <2>. QED BY <1>4, <2>2 DEF OpToRel
<1>6. PICK b \in R : Cardinality(Before(b)) = n
  BY <1>5
<1>7. ASSUME NEW j \in R, j # b, ~Precedes(table, b, j)
      PROVE  FALSE
  <2>1. Precedes(table, j, b)
    BY <1>2, <1>7 DEF Precedes
  <2>2. Before(j) \subseteq Before(b)
    <3>1. ASSUME NEW m \in Indices, Precedes(table, m, j)
          PROVE  Precedes(table, m, b)
      BY <1>2, <2>1, <3>1 DEF Precedes
    <3>. QED BY <3>1
  <2>3. j \in Before(b) /\ j \notin Before(j)
    BY <1>2, <2>1 DEF Precedes
  <2>4. /\ Cardinality(Before(j)) <= Cardinality(Before(b))
        /\ Cardinality(Before(j)) # Cardinality(Before(b))
    <3> HIDE DEF Before
    <3>1. /\ Cardinality(Before(j)) <= Cardinality(Before(b))
          /\ Cardinality(Before(b)) = Cardinality(Before(j)) => Before(b) = Before(j)
      BY <1>3, <2>2, FS_Subset
    <3>. QED BY <2>3, <3>1
  <2>5. Cardinality(Before(j)) \in Nat /\ Cardinality(Before(b)) \in Nat
        /\ Cardinality(Before(j)) \in N
    <3> HIDE DEF R, Before
    <3>. QED BY <1>3
  <2> HIDE DEF R, Before, N
  <2>. QED
    BY <1>5, <1>6, <2>4, <2>5
<1>8. Best(b)
  <2>1. ASSUME NEW j \in Indices \ {b}, Ready(j) PROVE Ahead(b, j)
    BY <1>7, <2>1 DEF Ahead
  <2>. QED BY <2>1 DEF Best
<1>. QED
  BY <1>8

(* While the loop runs it can always go on: there is a best node to        *)
(* initialise, or everything is done, or nothing is ready and it halts.    *)
(* What it does next is one thing only (XScope.C:98-146).                  *)
THEOREM LoopAlwaysMoves ==
  BootSpec => [](state = "running" =>
                   \/ \E i \in Indices : Best(i) /\ \A j \in Indices : Best(j) => j = i
                   \/ Done = Indices
                   \/ Done # Indices /\ \A i \in Indices : ~Ready(i))
<1> DEFINE Moves == \/ \E i \in Indices : Best(i) /\ \A j \in Indices : Best(j) => j = i
                    \/ Done = Indices
                    \/ Done # Indices /\ \A i \in Indices : ~Ready(i)
<1>1. BootInit => IInv
  BY InitIInv DEF BootInit
<1>2. ASSUME IInv, state = "running" PROVE Moves
  <2>1. CASE \A i \in Indices : ~Ready(i)
    BY <2>1
  <2>2. CASE \E i \in Indices : Ready(i)
    <3>1. PICK b \in Indices : Best(b)
      BY <1>2, <2>2, SomebodyIsBest
    <3>2. ASSUME NEW j \in Indices, Best(j), j # b PROVE FALSE
      <4>1. Precedes(table, b, j) /\ Precedes(table, j, b)
        BY <3>1, <3>2 DEF Best, Ahead
      <4>2. \A n \in Indices : table[n].priority \in Int /\ n \in Int
        <5>1. table \in Seq(Node)
          BY <1>2, TablesAssumption DEF IInv, TypeOK
        <5>2. \A n \in Indices : table[n] \in Node /\ n \in Int
          BY <5>1 DEF Indices
        <5>. QED BY <5>2 DEF Node
      <4>. QED BY <4>1, <4>2 DEF Precedes
    <3>. QED BY <3>1, <3>2
  <2>. QED BY <2>1, <2>2
<1> HIDE DEF Moves
<1>3. IInv => (state = "running" => Moves)
  BY <1>2
<1>. QED
  BY <1>1, <1>3, BootKeepsIInv, PTL DEF BootSpec, Moves

-----------------------------------------------------------------------------
(* The console.  ScreenShowsBuffer speaks of the moments when nobody       *)
(* prints; ScreenInv says what holds between any two writes.               *)

(* A row that is drawn as the buffer has it, one that the next redraw will *)
(* draw, and one that the fault found half written.                        *)
Shown(r) == back[r] = Drawn(buffer[r])
IsDirty(r) == 0 <= top /\ top <= r /\ r <= bottom
Excused(r) == faulted /\ r = struck

Covered == \A r \in Rows : Shown(r) \/ IsDirty(r) \/ Excused(r)
CoveredBut(x) == \A r \in Rows : Shown(r) \/ IsDirty(r) \/ Excused(r) \/ r = x

Marking == {"mark", "markTop", "markBottom"}
Scrolling == {"scroll", "markAll", "allMarked"}
PCs == {"idle", "print", "lineFeed", "cell", "terminator", "redraw", "clean", "present",
        "halted"} \cup Marking \cup Scrolling

(* The fault has been entered and its first line feed is still to come.    *)
Undecided == faulted /\ todo = Message

(* The types, part by part: the cursor, the marks, the surfaces, and what  *)
(* is being done.                                                          *)
CursorTyped == row \in 0 .. (ConsoleRows + 1) /\ col \in 0 .. ConsoleCols
MarksTyped == top \in -1 .. (ConsoleRows - 1) /\ bottom \in -1 .. (ConsoleRows - 1)
BufferTyped ==
  buffer \in [Rows -> [Cells -> Glyphs \cup {NUL}]] /\ \A r \in Rows : buffer[r][ConsoleCols] = NUL
SurfacesTyped == back \in [Rows -> Seq(Glyphs)] /\ front \in [Rows -> Seq(Glyphs)]
SwitchesTyped == ready \in BOOLEAN /\ faulted \in BOOLEAN /\ char \in Glyphs \cup {NUL}

PcTyped ==
  /\ pc \in PCs /\ then \in {"print", "lineFeed", "cell"}
  /\ k \in Nat

TodoTyped == todo \in Seq(Glyphs \cup {LF, CR})

(* Before the console is there, nothing has been written.                  *)
Unwritten ==
  ~ready => /\ ~faulted /\ pc \in {"idle", "present"} /\ row = 0 /\ top = -1
            /\ \A r \in Rows : buffer[r] = Blank /\ back[r] = <<>> /\ front[r] = <<>>

(* The cursor stands below the last row only while it scrolls.             *)
CursorInPlace ==
  /\ pc \in {"idle", "lineFeed", "cell", "terminator", "redraw", "clean", "present"} \cup Marking
       /\ ~faulted => row \in Rows
  /\ pc \in {"cell", "terminator"} \cup Marking => row \in Rows
  /\ pc = "print" => row \in Rows \/ (Undecided /\ row <= ConsoleRows)
  /\ pc = "lineFeed" => row <= ConsoleRows
  /\ pc = "scroll" => row \in {ConsoleRows, ConsoleRows + 1} /\ k < ConsoleRows
  /\ pc \in {"markAll", "allMarked"} => row \in {ConsoleRows - 1, ConsoleRows}
  /\ pc \in Scrolling /\ ~faulted => row <= ConsoleRows
  /\ pc = "allMarked" => top = 0

(* The character that waits for its cell has one.                          *)
CharFits ==
  /\ pc = "cell" => char # NUL
  /\ pc \in Marking /\ then = "cell" => char # NUL
  /\ pc \in Marking /\ then = "print" => char = NUL
  /\ pc \in {"idle", "print", "redraw", "clean", "present", "halted"} => char = NUL
  /\ char # NUL /\ pc # "terminator" => col < ConsoleCols

(* What is not on the surface is marked, or about to be.                   *)
DrawnOrDirty ==
  /\ pc = "print" /\ row < ConsoleRows - 1 => Covered
  /\ pc = "print" /\ ~Undecided => Covered
  /\ pc = "lineFeed" /\ row < ConsoleRows - 1 => Covered
  /\ pc \in {"cell", "redraw", "clean", "present", "idle", "halted"} => Covered
  /\ pc \in {"terminator"} \cup Marking => CoveredBut(row)
  /\ pc = "markTop" => top < 0 /\ bottom = row
  /\ pc = "markBottom" => 0 <= top /\ top <= row
  /\ pc = "redraw" => /\ 0 <= top /\ top <= k
                      /\ \A r \in Rows : top <= r /\ r < k => Shown(r)
  /\ pc \in {"clean", "present"} => top = -1

(* What is on the surface is on the screen, as far as it has been copied.  *)
Copied ==
  /\ pc = "present" => k <= ConsoleRows
  /\ pc \in {"idle", "halted"} => /\ pc = "halted" <=> faulted
                                 /\ \A r \in Rows : Shown(r) \/ Excused(r)
  /\ pitch = "tight" =>
       /\ pc = "present" => \A r \in Rows : r < k => front[r] = back[r]
       /\ pc \in {"idle", "halted"} => \A r \in Rows : front[r] = back[r]

ScreenInv ==
  /\ CursorTyped
  /\ MarksTyped
  /\ BufferTyped
  /\ SurfacesTyped
  /\ SwitchesTyped
  /\ PcTyped
  /\ TodoTyped
  /\ Unwritten
  /\ CursorInPlace
  /\ CharFits
  /\ DrawnOrDirty
  /\ Copied

-----------------------------------------------------------------------------
(* The screen is not empty.                                                *)
LEMMA Sizes ==
  ConsoleRows \in Nat /\ 1 <= ConsoleRows /\ ConsoleCols \in Nat /\ 1 <= ConsoleCols
<1>1. \A n \in {ConsoleRows, ConsoleCols} : n \in Nat \ {0}
  BY ConsoleAssumption
<1>2. \A n \in Nat \ {0} : 1 <= n
  OBVIOUS
<1> QED BY <1>1, <1>2

(* A row ends at its first NUL, and the last cell of a row is one.         *)
LEMMA RowEnds ==
  ASSUME NEW cells \in [Cells -> Glyphs \cup {NUL}], cells[ConsoleCols] = NUL
  PROVE  /\ Length(cells) \in Cells /\ cells[Length(cells)] = NUL
         /\ \A c \in 0 .. (Length(cells) - 1) : cells[c] # NUL
<1> DEFINE Lt == OpToRel(<, Nat)
           Ends == {n \in Cells : cells[n] = NUL}
<1>1. IsWellFoundedOn(Lt, Nat)
  BY NatLessThanWellFounded
<1>2. Ends \subseteq Nat /\ Ends # {}
  BY Sizes DEF Cells
<1>3. PICK n \in Ends : \A m \in Ends : ~ (<<m, n>> \in Lt)
  <2> HIDE DEF Lt, Ends
  <2>. QED BY <1>1, <1>2, WFMin
<1>4. ASSUME NEW c \in 0 .. (n - 1) PROVE cells[c] # NUL
  <2>1. n \in Nat /\ c \in Nat /\ c < n /\ n <= ConsoleCols /\ c \in Cells
    BY Sizes DEF Cells
  <2>2. <<c, n>> \in Lt
    BY <2>1 DEF OpToRel
  <2>. QED BY <1>3, <2>1, <2>2
<1>5. n \in Cells /\ cells[n] = NUL
  OBVIOUS
<1>. QED BY <1>4, <1>5 DEF Length

(* What is drawn of a row is a string of glyphs, of an empty row nothing.  *)
LEMMA DrawnTyped ==
  ASSUME NEW cells \in [Cells -> Glyphs \cup {NUL}], cells[ConsoleCols] = NUL
  PROVE  Drawn(cells) \in Seq(Glyphs)
<1> DEFINE n == Length(cells)
<1>1. n \in Cells /\ \A c \in 0 .. (n - 1) : cells[c] # NUL
  BY RowEnds
<1>2. n \in Nat /\ n <= ConsoleCols
  BY <1>1, Sizes DEF Cells
<1> HIDE DEF n
<1>3. ASSUME NEW i \in 1 .. n PROVE cells[i - 1] \in Glyphs
  <2>1. i - 1 \in 0 .. (n - 1) /\ i - 1 \in Cells
    BY <1>2, Sizes DEF Cells
  <2>. QED BY <1>1, <2>1
<1>4. [i \in 1 .. n |-> cells[i - 1]] \in Seq(Glyphs)
  BY <1>2, <1>3
<1>. QED BY <1>4 DEF Drawn, n

LEMMA BlankDrawn ==
  /\ Blank \in [Cells -> Glyphs \cup {NUL}] /\ Blank[ConsoleCols] = NUL
  /\ Drawn(Blank) = <<>>
<1>1. Blank \in [Cells -> Glyphs \cup {NUL}] /\ Blank[ConsoleCols] = NUL /\ Blank[0] = NUL
  BY Sizes DEF Blank, Cells
<1>2. Length(Blank) \in Cells /\ \A c \in 0 .. (Length(Blank) - 1) : Blank[c] # NUL
  BY <1>1, RowEnds
<1>3. Length(Blank) = 0
  <2>1. Length(Blank) \in Nat
    BY <1>2, Sizes DEF Cells
  <2>2. Length(Blank) # 0 => 0 \in 0 .. (Length(Blank) - 1)
    BY <2>1
  <2>. QED BY <1>1, <1>2, <2>1, <2>2
<1>4. Drawn(Blank) = [i \in 1 .. 0 |-> Blank[i - 1]]
  BY <1>3 DEF Drawn
<1>. QED BY <1>1, <1>4

(* What the fault prints begins with a line feed, which is none of the     *)
(* others.                                                                 *)
LEMMA MessageFacts ==
  /\ Message \in Seq(Glyphs \cup {LF, CR}) /\ Message # <<>> /\ Head(Message) = LF
  /\ LF \notin Glyphs /\ NUL \notin Glyphs /\ LF # CR /\ LF # TAB
BY ConsoleAssumption

(* A tab goes to a column.                                                 *)
LEMMA StopTyped == ASSUME NEW c \in Nat PROVE Stop(c) \in Nat
<1>1. \A w \in {CONSOLE_DEFAULT_TAB_WIDTH} : w \in Nat \ {0}
  BY ConsoleAssumption
<1>2. c \div CONSOLE_DEFAULT_TAB_WIDTH \in Nat
  BY <1>1
<1> QED BY <1>1, <1>2 DEF Stop

(* Anything but a line feed is printed only where the cursor is in place,  *)
(* since the message of a fault begins with one.                           *)
LEMMA PrintedInPlace ==
  ASSUME ScreenInv, NEW c, Printing(c), c # LF
  PROVE  ~Undecided /\ row \in Rows /\ Covered
<1>1. ~Undecided
  BY MessageFacts DEF Printing, Undecided
<1>2. pc = "print"
  BY DEF Printing
<1> QED BY <1>1, <1>2 DEF ScreenInv, CursorInPlace, DrawnOrDirty

-----------------------------------------------------------------------------
(* What each write does to what holds between writes, in the order of the  *)
(* module.                                                                 *)
LEMMA ConsoleInitKeeps ==
  ASSUME ScreenInv, ConsoleInit
  PROVE  ScreenInv'
<1>1. CursorTyped'
  BY DEF ScreenInv, CursorTyped, ConsoleInit
<1>2. MarksTyped'
  BY Sizes DEF MarksTyped, ConsoleInit
<1>3. BufferTyped'
  BY DEF ScreenInv, BufferTyped, ConsoleInit
<1>4. SurfacesTyped'
  BY DEF ScreenInv, SurfacesTyped, ConsoleInit
<1>5. SwitchesTyped'
  BY DEF ScreenInv, SwitchesTyped, ConsoleInit, caller
<1>6. PcTyped'
  BY DEF ScreenInv, PcTyped, ConsoleInit
<1>7. TodoTyped'
  BY DEF ScreenInv, TodoTyped, ConsoleInit, caller
<1>8. Unwritten'
  BY DEF Unwritten, ConsoleInit
<1>9. CursorInPlace'
  BY DEF ScreenInv, CursorInPlace, ConsoleInit
<1>10. CharFits'
  BY DEF ScreenInv, CharFits, ConsoleInit
<1>11. DrawnOrDirty'
  BY Sizes DEF ScreenInv, CursorTyped, MarksTyped, SurfacesTyped, CursorInPlace, DrawnOrDirty,
    Unwritten, Covered, CoveredBut, Shown, ConsoleInit
<1>12. Copied'
  BY DEF ScreenInv, Copied, Shown, Excused, ConsoleInit, caller
<1> QED BY <1>1, <1>2, <1>3, <1>4, <1>5, <1>6, <1>7, <1>8, <1>9, <1>10, <1>11, <1>12 DEF ScreenInv

LEMMA PrintkKeeps ==
  ASSUME ScreenInv, Printk
  PROVE  ScreenInv'
<1>1. CursorTyped'
  BY DEF ScreenInv, CursorTyped, Printk
<1>2. MarksTyped'
  BY DEF ScreenInv, MarksTyped, Printk
<1>3. BufferTyped'
  BY DEF ScreenInv, BufferTyped, Printk
<1>4. SurfacesTyped'
  BY DEF ScreenInv, SurfacesTyped, Printk, surfaces
<1>5. SwitchesTyped'
  BY DEF ScreenInv, SwitchesTyped, Printk, surfaces, caller
<1>6. PcTyped'
  BY DEF ScreenInv, PcTyped, PCs, Printk
<1>7. TodoTyped'
  BY DEF ScreenInv, TodoTyped, Printk, caller
<1>8. Unwritten'
  BY DEF ScreenInv, Unwritten, Printk, surfaces, caller
<1>9. CursorInPlace'
  BY Sizes DEF ScreenInv, CursorInPlace, Rows, Printk
<1>10. CharFits'
  BY DEF ScreenInv, CharFits, Marking, Printk
<1>11. DrawnOrDirty'
  BY DEF ScreenInv, DrawnOrDirty, Unwritten, Covered, CoveredBut, Shown, IsDirty, Excused,
    Printk, surfaces
<1>12. Copied'
  BY Sizes DEF Copied, Rows, Printk
<1> QED BY <1>1, <1>2, <1>3, <1>4, <1>5, <1>6, <1>7, <1>8, <1>9, <1>10, <1>11, <1>12 DEF ScreenInv

LEMMA FaultKeeps ==
  ASSUME ScreenInv, Fault
  PROVE  ScreenInv'
<1>1. CursorTyped'
  BY DEF ScreenInv, CursorTyped, Fault
<1>2. MarksTyped'
  BY DEF ScreenInv, MarksTyped, Fault
<1>3. BufferTyped'
  BY DEF ScreenInv, BufferTyped, Fault
<1>4. SurfacesTyped'
  BY DEF ScreenInv, SurfacesTyped, Fault, surfaces
<1>5. SwitchesTyped'
  BY DEF SwitchesTyped, Fault, surfaces
<1>6. PcTyped'
  BY DEF ScreenInv, PcTyped, PCs, Fault
<1>7. TodoTyped'
  BY MessageFacts DEF TodoTyped, Fault
<1>8. Unwritten'
  BY DEF Unwritten, Fault, surfaces
<1>9. CursorInPlace'
  BY DEF ScreenInv, PcTyped, CursorInPlace, Copied, Undecided, Marking, PCs, Fault
<1>10. CharFits'
  BY DEF CharFits, Marking, Fault
<1>11. DrawnOrDirty'
  BY Sizes DEF ScreenInv, PcTyped, CursorInPlace, DrawnOrDirty, Undecided, Covered, CoveredBut,
    Shown, IsDirty, Excused, Marking, Scrolling, PCs, Fault, surfaces
<1>12. Copied'
  BY DEF Copied, Fault
<1> QED BY <1>1, <1>2, <1>3, <1>4, <1>5, <1>6, <1>7, <1>8, <1>9, <1>10, <1>11, <1>12 DEF ScreenInv

LEMMA PutLineFeedKeeps ==
  ASSUME ScreenInv, PutLineFeed
  PROVE  ScreenInv'
<1>1. CursorTyped'
  BY DEF ScreenInv, CursorTyped, PutLineFeed
<1>2. MarksTyped'
  BY DEF ScreenInv, MarksTyped, PutLineFeed
<1>3. BufferTyped'
  BY DEF ScreenInv, BufferTyped, PutLineFeed
<1>4. SurfacesTyped'
  BY DEF ScreenInv, SurfacesTyped, PutLineFeed, surfaces
<1>5. SwitchesTyped'
  BY DEF ScreenInv, SwitchesTyped, PutLineFeed, Printing, surfaces
<1>6. PcTyped'
  BY DEF ScreenInv, PcTyped, PCs, PutLineFeed
<1>7. TodoTyped'
  BY DEF ScreenInv, TodoTyped, PutLineFeed, Printing
<1>8. Unwritten'
  BY DEF ScreenInv, Unwritten, PutLineFeed, Printing, surfaces
<1>9. CursorInPlace'
  BY Sizes DEF ScreenInv, CursorInPlace, Undecided, Rows, Marking, PutLineFeed, Printing
<1>10. CharFits'
  BY DEF ScreenInv, CharFits, Marking, PutLineFeed, Printing
<1>11. DrawnOrDirty'
  BY DEF ScreenInv, DrawnOrDirty, Covered, Shown, IsDirty, Excused, Marking, PutLineFeed,
    Printing, surfaces
<1>12. Copied'
  BY DEF Copied, PutLineFeed
<1> QED BY <1>1, <1>2, <1>3, <1>4, <1>5, <1>6, <1>7, <1>8, <1>9, <1>10, <1>11, <1>12 DEF ScreenInv

LEMMA PutCarriageReturnKeeps ==
  ASSUME ScreenInv, PutCarriageReturn
  PROVE  ScreenInv'
<1>1. CursorTyped'
  BY Sizes DEF ScreenInv, CursorTyped, PutCarriageReturn
<1>2. MarksTyped'
  BY DEF ScreenInv, MarksTyped, PutCarriageReturn
<1>3. BufferTyped'
  BY DEF ScreenInv, BufferTyped, PutCarriageReturn
<1>4. SurfacesTyped'
  BY DEF ScreenInv, SurfacesTyped, PutCarriageReturn, surfaces
<1>5. SwitchesTyped'
  BY DEF ScreenInv, SwitchesTyped, PutCarriageReturn, Printing, surfaces
<1>6. PcTyped'
  BY DEF ScreenInv, PcTyped, Marking, PCs, PutCarriageReturn, Mark
<1>7. TodoTyped'
  BY DEF ScreenInv, TodoTyped, PutCarriageReturn, Printing
<1>8. Unwritten'
  BY DEF ScreenInv, Unwritten, PutCarriageReturn, Printing, surfaces
<1>9. CursorInPlace'
  BY Sizes, MessageFacts, PrintedInPlace DEF CursorInPlace, Rows, PutCarriageReturn, Mark
<1>10. CharFits'
  BY DEF ScreenInv, CharFits, PutCarriageReturn, Printing, Mark
<1>11. DrawnOrDirty'
  BY MessageFacts, PrintedInPlace DEF DrawnOrDirty, Covered, CoveredBut, Shown, IsDirty, Excused,
    PutCarriageReturn, Printing, Mark, surfaces
<1>12. Copied'
  BY DEF Copied, PutCarriageReturn, Mark
<1> QED BY <1>1, <1>2, <1>3, <1>4, <1>5, <1>6, <1>7, <1>8, <1>9, <1>10, <1>11, <1>12 DEF ScreenInv

LEMMA PutTabKeeps ==
  ASSUME ScreenInv, PutTab
  PROVE  ScreenInv'
<1>1. CursorTyped'
  <2>1. col \in Nat /\ Stop(col) \in Nat
    BY StopTyped DEF ScreenInv, CursorTyped
  <2> QED BY <2>1, Sizes DEF ScreenInv, CursorTyped, PutTab
<1>2. MarksTyped'
  BY DEF ScreenInv, MarksTyped, PutTab
<1>3. BufferTyped'
  BY DEF ScreenInv, BufferTyped, PutTab
<1>4. SurfacesTyped'
  BY DEF ScreenInv, SurfacesTyped, PutTab, surfaces
<1>5. SwitchesTyped'
  BY DEF ScreenInv, SwitchesTyped, PutTab, Printing, surfaces
<1>6. PcTyped'
  BY DEF ScreenInv, PcTyped, Marking, PCs, PutTab, Mark
<1>7. TodoTyped'
  BY DEF ScreenInv, TodoTyped, PutTab, Printing
<1>8. Unwritten'
  BY DEF ScreenInv, Unwritten, PutTab, Printing, surfaces
<1>9. CursorInPlace'
  BY MessageFacts, PrintedInPlace DEF CursorInPlace, Scrolling, PutTab, Mark
<1>10. CharFits'
  BY DEF ScreenInv, CharFits, PutTab, Printing, Mark
<1>11. DrawnOrDirty'
  BY MessageFacts, PrintedInPlace DEF DrawnOrDirty, Covered, CoveredBut, Shown, IsDirty, Excused,
    PutTab, Printing, Mark, surfaces
<1>12. Copied'
  BY DEF Copied, PutTab, Mark
<1> QED BY <1>1, <1>2, <1>3, <1>4, <1>5, <1>6, <1>7, <1>8, <1>9, <1>10, <1>11, <1>12 DEF ScreenInv

LEMMA PutGlyphKeeps ==
  ASSUME ScreenInv, NEW c \in Glyphs, PutGlyph(c)
  PROVE  ScreenInv'
<1>1. CursorTyped'
  BY Sizes DEF ScreenInv, CursorTyped, PutGlyph
<1>2. MarksTyped'
  BY DEF ScreenInv, MarksTyped, PutGlyph
<1>3. BufferTyped'
  BY DEF ScreenInv, BufferTyped, PutGlyph
<1>4. SurfacesTyped'
  BY DEF ScreenInv, SurfacesTyped, PutGlyph, surfaces
<1>5. SwitchesTyped'
  BY DEF ScreenInv, SwitchesTyped, PutGlyph, Printing, surfaces
<1>6. PcTyped'
  BY DEF ScreenInv, PcTyped, Marking, PCs, PutGlyph, Mark
<1>7. TodoTyped'
  BY DEF ScreenInv, TodoTyped, PutGlyph, Printing, Mark
<1>8. Unwritten'
  BY DEF ScreenInv, Unwritten, PutGlyph, Printing, surfaces
<1>9. CursorInPlace'
  BY Sizes, MessageFacts, PrintedInPlace DEF CursorInPlace, Rows, PutGlyph, Mark
<1>10. CharFits'
  BY Sizes, MessageFacts DEF ScreenInv, CursorTyped, CharFits, Marking, PutGlyph, Mark
<1>11. DrawnOrDirty'
  BY MessageFacts, PrintedInPlace DEF DrawnOrDirty, Covered, CoveredBut, Shown, IsDirty, Excused,
    PutGlyph, Printing, Mark, surfaces
<1>12. Copied'
  BY DEF Copied, PutGlyph, Mark
<1> QED BY <1>1, <1>2, <1>3, <1>4, <1>5, <1>6, <1>7, <1>8, <1>9, <1>10, <1>11, <1>12 DEF ScreenInv

LEMMA ConsoleLineFeedKeeps ==
  ASSUME ScreenInv, ConsoleLineFeed
  PROVE  ScreenInv'
<1>1. CursorTyped'
  BY Sizes DEF ScreenInv, CursorTyped, CursorInPlace, ConsoleLineFeed
<1>2. MarksTyped'
  BY DEF ScreenInv, MarksTyped, ConsoleLineFeed
<1>3. BufferTyped'
  BY DEF ScreenInv, BufferTyped, ConsoleLineFeed
<1>4. SurfacesTyped'
  BY DEF ScreenInv, SurfacesTyped, ConsoleLineFeed, surfaces
<1>5. SwitchesTyped'
  BY DEF ScreenInv, SwitchesTyped, ConsoleLineFeed, surfaces, caller
<1>6. PcTyped'
  BY DEF ScreenInv, PcTyped, Marking, Scrolling, PCs, ConsoleLineFeed, Mark, AfterLine
<1>7. TodoTyped'
  BY DEF ScreenInv, TodoTyped, ConsoleLineFeed, caller
<1>8. Unwritten'
  BY DEF ScreenInv, Unwritten, ConsoleLineFeed, surfaces
<1>9. CursorInPlace'
  BY Sizes DEF ScreenInv, CursorTyped, CursorInPlace, Rows, Marking, ConsoleLineFeed, Mark, caller
<1>10. CharFits'
  BY DEF ScreenInv, CharFits, Marking, ConsoleLineFeed, Mark, AfterLine
<1>11. DrawnOrDirty'
  BY Sizes DEF ScreenInv, CursorTyped, DrawnOrDirty, Covered, CoveredBut, Shown, IsDirty,
    Excused, Marking, ConsoleLineFeed, Mark, surfaces, caller
<1>12. Copied'
  BY Sizes DEF ScreenInv, SurfacesTyped, PcTyped, DrawnOrDirty, Copied, Covered, IsDirty,
    Excused, Rows, Marking, PCs, ConsoleLineFeed
<1> QED BY <1>1, <1>2, <1>3, <1>4, <1>5, <1>6, <1>7, <1>8, <1>9, <1>10, <1>11, <1>12 DEF ScreenInv

LEMMA ScrollRowKeeps ==
  ASSUME ScreenInv, ScrollRow
  PROVE  ScreenInv'
<1>1. CursorTyped'
  BY DEF ScreenInv, CursorTyped, ScrollRow
<1>2. MarksTyped'
  BY DEF ScreenInv, MarksTyped, ScrollRow
<1>3. BufferTyped'
  BY Sizes DEF ScreenInv, BufferTyped, PcTyped, Rows, ScrollRow
<1>4. SurfacesTyped'
  BY DEF ScreenInv, SurfacesTyped, ScrollRow, surfaces
<1>5. SwitchesTyped'
  BY DEF ScreenInv, SwitchesTyped, ScrollRow, surfaces, caller
<1>6. PcTyped'
  BY DEF ScreenInv, PcTyped, ScrollRow
<1>7. TodoTyped'
  BY DEF ScreenInv, TodoTyped, ScrollRow, caller
<1>8. Unwritten'
  BY DEF ScreenInv, Unwritten, ScrollRow, surfaces
<1>9. CursorInPlace'
  BY Sizes DEF ScreenInv, PcTyped, CursorInPlace, ScrollRow, caller
<1>10. CharFits'
  BY DEF ScreenInv, CharFits, ScrollRow
<1>11. DrawnOrDirty'
  BY DEF DrawnOrDirty, Marking, ScrollRow
<1>12. Copied'
  BY DEF Copied, ScrollRow
<1> QED BY <1>1, <1>2, <1>3, <1>4, <1>5, <1>6, <1>7, <1>8, <1>9, <1>10, <1>11, <1>12 DEF ScreenInv

LEMMA ScrollEndsKeeps ==
  ASSUME ScreenInv, ScrollEnds
  PROVE  ScreenInv'
<1>1. CursorTyped'
  BY Sizes DEF ScreenInv, CursorTyped, ScrollEnds
<1>2. MarksTyped'
  BY DEF ScreenInv, MarksTyped, ScrollEnds
<1>3. BufferTyped'
  BY Sizes DEF ScreenInv, BufferTyped, Rows, Cells, Blank, ScrollEnds
<1>4. SurfacesTyped'
  BY DEF ScreenInv, SurfacesTyped, ScrollEnds, surfaces
<1>5. SwitchesTyped'
  BY DEF ScreenInv, SwitchesTyped, ScrollEnds, surfaces, caller
<1>6. PcTyped'
  BY DEF ScreenInv, PcTyped, Scrolling, PCs, ScrollEnds
<1>7. TodoTyped'
  BY DEF ScreenInv, TodoTyped, ScrollEnds, caller
<1>8. Unwritten'
  BY DEF ScreenInv, Unwritten, ScrollEnds, surfaces
<1>9. CursorInPlace'
  BY Sizes DEF ScreenInv, CursorInPlace, Marking, ScrollEnds
<1>10. CharFits'
  BY DEF ScreenInv, CharFits, Marking, ScrollEnds
<1>11. DrawnOrDirty'
  BY DEF DrawnOrDirty, Marking, ScrollEnds
<1>12. Copied'
  BY DEF Copied, ScrollEnds
<1> QED BY <1>1, <1>2, <1>3, <1>4, <1>5, <1>6, <1>7, <1>8, <1>9, <1>10, <1>11, <1>12 DEF ScreenInv

LEMMA MarkAllDirtyKeeps ==
  ASSUME ScreenInv, MarkAllDirty
  PROVE  ScreenInv'
<1>1. CursorTyped'
  BY DEF ScreenInv, CursorTyped, MarkAllDirty
<1>2. MarksTyped'
  BY Sizes DEF ScreenInv, MarksTyped, MarkAllDirty
<1>3. BufferTyped'
  BY DEF ScreenInv, BufferTyped, MarkAllDirty
<1>4. SurfacesTyped'
  BY DEF ScreenInv, SurfacesTyped, MarkAllDirty, surfaces
<1>5. SwitchesTyped'
  BY DEF ScreenInv, SwitchesTyped, MarkAllDirty, surfaces, caller
<1>6. PcTyped'
  BY DEF ScreenInv, PcTyped, Scrolling, PCs, MarkAllDirty
<1>7. TodoTyped'
  BY DEF ScreenInv, TodoTyped, MarkAllDirty, caller
<1>8. Unwritten'
  BY DEF ScreenInv, Unwritten, MarkAllDirty, surfaces
<1>9. CursorInPlace'
  BY Sizes DEF ScreenInv, CursorInPlace, Marking, MarkAllDirty
<1>10. CharFits'
  BY DEF ScreenInv, CharFits, Marking, MarkAllDirty
<1>11. DrawnOrDirty'
  BY DEF DrawnOrDirty, Marking, MarkAllDirty
<1>12. Copied'
  BY DEF Copied, MarkAllDirty
<1> QED BY <1>1, <1>2, <1>3, <1>4, <1>5, <1>6, <1>7, <1>8, <1>9, <1>10, <1>11, <1>12 DEF ScreenInv

LEMMA AllMarkedKeeps ==
  ASSUME ScreenInv, AllMarked
  PROVE  ScreenInv'
<1>1. CursorTyped'
  BY Sizes DEF ScreenInv, CursorTyped, AllMarked
<1>2. MarksTyped'
  BY DEF ScreenInv, MarksTyped, AllMarked
<1>3. BufferTyped'
  BY DEF ScreenInv, BufferTyped, AllMarked
<1>4. SurfacesTyped'
  BY DEF ScreenInv, SurfacesTyped, AllMarked, surfaces
<1>5. SwitchesTyped'
  BY DEF ScreenInv, SwitchesTyped, AllMarked, surfaces, caller
<1>6. PcTyped'
  BY DEF ScreenInv, PcTyped, PCs, AllMarked, AfterLine
<1>7. TodoTyped'
  BY DEF ScreenInv, TodoTyped, AllMarked, caller
<1>8. Unwritten'
  BY DEF ScreenInv, Unwritten, AllMarked, surfaces
<1>9. CursorInPlace'
  BY Sizes DEF CursorInPlace, Rows, AllMarked, AfterLine
<1>10. CharFits'
  BY DEF ScreenInv, CharFits, Marking, AllMarked, AfterLine
<1>11. DrawnOrDirty'
  BY DEF ScreenInv, CursorInPlace, DrawnOrDirty, Covered, CoveredBut, IsDirty, Rows, AllMarked,
    AfterLine
<1>12. Copied'
  BY DEF Copied, AllMarked, AfterLine
<1> QED BY <1>1, <1>2, <1>3, <1>4, <1>5, <1>6, <1>7, <1>8, <1>9, <1>10, <1>11, <1>12 DEF ScreenInv

LEMMA WriteCellKeeps ==
  ASSUME ScreenInv, WriteCell
  PROVE  ScreenInv'
<1>1. CursorTyped'
  BY Sizes DEF ScreenInv, CursorTyped, CharFits, WriteCell
<1>2. MarksTyped'
  BY DEF ScreenInv, MarksTyped, WriteCell
<1>3. BufferTyped'
  BY DEF ScreenInv, CursorTyped, BufferTyped, SwitchesTyped, CursorInPlace, CharFits, Cells,
    WriteCell
<1>4. SurfacesTyped'
  BY DEF ScreenInv, SurfacesTyped, WriteCell, surfaces
<1>5. SwitchesTyped'
  BY DEF ScreenInv, SwitchesTyped, WriteCell, surfaces, caller
<1>6. PcTyped'
  BY DEF ScreenInv, PcTyped, PCs, WriteCell
<1>7. TodoTyped'
  BY DEF ScreenInv, TodoTyped, WriteCell, caller
<1>8. Unwritten'
  BY DEF ScreenInv, Unwritten, WriteCell, surfaces
<1>9. CursorInPlace'
  BY Sizes DEF ScreenInv, CursorInPlace, Rows, WriteCell
<1>10. CharFits'
  BY DEF CharFits, Marking, WriteCell
<1>11. DrawnOrDirty'
  BY DEF ScreenInv, DrawnOrDirty, Covered, CoveredBut, Shown, IsDirty, Excused, WriteCell,
    surfaces, caller
<1>12. Copied'
  BY DEF Copied, WriteCell
<1> QED BY <1>1, <1>2, <1>3, <1>4, <1>5, <1>6, <1>7, <1>8, <1>9, <1>10, <1>11, <1>12 DEF ScreenInv

LEMMA WriteTerminatorKeeps ==
  ASSUME ScreenInv, WriteTerminator
  PROVE  ScreenInv'
<1>1. CursorTyped'
  BY DEF ScreenInv, CursorTyped, WriteTerminator
<1>2. MarksTyped'
  BY DEF ScreenInv, MarksTyped, WriteTerminator
<1>3. BufferTyped'
  BY DEF ScreenInv, CursorTyped, BufferTyped, CursorInPlace, Cells, WriteTerminator
<1>4. SurfacesTyped'
  BY DEF ScreenInv, SurfacesTyped, WriteTerminator, surfaces
<1>5. SwitchesTyped'
  BY DEF ScreenInv, SwitchesTyped, WriteTerminator, surfaces, caller
<1>6. PcTyped'
  BY DEF ScreenInv, PcTyped, Marking, PCs, WriteTerminator, Mark
<1>7. TodoTyped'
  BY DEF ScreenInv, TodoTyped, WriteTerminator, caller
<1>8. Unwritten'
  BY DEF ScreenInv, Unwritten, WriteTerminator, surfaces
<1>9. CursorInPlace'
  BY Sizes DEF ScreenInv, CursorInPlace, Rows, WriteTerminator, Mark
<1>10. CharFits'
  BY DEF CharFits, WriteTerminator, Mark
<1>11. DrawnOrDirty'
  BY DEF ScreenInv, DrawnOrDirty, CoveredBut, Shown, IsDirty, Excused, WriteTerminator, Mark,
    surfaces, caller
<1>12. Copied'
  BY DEF Copied, WriteTerminator, Mark
<1> QED BY <1>1, <1>2, <1>3, <1>4, <1>5, <1>6, <1>7, <1>8, <1>9, <1>10, <1>11, <1>12 DEF ScreenInv

LEMMA MarkDirtyKeeps ==
  ASSUME ScreenInv, MarkDirty
  PROVE  ScreenInv'
<1>1. CursorTyped'
  BY DEF ScreenInv, CursorTyped, MarkDirty
<1>2. MarksTyped'
  BY DEF ScreenInv, MarksTyped, Rows, MarkDirty
<1>3. BufferTyped'
  BY DEF ScreenInv, BufferTyped, MarkDirty
<1>4. SurfacesTyped'
  BY DEF ScreenInv, SurfacesTyped, MarkDirty, surfaces
<1>5. SwitchesTyped'
  BY DEF ScreenInv, SwitchesTyped, MarkDirty, surfaces, caller
<1>6. PcTyped'
  BY DEF ScreenInv, PcTyped, Marking, PCs, MarkDirty
<1>7. TodoTyped'
  BY DEF ScreenInv, TodoTyped, MarkDirty, caller
<1>8. Unwritten'
  BY DEF ScreenInv, Unwritten, MarkDirty, surfaces
<1>9. CursorInPlace'
  BY Sizes DEF ScreenInv, CursorInPlace, Rows, Marking, MarkDirty
<1>10. CharFits'
  BY DEF ScreenInv, PcTyped, CharFits, Marking, MarkDirty
<1>11. DrawnOrDirty'
  <2>1. row \in Rows /\ CoveredBut(row) /\ row' = row /\ top \in Int /\ row \in Int
    BY DEF ScreenInv, MarksTyped, CursorInPlace, DrawnOrDirty, MarkDirty, Marking, Rows
  <2>2. \A r : (Shown(r)' <=> Shown(r)) /\ (Excused(r)' <=> Excused(r))
    BY DEF MarkDirty, surfaces, caller, Shown, Excused
  <2>3. CASE top < 0
    <3>1. pc' = "markTop" /\ top' = top /\ bottom' = row
      BY <2>1, <2>3 DEF MarkDirty
    <3>2. CoveredBut(row)'
      BY <2>1, <2>2, <2>3 DEF CoveredBut, IsDirty
    <3> QED BY <2>1, <2>3, <3>1, <3>2 DEF DrawnOrDirty, Marking
  <2>4. CASE ~(top < 0)
    <3>1. /\ pc' = "markBottom" /\ bottom' = bottom
          /\ top' = IF row < top THEN row ELSE top
      BY <2>1, <2>4 DEF MarkDirty
    <3>2. 0 <= top' /\ top' <= row /\ top' <= top /\ top' \in Int
      BY <2>1, <2>4, <3>1 DEF Rows
    <3>3. CoveredBut(row)'
      <4>1. \A r \in Rows : IsDirty(r) => IsDirty(r)'
        BY <2>1, <3>1, <3>2 DEF IsDirty
      <4> QED BY <2>1, <2>2, <4>1 DEF CoveredBut
    <3> QED BY <2>1, <3>1, <3>2, <3>3 DEF DrawnOrDirty, Marking
  <2> QED BY <2>3, <2>4
<1>12. Copied'
  BY DEF ScreenInv, PcTyped, Copied, MarkDirty
<1> QED BY <1>1, <1>2, <1>3, <1>4, <1>5, <1>6, <1>7, <1>8, <1>9, <1>10, <1>11, <1>12 DEF ScreenInv

LEMMA MarkTopKeeps ==
  ASSUME ScreenInv, MarkTop
  PROVE  ScreenInv'
<1>1. CursorTyped'
  BY DEF ScreenInv, CursorTyped, MarkTop
<1>2. MarksTyped'
  BY DEF ScreenInv, MarksTyped, CursorInPlace, Rows, Marking, MarkTop
<1>3. BufferTyped'
  BY DEF ScreenInv, BufferTyped, MarkTop
<1>4. SurfacesTyped'
  BY DEF ScreenInv, SurfacesTyped, MarkTop, surfaces
<1>5. SwitchesTyped'
  BY DEF ScreenInv, SwitchesTyped, MarkTop, surfaces, caller
<1>6. PcTyped'
  BY DEF ScreenInv, PcTyped, PCs, MarkTop
<1>7. TodoTyped'
  BY DEF ScreenInv, TodoTyped, MarkTop, caller
<1>8. Unwritten'
  BY DEF ScreenInv, Unwritten, MarkTop, surfaces
<1>9. CursorInPlace'
  BY Sizes DEF ScreenInv, PcTyped, CursorInPlace, Rows, Marking, MarkTop
<1>10. CharFits'
  BY DEF ScreenInv, PcTyped, CharFits, Marking, MarkTop
<1>11. DrawnOrDirty'
  BY DEF ScreenInv, CursorTyped, MarksTyped, PcTyped, DrawnOrDirty, Covered, CoveredBut, Shown,
    IsDirty, Excused, Marking, MarkTop, surfaces, caller
<1>12. Copied'
  BY DEF ScreenInv, PcTyped, Copied, MarkTop
<1> QED BY <1>1, <1>2, <1>3, <1>4, <1>5, <1>6, <1>7, <1>8, <1>9, <1>10, <1>11, <1>12 DEF ScreenInv

LEMMA MarkBottomKeeps ==
  ASSUME ScreenInv, MarkBottom
  PROVE  ScreenInv'
<1>1. CursorTyped'
  BY DEF ScreenInv, CursorTyped, MarkBottom
<1>2. MarksTyped'
  BY DEF ScreenInv, MarksTyped, CursorInPlace, Rows, Marking, MarkBottom
<1>3. BufferTyped'
  BY DEF ScreenInv, BufferTyped, MarkBottom
<1>4. SurfacesTyped'
  BY DEF ScreenInv, SurfacesTyped, MarkBottom, surfaces
<1>5. SwitchesTyped'
  BY DEF ScreenInv, SwitchesTyped, MarkBottom, surfaces, caller
<1>6. PcTyped'
  BY DEF ScreenInv, PcTyped, PCs, MarkBottom
<1>7. TodoTyped'
  BY DEF ScreenInv, TodoTyped, MarkBottom, caller
<1>8. Unwritten'
  BY DEF ScreenInv, Unwritten, MarkBottom, surfaces
<1>9. CursorInPlace'
  BY Sizes DEF ScreenInv, PcTyped, CursorInPlace, Rows, Marking, MarkBottom
<1>10. CharFits'
  BY DEF ScreenInv, PcTyped, CharFits, Marking, MarkBottom
<1>11. DrawnOrDirty'
  BY DEF ScreenInv, CursorTyped, MarksTyped, PcTyped, DrawnOrDirty, Covered, CoveredBut, Shown,
    IsDirty, Excused, Rows, Marking, MarkBottom, surfaces, caller
<1>12. Copied'
  BY DEF ScreenInv, PcTyped, Copied, MarkBottom
<1> QED BY <1>1, <1>2, <1>3, <1>4, <1>5, <1>6, <1>7, <1>8, <1>9, <1>10, <1>11, <1>12 DEF ScreenInv

LEMMA EndOfStringKeeps ==
  ASSUME ScreenInv, EndOfString
  PROVE  ScreenInv'
<1>1. CursorTyped'
  BY DEF ScreenInv, CursorTyped, EndOfString
<1>2. MarksTyped'
  BY DEF ScreenInv, MarksTyped, EndOfString
<1>3. BufferTyped'
  BY DEF ScreenInv, BufferTyped, EndOfString
<1>4. SurfacesTyped'
  BY DEF ScreenInv, SurfacesTyped, EndOfString, surfaces
<1>5. SwitchesTyped'
  BY DEF ScreenInv, SwitchesTyped, EndOfString, surfaces, caller
<1>6. PcTyped'
  BY DEF ScreenInv, MarksTyped, PcTyped, PCs, EndOfString
<1>7. TodoTyped'
  BY DEF ScreenInv, TodoTyped, EndOfString, caller
<1>8. Unwritten'
  BY DEF ScreenInv, Unwritten, EndOfString, surfaces
<1>9. CursorInPlace'
  BY Sizes, MessageFacts DEF ScreenInv, CursorInPlace, Undecided, Rows, EndOfString
<1>10. CharFits'
  BY DEF ScreenInv, CharFits, Marking, EndOfString
<1>11. DrawnOrDirty'
  BY MessageFacts DEF ScreenInv, MarksTyped, DrawnOrDirty, Undecided, Covered, CoveredBut, Shown,
    IsDirty, Excused, Rows, EndOfString, surfaces, caller
<1>12. Copied'
  BY Sizes DEF Copied, Rows, EndOfString
<1> QED BY <1>1, <1>2, <1>3, <1>4, <1>5, <1>6, <1>7, <1>8, <1>9, <1>10, <1>11, <1>12 DEF ScreenInv

LEMMA RedrawRowKeeps ==
  ASSUME ScreenInv, RedrawRow
  PROVE  ScreenInv'
<1>1. CursorTyped'
  BY DEF ScreenInv, CursorTyped, RedrawRow
<1>2. MarksTyped'
  BY DEF ScreenInv, MarksTyped, RedrawRow
<1>3. BufferTyped'
  BY DEF ScreenInv, BufferTyped, RedrawRow
<1>4. SurfacesTyped'
  BY DrawnTyped DEF ScreenInv, BufferTyped, SurfacesTyped, RedrawRow
<1>5. SwitchesTyped'
  BY DEF ScreenInv, SwitchesTyped, RedrawRow, caller
<1>6. PcTyped'
  BY DEF ScreenInv, PcTyped, RedrawRow
<1>7. TodoTyped'
  BY DEF ScreenInv, TodoTyped, RedrawRow, caller
<1>8. Unwritten'
  BY DEF ScreenInv, Unwritten, RedrawRow
<1>9. CursorInPlace'
  BY DEF ScreenInv, CursorInPlace, RedrawRow, caller
<1>10. CharFits'
  BY DEF ScreenInv, CharFits, RedrawRow
<1>11. DrawnOrDirty'
  BY DEF ScreenInv, MarksTyped, SurfacesTyped, PcTyped, DrawnOrDirty, Covered, CoveredBut, Shown,
    IsDirty, Excused, Rows, RedrawRow, caller
<1>12. Copied'
  BY DEF Copied, RedrawRow
<1> QED BY <1>1, <1>2, <1>3, <1>4, <1>5, <1>6, <1>7, <1>8, <1>9, <1>10, <1>11, <1>12 DEF ScreenInv

LEMMA RedrawEndsKeeps ==
  ASSUME ScreenInv, RedrawEnds
  PROVE  ScreenInv'
<1>1. CursorTyped'
  BY DEF ScreenInv, CursorTyped, RedrawEnds
<1>2. MarksTyped'
  BY Sizes DEF ScreenInv, MarksTyped, RedrawEnds
<1>3. BufferTyped'
  BY DEF ScreenInv, BufferTyped, RedrawEnds
<1>4. SurfacesTyped'
  BY DEF ScreenInv, SurfacesTyped, RedrawEnds, surfaces
<1>5. SwitchesTyped'
  BY DEF ScreenInv, SwitchesTyped, RedrawEnds, surfaces, caller
<1>6. PcTyped'
  BY DEF ScreenInv, PcTyped, PCs, RedrawEnds
<1>7. TodoTyped'
  BY DEF ScreenInv, TodoTyped, RedrawEnds, caller
<1>8. Unwritten'
  BY DEF ScreenInv, Unwritten, RedrawEnds, surfaces
<1>9. CursorInPlace'
  BY Sizes DEF ScreenInv, CursorInPlace, Rows, Marking, RedrawEnds, caller
<1>10. CharFits'
  BY DEF ScreenInv, CharFits, Marking, RedrawEnds
<1>11. DrawnOrDirty'
  BY DEF ScreenInv, MarksTyped, PcTyped, DrawnOrDirty, Covered, CoveredBut, Shown, IsDirty,
    Excused, Rows, RedrawEnds, surfaces, caller
<1>12. Copied'
  BY DEF Copied, RedrawEnds
<1> QED BY <1>1, <1>2, <1>3, <1>4, <1>5, <1>6, <1>7, <1>8, <1>9, <1>10, <1>11, <1>12 DEF ScreenInv

LEMMA CleanKeeps ==
  ASSUME ScreenInv, Clean
  PROVE  ScreenInv'
<1>1. CursorTyped'
  BY DEF ScreenInv, CursorTyped, Clean
<1>2. MarksTyped'
  BY Sizes DEF ScreenInv, MarksTyped, Clean
<1>3. BufferTyped'
  BY DEF ScreenInv, BufferTyped, Clean
<1>4. SurfacesTyped'
  BY DEF ScreenInv, SurfacesTyped, Clean, surfaces
<1>5. SwitchesTyped'
  BY DEF ScreenInv, SwitchesTyped, Clean, surfaces, caller
<1>6. PcTyped'
  BY DEF ScreenInv, PcTyped, PCs, Clean
<1>7. TodoTyped'
  BY DEF ScreenInv, TodoTyped, Clean, caller
<1>8. Unwritten'
  BY DEF ScreenInv, Unwritten, Clean, surfaces
<1>9. CursorInPlace'
  BY Sizes DEF ScreenInv, CursorInPlace, Rows, Marking, Clean, caller
<1>10. CharFits'
  BY DEF ScreenInv, CharFits, Marking, Clean
<1>11. DrawnOrDirty'
  BY DEF ScreenInv, DrawnOrDirty, Covered, CoveredBut, Shown, IsDirty, Excused, Clean, surfaces,
    caller
<1>12. Copied'
  BY Sizes DEF Copied, Rows, Clean
<1> QED BY <1>1, <1>2, <1>3, <1>4, <1>5, <1>6, <1>7, <1>8, <1>9, <1>10, <1>11, <1>12 DEF ScreenInv

LEMMA PresentRowKeeps ==
  ASSUME ScreenInv, PresentRow
  PROVE  ScreenInv'
<1>1. CursorTyped'
  BY DEF ScreenInv, CursorTyped, PresentRow
<1>2. MarksTyped'
  BY DEF ScreenInv, MarksTyped, PresentRow
<1>3. BufferTyped'
  BY DEF ScreenInv, BufferTyped, PresentRow
<1>4. SurfacesTyped'
  BY DEF ScreenInv, SurfacesTyped, PresentRow
<1>5. SwitchesTyped'
  BY DEF ScreenInv, SwitchesTyped, PresentRow, caller
<1>6. PcTyped'
  BY DEF ScreenInv, PcTyped, PresentRow
<1>7. TodoTyped'
  BY DEF ScreenInv, TodoTyped, PresentRow, caller
<1>8. Unwritten'
  BY DEF ScreenInv, Unwritten, PresentRow, caller
<1>9. CursorInPlace'
  BY DEF ScreenInv, CursorInPlace, PresentRow, caller
<1>10. CharFits'
  BY DEF ScreenInv, CharFits, PresentRow
<1>11. DrawnOrDirty'
  BY DEF ScreenInv, DrawnOrDirty, Covered, CoveredBut, Shown, IsDirty, Excused, PresentRow, caller
<1>12. Copied'
  BY Sizes DEF ScreenInv, SurfacesTyped, PcTyped, Copied, Rows, PresentRow
<1> QED BY <1>1, <1>2, <1>3, <1>4, <1>5, <1>6, <1>7, <1>8, <1>9, <1>10, <1>11, <1>12 DEF ScreenInv

LEMMA PresentEndsKeeps ==
  ASSUME ScreenInv, PresentEnds
  PROVE  ScreenInv'
<1>1. CursorTyped'
  BY DEF ScreenInv, CursorTyped, PresentEnds
<1>2. MarksTyped'
  BY DEF ScreenInv, MarksTyped, PresentEnds
<1>3. BufferTyped'
  BY DEF ScreenInv, BufferTyped, PresentEnds
<1>4. SurfacesTyped'
  BY DEF ScreenInv, SurfacesTyped, PresentEnds, surfaces
<1>5. SwitchesTyped'
  BY DEF ScreenInv, SwitchesTyped, PresentEnds, surfaces, caller
<1>6. PcTyped'
  BY DEF ScreenInv, PcTyped, PCs, PresentEnds
<1>7. TodoTyped'
  BY DEF ScreenInv, TodoTyped, PresentEnds, caller
<1>8. Unwritten'
  BY DEF ScreenInv, Unwritten, PresentEnds, surfaces, caller
<1>9. CursorInPlace'
  BY DEF ScreenInv, CursorInPlace, Marking, Scrolling, PresentEnds
<1>10. CharFits'
  BY DEF ScreenInv, CharFits, Marking, PresentEnds
<1>11. DrawnOrDirty'
  BY DEF ScreenInv, DrawnOrDirty, Covered, CoveredBut, Shown, IsDirty, Excused, PresentEnds,
    surfaces, caller
<1>12. Copied'
  BY Sizes DEF ScreenInv, SurfacesTyped, PcTyped, DrawnOrDirty, Covered, Shown, IsDirty, Excused,
    Rows, PresentEnds, surfaces, caller
<1> QED BY <1>1, <1>2, <1>3, <1>4, <1>5, <1>6, <1>7, <1>8, <1>9, <1>10, <1>11, <1>12 DEF ScreenInv

-----------------------------------------------------------------------------
(* Before printk is called for the first time.                             *)
LEMMA ScreenInitInv == ScreenInit => ScreenInv
<1> SUFFICES ASSUME ScreenInit PROVE ScreenInv
  OBVIOUS
<1>1. CursorTyped /\ MarksTyped
  BY Sizes DEF ScreenInit, CursorTyped, MarksTyped
<1>2. SwitchesTyped /\ PcTyped
  BY DEF ScreenInit, SwitchesTyped, PcTyped, PCs
<1>3. BufferTyped /\ SurfacesTyped /\ TodoTyped
  BY BlankDrawn DEF ScreenInit, BufferTyped, SurfacesTyped, TodoTyped
<1>4. \A r \in Rows : Shown(r)
  BY BlankDrawn DEF ScreenInit, Shown
<1>5. Unwritten /\ CursorInPlace /\ CharFits
  BY Sizes DEF ScreenInit, Unwritten, CursorInPlace, CharFits, Marking, Scrolling, Rows
<1>6. DrawnOrDirty /\ Copied
  BY <1>4 DEF ScreenInit, DrawnOrDirty, Copied, Covered, Marking
<1> QED BY <1>1, <1>2, <1>3, <1>5, <1>6 DEF ScreenInv

(* No write of whoever prints leaves a row behind.                         *)
LEMMA ScreenNextKeeps == ScreenInv /\ [ScreenNext]_screenVars => ScreenInv' /\ pitch' = pitch
<1> SUFFICES ASSUME ScreenInv, [ScreenNext]_screenVars PROVE ScreenInv' /\ pitch' = pitch
  OBVIOUS
<1>1. CASE ConsoleInit
  BY <1>1, ConsoleInitKeeps DEF ConsoleInit, surfaces
<1>2. CASE Printk
  BY <1>2, PrintkKeeps DEF Printk, surfaces
<1>3. CASE Fault
  BY <1>3, FaultKeeps DEF Fault, surfaces
<1>4. CASE PutLineFeed
  BY <1>4, PutLineFeedKeeps DEF PutLineFeed, surfaces
<1>5. CASE PutCarriageReturn
  BY <1>5, PutCarriageReturnKeeps DEF PutCarriageReturn, surfaces
<1>6. CASE PutTab
  BY <1>6, PutTabKeeps DEF PutTab, surfaces
<1>7. CASE \E c \in Glyphs : PutGlyph(c)
  BY <1>7, PutGlyphKeeps DEF PutGlyph, surfaces
<1>8. CASE ConsoleLineFeed
  BY <1>8, ConsoleLineFeedKeeps DEF ConsoleLineFeed, surfaces
<1>9. CASE ScrollRow
  BY <1>9, ScrollRowKeeps DEF ScrollRow, surfaces
<1>10. CASE ScrollEnds
  BY <1>10, ScrollEndsKeeps DEF ScrollEnds, surfaces
<1>11. CASE MarkAllDirty
  BY <1>11, MarkAllDirtyKeeps DEF MarkAllDirty, surfaces
<1>12. CASE AllMarked
  BY <1>12, AllMarkedKeeps DEF AllMarked, surfaces
<1>13. CASE WriteCell
  BY <1>13, WriteCellKeeps DEF WriteCell, surfaces
<1>14. CASE WriteTerminator
  BY <1>14, WriteTerminatorKeeps DEF WriteTerminator, surfaces
<1>15. CASE MarkDirty
  BY <1>15, MarkDirtyKeeps DEF MarkDirty, surfaces
<1>16. CASE MarkTop
  BY <1>16, MarkTopKeeps DEF MarkTop, surfaces
<1>17. CASE MarkBottom
  BY <1>17, MarkBottomKeeps DEF MarkBottom, surfaces
<1>18. CASE EndOfString
  BY <1>18, EndOfStringKeeps DEF EndOfString, surfaces
<1>19. CASE RedrawRow
  BY <1>19, RedrawRowKeeps DEF RedrawRow, surfaces
<1>20. CASE RedrawEnds
  BY <1>20, RedrawEndsKeeps DEF RedrawEnds, surfaces
<1>21. CASE Clean
  BY <1>21, CleanKeeps DEF Clean, surfaces
<1>22. CASE PresentRow
  BY <1>22, PresentRowKeeps DEF PresentRow, surfaces
<1>23. CASE PresentEnds
  BY <1>23, PresentEndsKeeps DEF PresentEnds, surfaces
<1>24. CASE UNCHANGED screenVars
  BY <1>24 DEF screenVars, ScreenInv, CursorTyped, MarksTyped, BufferTyped, SurfacesTyped,
    SwitchesTyped, PcTyped, TodoTyped, Unwritten, CursorInPlace, CharFits, DrawnOrDirty, Copied,
    Covered, CoveredBut, Shown, IsDirty, Excused, Undecided
<1> QED
  BY <1>1, <1>2, <1>3, <1>4, <1>5, <1>6, <1>7, <1>8, <1>9, <1>10, <1>11, <1>12, <1>13, <1>14,
    <1>15, <1>16, <1>17, <1>18, <1>19, <1>20, <1>21, <1>22, <1>23, <1>24 DEF ScreenNext

(* The types of the console and of both surfaces; that every row of the    *)
(* buffer ends before it is over is what makes them strings                *)
(* (Console.C:128-151, FB.C:456-466).                                      *)
THEOREM ScreenTyped == ScreenSpec => []ScreenTypeOK
<1>1. ScreenInv => ScreenTypeOK
  <2>1. ScreenInv => top \in {-1} \cup Rows /\ bottom \in {-1} \cup Rows
    BY Sizes DEF ScreenInv, MarksTyped, Rows
  <2> QED BY <2>1 DEF ScreenInv, ScreenTypeOK, CursorTyped, BufferTyped, SurfacesTyped,
    SwitchesTyped, Cells
<1> QED BY ScreenInitInv, ScreenNextKeeps, <1>1, PTL DEF ScreenSpec

(* The back surface shows what was printed, for every size of the screen,  *)
(* whatever is printed and wherever an exception breaks in, and so does    *)
(* the screen if its scanlines are as long; no cell outside the buffer is  *)
(* written (Console.C:82-151, 234-259, FB.C:163-164).                      *)
THEOREM PrintedIsShown == ScreenSpec => []ScreenShowsBuffer
<1>1. ScreenInv => ScreenShowsBuffer
  BY DEF ScreenInv, ScreenShowsBuffer, Copied, Shown, Excused, CursorInPlace, CharFits
<1> QED BY ScreenInitInv, ScreenNextKeeps, <1>1, PTL DEF ScreenSpec
=============================================================================

----------------------------- MODULE VmmProofs -----------------------------
(***************************************************************************)
(* What module Vmm keeps for every layout, memory and order of calls.       *)
(*                                                                         *)
(* The first part is about page tables as data: a forest of frames, each   *)
(* with its level, in which no two entries lead to the same table.  Adding *)
(* an empty table changes no translation, and writing a leaf changes the   *)
(* one page whose walk ends there.  The second part is the inductive       *)
(* invariant of the calls, and the theorems.                               *)
(***************************************************************************)
EXTENDS Vmm, WellFoundedInduction, TLAPS

Contents == [Frames -> [Slots -> Entry]]
Depths == [Frames -> 0 .. 4]

(* A walk through tables tb from root r.                                   *)
W2(r, tb, v) ==
  IF r # Nowhere /\ tb[r][Path[v][1]].present THEN tb[r][Path[v][1]].phys ELSE Nowhere
WB(tb, t, v, l) ==
  IF t # Nowhere /\ tb[t][Path[v][l]].present /\ ~tb[t][Path[v][l]].ps
  THEN tb[t][Path[v][l]].phys ELSE Nowhere
W3(r, tb, v) == WB(tb, W2(r, tb, v), v, 2)
W4(r, tb, v) == WB(tb, W3(r, tb, v), v, 3)
HugeIn(tb, t, v, l) == t # Nowhere /\ tb[t][Path[v][l]].present /\ tb[t][Path[v][l]].ps
W(r, tb, v) ==
  IF HugeIn(tb, W2(r, tb, v), v, 2) THEN tb[W2(r, tb, v)][Path[v][2]].phys
  ELSE IF HugeIn(tb, W3(r, tb, v), v, 3) THEN tb[W3(r, tb, v)][Path[v][3]].phys
  ELSE IF W4(r, tb, v) # Nowhere /\ tb[W4(r, tb, v)][Path[v][4]].present
       THEN tb[W4(r, tb, v)][Path[v][4]].phys
  ELSE Nowhere

(* The frames of depth 1 to 3 form the inner levels of a forest.           *)
Inner(tb, d, f, s) == d[f] \in 1 .. 3 /\ tb[f][s].present /\ ~tb[f][s].ps
Linked(tb, d) ==
  \A f \in Frames, s \in Slots :
    /\ Inner(tb, d, f, s) => tb[f][s].phys \in Frames /\ d[tb[f][s].phys] = d[f] + 1
    /\ d[f] \in {1, 3} /\ tb[f][s].present => ~tb[f][s].ps
Unique(tb, d) ==
  \A f, g \in Frames, s, t \in Slots :
    Inner(tb, d, f, s) /\ Inner(tb, d, g, t) /\ tb[f][s].phys = tb[g][t].phys
    => f = g /\ s = t
Rooted(r, d) == r = Nowhere \/ (r \in Frames /\ d[r] = 1)
Forest(r, tb, d) ==
  /\ tb \in Contents /\ d \in Depths
  /\ Linked(tb, d) /\ Unique(tb, d) /\ Rooted(r, d)

-----------------------------------------------------------------------------
LEMMA Constants ==
  /\ Frames \subseteq Nat /\ Nowhere \notin Frames /\ Nowhere \notin Nat
  /\ \A v \in Pages, l \in Levels : Path[v][l] \in Slots
  /\ \A v, w \in Pages : (\A l \in Levels : Path[v][l] = Path[w][l]) => v = w
<1>1. Frames \subseteq Nat /\ Nowhere \notin Frames /\ Nowhere \notin Nat
  BY VmmAssumption DEF Nowhere
<1>2. \A v \in Pages, l \in Levels : Path[v][l] \in Slots
  BY VmmAssumption
<1>3. ASSUME NEW v \in Pages, NEW w \in Pages, \A l \in Levels : Path[v][l] = Path[w][l]
      PROVE  v = w
  <2>1. Path[v] \in [Levels -> Slots] /\ Path[w] \in [Levels -> Slots]
    BY VmmAssumption
  <2>2. Path[v] = Path[w]
    BY <2>1, <1>3
  <2> QED BY <2>2, VmmAssumption
<1> QED BY <1>1, <1>2, <1>3

LEMMA EntryFields ==
  ASSUME NEW tb \in Contents, NEW f \in Frames, NEW s \in Slots
  PROVE  /\ tb[f][s] \in Entry
         /\ tb[f][s].present \in BOOLEAN /\ tb[f][s].ps \in BOOLEAN /\ tb[f][s].phys \in Nat
BY DEF Contents, Entry

(* Where a walk may stand: in a table of its level, or nowhere.            *)
LEMMA WalkTyped ==
  ASSUME NEW r, NEW tb, NEW d, Forest(r, tb, d), NEW v \in Pages
  PROVE  /\ W2(r, tb, v) = Nowhere \/ (W2(r, tb, v) \in Frames /\ d[W2(r, tb, v)] = 2)
         /\ W3(r, tb, v) = Nowhere \/ (W3(r, tb, v) \in Frames /\ d[W3(r, tb, v)] = 3)
         /\ W4(r, tb, v) = Nowhere \/ (W4(r, tb, v) \in Frames /\ d[W4(r, tb, v)] = 4)
         /\ ~HugeIn(tb, W3(r, tb, v), v, 3)
         /\ W(r, tb, v) \in Nat \cup {Nowhere}
<1> DEFINE a2 == W2(r, tb, v)  a3 == W3(r, tb, v)  a4 == W4(r, tb, v)
<1>0. /\ tb \in Contents /\ d \in Depths /\ Linked(tb, d) /\ Rooted(r, d)
      /\ Path[v][1] \in Slots /\ Path[v][2] \in Slots /\ Path[v][3] \in Slots /\ Path[v][4] \in Slots
  BY Constants DEF Forest, Levels
<1>1. a2 = Nowhere \/ (a2 \in Frames /\ d[a2] = 2)
  BY <1>0 DEF W2, Linked, Inner, Rooted
<1>b. ASSUME NEW t, NEW l \in {2, 3}, t = Nowhere \/ (t \in Frames /\ d[t] = l)
      PROVE  \/ WB(tb, t, v, l) = Nowhere
             \/ WB(tb, t, v, l) \in Frames /\ d[WB(tb, t, v, l)] = l + 1
  <2>1. CASE t # Nowhere /\ tb[t][Path[v][l]].present /\ ~tb[t][Path[v][l]].ps
    <3>1. t \in Frames /\ d[t] = l /\ Path[v][l] \in Slots /\ d[t] \in 1 .. 3
      BY <1>0, <1>b, <2>1
    <3>2. tb[t][Path[v][l]].phys \in Frames /\ d[tb[t][Path[v][l]].phys] = d[t] + 1
      BY <1>0, <2>1, <3>1 DEF Linked, Inner
    <3>3. WB(tb, t, v, l) = tb[t][Path[v][l]].phys
      BY <2>1 DEF WB
    <3> QED BY <3>1, <3>2, <3>3
  <2>2. CASE ~(t # Nowhere /\ tb[t][Path[v][l]].present /\ ~tb[t][Path[v][l]].ps)
    BY <2>2 DEF WB
  <2> QED BY <2>1, <2>2
<1>2. a3 = Nowhere \/ (a3 \in Frames /\ d[a3] = 3)
  BY <1>1, <1>b DEF W3
<1>3. a4 = Nowhere \/ (a4 \in Frames /\ d[a4] = 4)
  BY <1>2, <1>b DEF W4
<1>4. ~HugeIn(tb, a3, v, 3)
  BY <1>0, <1>2 DEF HugeIn, Linked
<1>5. W(r, tb, v) \in Nat \cup {Nowhere}
  <2>1. \A f \in Frames, l \in Levels : tb[f][Path[v][l]].phys \in Nat
    BY <1>0, EntryFields, Constants
  <2>2. CASE HugeIn(tb, a2, v, 2)
    <3>1. W(r, tb, v) = tb[a2][Path[v][2]].phys
      BY <2>2 DEF W
    <3> QED BY <3>1, <2>1, <2>2, <1>1 DEF HugeIn, Levels
  <2>3. CASE ~HugeIn(tb, a2, v, 2) /\ a4 # Nowhere /\ tb[a4][Path[v][4]].present
    <3>1. W(r, tb, v) = tb[a4][Path[v][4]].phys
      BY <2>3, <1>4 DEF W
    <3> QED BY <3>1, <2>1, <2>3, <1>3 DEF Levels
  <2>4. CASE ~HugeIn(tb, a2, v, 2) /\ ~(a4 # Nowhere /\ tb[a4][Path[v][4]].present)
    BY <2>4, <1>4 DEF W
  <2> QED BY <2>2, <2>3, <2>4
<1> QED BY <1>1, <1>2, <1>3, <1>4, <1>5

(* Two walks that meet in a table came the same way.                       *)
LEMMA WalksMeet ==
  ASSUME NEW r, NEW tb, NEW d, Forest(r, tb, d), NEW v \in Pages, NEW w \in Pages
  PROVE  /\ W2(r, tb, v) = W2(r, tb, w) /\ W2(r, tb, v) # Nowhere => Path[v][1] = Path[w][1]
         /\ W3(r, tb, v) = W3(r, tb, w) /\ W3(r, tb, v) # Nowhere
            => Path[v][1] = Path[w][1] /\ Path[v][2] = Path[w][2]
         /\ W4(r, tb, v) = W4(r, tb, w) /\ W4(r, tb, v) # Nowhere
            => Path[v][1] = Path[w][1] /\ Path[v][2] = Path[w][2] /\ Path[v][3] = Path[w][3]
<1>0. /\ Linked(tb, d) /\ Unique(tb, d) /\ Rooted(r, d)
      /\ \A u \in {v, w} : /\ Path[u][1] \in Slots /\ Path[u][2] \in Slots
                           /\ Path[u][3] \in Slots /\ Path[u][4] \in Slots
  BY Constants DEF Forest, Levels
<1>1. ASSUME W2(r, tb, v) = W2(r, tb, w), W2(r, tb, v) # Nowhere
      PROVE  Path[v][1] = Path[w][1]
  <2>1. r \in Frames /\ d[r] = 1
    BY <1>0, <1>1 DEF W2, Rooted
  <2>2. Inner(tb, d, r, Path[v][1]) /\ Inner(tb, d, r, Path[w][1])
    BY <1>0, <1>1, <2>1 DEF W2, Inner, Linked
  <2>3. tb[r][Path[v][1]].phys = tb[r][Path[w][1]].phys
    BY <1>1 DEF W2
  <2> QED BY <1>0, <2>1, <2>2, <2>3 DEF Unique
<1>2. ASSUME NEW t, NEW u, NEW l \in 2 .. 3,
             t = Nowhere \/ (t \in Frames /\ d[t] = l), u = Nowhere \/ (u \in Frames /\ d[u] = l),
             WB(tb, t, v, l) = WB(tb, u, w, l), WB(tb, t, v, l) # Nowhere
      PROVE  t = u /\ t # Nowhere /\ Path[v][l] = Path[w][l]
  <2>1. /\ t \in Frames /\ u \in Frames /\ t # Nowhere
        /\ Inner(tb, d, t, Path[v][l]) /\ Inner(tb, d, u, Path[w][l])
        /\ tb[t][Path[v][l]].phys = tb[u][Path[w][l]].phys
    BY <1>2 DEF WB, Inner
  <2>2. Path[v][l] \in Slots /\ Path[w][l] \in Slots
    BY Constants DEF Levels
  <2> QED BY <1>0, <2>1, <2>2 DEF Unique
<1>3. ASSUME W3(r, tb, v) = W3(r, tb, w), W3(r, tb, v) # Nowhere
      PROVE  Path[v][1] = Path[w][1] /\ Path[v][2] = Path[w][2]
  <2>1. /\ W2(r, tb, v) = W2(r, tb, w) /\ W2(r, tb, v) # Nowhere
        /\ Path[v][2] = Path[w][2]
    BY <1>3, <1>2, WalkTyped DEF W3
  <2> QED BY <2>1, <1>1
<1>4. ASSUME W4(r, tb, v) = W4(r, tb, w), W4(r, tb, v) # Nowhere
      PROVE  Path[v][1] = Path[w][1] /\ Path[v][2] = Path[w][2] /\ Path[v][3] = Path[w][3]
  <2>1. /\ W3(r, tb, v) = W3(r, tb, w) /\ W3(r, tb, v) # Nowhere
        /\ Path[v][3] = Path[w][3]
    BY <1>4, <1>2, WalkTyped DEF W4
  <2> QED BY <2>1, <1>3
<1> QED BY <1>1, <1>3, <1>4

-----------------------------------------------------------------------------
Grown(tb, at, s, f) == [tb EXCEPT ![at][s] = Points(f), ![f] = Zeroed]

LEMMA GrownEntries ==
  ASSUME NEW tb \in Contents, NEW at \in Frames, NEW s \in Slots, NEW f \in Frames, at # f
  PROVE  /\ Grown(tb, at, s, f) \in Contents
         /\ \A x \in Slots : Grown(tb, at, s, f)[f][x] = Absent
         /\ \A x \in Slots : Grown(tb, at, s, f)[at][x] = IF x = s THEN Points(f) ELSE tb[at][x]
         /\ \A g \in Frames \ {at, f} : Grown(tb, at, s, f)[g] = tb[g]
<1>1. Absent \in Entry /\ Points(f) \in Entry /\ Zeroed \in [Slots -> Entry]
  BY Constants DEF Absent, Points, Entry, Zeroed
<1>2. tb[at] \in [Slots -> Entry]
  BY DEF Contents
<1> DEFINE row == [tb[at] EXCEPT ![s] = Points(f)]
           mid == [tb EXCEPT ![at] = row]
<1>3. row \in [Slots -> Entry]
  BY <1>1, <1>2
<1>4. mid \in Contents /\ mid[at] = row /\ \A g \in Frames \ {at} : mid[g] = tb[g]
  BY <1>3 DEF Contents
<1>5. Grown(tb, at, s, f) = [mid EXCEPT ![f] = Zeroed]
  BY DEF Grown
<1> HIDE DEF mid
<1>6. /\ Grown(tb, at, s, f) \in Contents
      /\ Grown(tb, at, s, f)[f] = Zeroed
      /\ \A g \in Frames \ {f} : Grown(tb, at, s, f)[g] = mid[g]
  BY <1>1, <1>4, <1>5 DEF Contents
<1>7. \A x \in Slots : row[x] = IF x = s THEN Points(f) ELSE tb[at][x]
  BY <1>2
<1> HIDE DEF row
<1>8. \A x \in Slots : Grown(tb, at, s, f)[f][x] = Absent
  BY <1>6 DEF Zeroed
<1> QED BY <1>4, <1>6, <1>7, <1>8

(* A table that is added is empty: the forest stays one, and no page is    *)
(* translated differently.                                                 *)
LEMMA GrowForest ==
  ASSUME NEW r, NEW tb, NEW d, Forest(r, tb, d),
         NEW at \in Frames, d[at] \in 1 .. 3, NEW s \in Slots, ~tb[at][s].present,
         NEW f \in Frames, d[f] = 0
  PROVE  Forest(r, Grown(tb, at, s, f), [d EXCEPT ![f] = d[at] + 1])
<1> DEFINE tn == Grown(tb, at, s, f)  dn == [d EXCEPT ![f] = d[at] + 1]
<1>0. tb \in Contents /\ d \in Depths /\ Linked(tb, d) /\ Unique(tb, d) /\ Rooted(r, d)
  BY DEF Forest
<1>1. /\ tn \in Contents
      /\ \A x \in Slots : tn[f][x] = Absent
      /\ \A x \in Slots : tn[at][x] = IF x = s THEN Points(f) ELSE tb[at][x]
      /\ \A g \in Frames \ {at, f} : tn[g] = tb[g]
      /\ at # f
  BY <1>0, GrownEntries
<1>2. dn \in Depths /\ dn[f] = d[at] + 1 /\ \A g \in Frames \ {f} : dn[g] = d[g]
  BY <1>0 DEF Depths
<1> HIDE DEF tn, dn
<1>3. \A g \in Frames, x \in Slots :
        Inner(tn, dn, g, x) => \/ g = at /\ x = s /\ tn[g][x].phys = f
                               \/ Inner(tb, d, g, x) /\ tn[g][x] = tb[g][x] /\ tb[g][x].phys # f
  <2> SUFFICES ASSUME NEW g \in Frames, NEW x \in Slots, Inner(tn, dn, g, x)
               PROVE  \/ g = at /\ x = s /\ tn[g][x].phys = f
                      \/ Inner(tb, d, g, x) /\ tn[g][x] = tb[g][x] /\ tb[g][x].phys # f
    OBVIOUS
  <2>1. g # f
    BY <1>1 DEF Inner, Absent
  <2>2. CASE g = at /\ x = s
    BY <2>2, <1>1 DEF Points
  <2>3. CASE ~(g = at /\ x = s)
    <3>1. tn[g][x] = tb[g][x] /\ dn[g] = d[g]
      BY <2>1, <2>3, <1>1, <1>2
    <3>2. Inner(tb, d, g, x)
      BY <3>1 DEF Inner
    <3>3. d[tb[g][x].phys] = d[g] + 1 /\ d[g] \in 1 .. 3
      BY <3>2, <1>0 DEF Linked, Inner
    <3>4. tb[g][x].phys # f
      BY <3>3
    <3> QED BY <3>1, <3>2, <3>4
  <2> QED BY <2>2, <2>3
<1>4. Linked(tn, dn)
  <2> SUFFICES ASSUME NEW g \in Frames, NEW x \in Slots
               PROVE  /\ Inner(tn, dn, g, x)
                         => tn[g][x].phys \in Frames /\ dn[tn[g][x].phys] = dn[g] + 1
                      /\ dn[g] \in {1, 3} /\ tn[g][x].present => ~tn[g][x].ps
    BY DEF Linked
  <2>1. ASSUME Inner(tn, dn, g, x)
        PROVE  tn[g][x].phys \in Frames /\ dn[tn[g][x].phys] = dn[g] + 1
    <3>1. CASE g = at /\ x = s /\ tn[g][x].phys = f
      BY <3>1, <1>1, <1>2
    <3>2. CASE Inner(tb, d, g, x) /\ tn[g][x] = tb[g][x] /\ tb[g][x].phys # f
      <4>1. tb[g][x].phys \in Frames /\ d[tb[g][x].phys] = d[g] + 1 /\ g # f
        BY <3>2, <1>0 DEF Linked, Inner
      <4> QED BY <4>1, <3>2, <1>2
    <3> QED BY <2>1, <1>3, <3>1, <3>2
  <2>2. ASSUME dn[g] \in {1, 3}, tn[g][x].present
        PROVE  ~tn[g][x].ps
    <3>1. g # f
      BY <2>2, <1>1 DEF Absent
    <3>2. CASE g = at /\ x = s
      BY <3>2, <1>1 DEF Points
    <3>3. CASE ~(g = at /\ x = s)
      <4>1. tn[g][x] = tb[g][x] /\ dn[g] = d[g]
        BY <3>1, <3>3, <1>1, <1>2
      <4> QED BY <4>1, <2>2, <1>0 DEF Linked
    <3> QED BY <3>2, <3>3
  <2> QED BY <2>1, <2>2
<1>5. Unique(tn, dn)
  <2> SUFFICES ASSUME NEW g \in Frames, NEW h \in Frames, NEW x \in Slots, NEW y \in Slots,
                      Inner(tn, dn, g, x), Inner(tn, dn, h, y), tn[g][x].phys = tn[h][y].phys
               PROVE  g = h /\ x = y
    BY DEF Unique
  <2>1. CASE g = at /\ x = s /\ tn[g][x].phys = f
    BY <2>1, <1>3
  <2>2. CASE Inner(tb, d, g, x) /\ tn[g][x] = tb[g][x] /\ tb[g][x].phys # f
    <3>1. Inner(tb, d, h, y) /\ tn[h][y] = tb[h][y]
      BY <2>2, <1>3
    <3> QED BY <2>2, <3>1, <1>0 DEF Unique
  <2> QED BY <1>3, <2>1, <2>2
<1>6. Rooted(r, dn)
  BY <1>0, <1>2 DEF Rooted
<1> QED BY <1>1, <1>2, <1>4, <1>5, <1>6 DEF Forest, tn, dn

LEMMA GrowWalk ==
  ASSUME NEW r, NEW tb, NEW d, Forest(r, tb, d),
         NEW at \in Frames, d[at] \in 1 .. 3, NEW s \in Slots, ~tb[at][s].present,
         NEW f \in Frames, d[f] = 0, NEW v \in Pages
  PROVE  /\ W(r, Grown(tb, at, s, f), v) = W(r, tb, v)
         /\ HugeIn(Grown(tb, at, s, f), W2(r, Grown(tb, at, s, f), v), v, 2)
            <=> HugeIn(tb, W2(r, tb, v), v, 2)
         /\ r = at /\ Path[v][1] = s => W2(r, Grown(tb, at, s, f), v) = f
         /\ W2(r, tb, v) = at /\ Path[v][2] = s => W3(r, Grown(tb, at, s, f), v) = f
         /\ W3(r, tb, v) = at /\ Path[v][3] = s => W4(r, Grown(tb, at, s, f), v) = f
<1> DEFINE tn == Grown(tb, at, s, f)
           a2 == W2(r, tb, v)  a3 == W3(r, tb, v)  a4 == W4(r, tb, v)
           b2 == W2(r, tn, v)  b3 == W3(r, tn, v)  b4 == W4(r, tn, v)
<1>0. /\ tb \in Contents /\ Rooted(r, d) /\ f # Nowhere /\ at # Nowhere /\ at # f
      /\ \A l \in Levels : Path[v][l] \in Slots
  BY Constants DEF Forest
<1>1. /\ \A x \in Slots : tn[f][x] = Absent
      /\ \A x \in Slots : tn[at][x] = IF x = s THEN Points(f) ELSE tb[at][x]
      /\ \A g \in Frames \ {at, f} : tn[g] = tb[g]
  BY <1>0, GrownEntries
<1> HIDE DEF tn
<1>2. ASSUME NEW t, t = Nowhere \/ (t \in Frames /\ d[t] > 0), NEW l \in Levels
      PROVE  /\ ~(t = at /\ Path[v][l] = s) => WB(tn, t, v, l) = WB(tb, t, v, l)
             /\ t = at /\ Path[v][l] = s => WB(tn, t, v, l) = f /\ WB(tb, t, v, l) = Nowhere
             /\ HugeIn(tn, t, v, l) <=> HugeIn(tb, t, v, l)
             /\ HugeIn(tn, t, v, l) => tn[t][Path[v][l]] = tb[t][Path[v][l]]
             /\ l = 4 /\ t # at /\ t # Nowhere => tn[t][Path[v][l]] = tb[t][Path[v][l]]
  <2>1. CASE t = at /\ Path[v][l] = s
    <3>1. tn[t][Path[v][l]] = Points(f)
      BY <2>1, <1>0, <1>1
    <3> QED BY <2>1, <3>1, <1>0 DEF WB, HugeIn, Points
  <2>2. CASE ~(t = at /\ Path[v][l] = s) /\ t # Nowhere
    <3>1. tn[t][Path[v][l]] = tb[t][Path[v][l]]
      BY <2>2, <1>2, <1>0, <1>1
    <3> QED BY <2>2, <3>1 DEF WB, HugeIn
  <2>3. CASE t = Nowhere
    BY <2>3, <1>0 DEF WB, HugeIn
  <2> QED BY <2>1, <2>2, <2>3
<1>3. ASSUME NEW l \in Levels
      PROVE  WB(tn, f, v, l) = Nowhere /\ ~HugeIn(tn, f, v, l) /\ ~tn[f][Path[v][l]].present
             /\ WB(tn, Nowhere, v, l) = Nowhere /\ ~HugeIn(tn, Nowhere, v, l)
             /\ WB(tb, Nowhere, v, l) = Nowhere /\ ~HugeIn(tb, Nowhere, v, l)
  BY <1>0, <1>1 DEF WB, HugeIn, Absent
<1>4. /\ a2 = Nowhere \/ (a2 \in Frames /\ d[a2] = 2)
      /\ a3 = Nowhere \/ (a3 \in Frames /\ d[a3] = 3)
      /\ a4 = Nowhere \/ (a4 \in Frames /\ d[a4] = 4)
      /\ ~HugeIn(tb, a3, v, 3)
  BY WalkTyped
<1>5. /\ a3 = WB(tb, a2, v, 2) /\ a4 = WB(tb, a3, v, 3)
      /\ b3 = WB(tn, b2, v, 2) /\ b4 = WB(tn, b3, v, 3)
  BY DEF W3, W4
<1>6. /\ ~(r = at /\ Path[v][1] = s) => b2 = a2
      /\ r = at /\ Path[v][1] = s => b2 = f /\ a2 = Nowhere
  <2>1. CASE r = Nowhere
    BY <2>1, <1>0 DEF W2
  <2>2. CASE r # Nowhere /\ r = at /\ Path[v][1] = s
    BY <2>2, <1>0, <1>1 DEF W2, Points, Levels
  <2>3. CASE r # Nowhere /\ ~(r = at /\ Path[v][1] = s)
    <3>1. r \in Frames /\ d[r] = 1 /\ r # f
      BY <2>3, <1>0 DEF Rooted
    <3>2. tn[r][Path[v][1]] = tb[r][Path[v][1]]
      BY <3>1, <2>3, <1>0, <1>1 DEF Levels
    <3> QED BY <2>3, <3>2 DEF W2
  <2> QED BY <2>1, <2>2, <2>3
<1> HIDE DEF a2, a3, a4, b2, b3, b4
<1>w. /\ W(r, tb, v) = IF HugeIn(tb, a2, v, 2) THEN tb[a2][Path[v][2]].phys
                       ELSE IF HugeIn(tb, a3, v, 3) THEN tb[a3][Path[v][3]].phys
                       ELSE IF a4 # Nowhere /\ tb[a4][Path[v][4]].present
                            THEN tb[a4][Path[v][4]].phys ELSE Nowhere
      /\ W(r, tn, v) = IF HugeIn(tn, b2, v, 2) THEN tn[b2][Path[v][2]].phys
                       ELSE IF HugeIn(tn, b3, v, 3) THEN tn[b3][Path[v][3]].phys
                       ELSE IF b4 # Nowhere /\ tn[b4][Path[v][4]].present
                            THEN tn[b4][Path[v][4]].phys ELSE Nowhere
  BY DEF W, a2, a3, a4, b2, b3, b4
<1>7. CASE r = at /\ Path[v][1] = s
  <2>1. b2 = f /\ a2 = Nowhere /\ b3 = Nowhere /\ a3 = Nowhere /\ b4 = Nowhere /\ a4 = Nowhere
    BY <1>3, <1>5, <1>6, <1>7 DEF Levels
  <2> QED BY <2>1, <1>0, <1>3, <1>w DEF Levels, a2, a3, a4, b2, b3, b4, tn
<1>8. CASE ~(r = at /\ Path[v][1] = s) /\ a2 = at /\ Path[v][2] = s
  <2>1. b2 = a2 /\ b3 = f /\ a3 = Nowhere /\ b4 = Nowhere /\ a4 = Nowhere
    BY <1>2, <1>3, <1>4, <1>5, <1>6, <1>8 DEF Levels
  <2>2. ~HugeIn(tn, a2, v, 2) /\ ~HugeIn(tb, a2, v, 2)
    BY <1>8, <1>0, <1>1 DEF HugeIn, Points, Levels
  <2> QED BY <2>1, <2>2, <1>0, <1>3, <1>8, <1>w DEF Levels, a2, a3, a4, b2, b3, b4, tn
<1>9. CASE ~(r = at /\ Path[v][1] = s) /\ ~(a2 = at /\ Path[v][2] = s)
  <2>1. b2 = a2 /\ b3 = a3
    BY <1>2, <1>4, <1>5, <1>6, <1>9 DEF Levels
  <2>2. HugeIn(tn, b2, v, 2) <=> HugeIn(tb, a2, v, 2)
    BY <2>1, <1>2, <1>4 DEF Levels
  <2>3. HugeIn(tb, a2, v, 2) => tn[b2][Path[v][2]] = tb[a2][Path[v][2]]
    BY <2>1, <1>2, <1>4 DEF Levels
  <2>4. ~HugeIn(tn, b3, v, 3)
    BY <2>1, <1>2, <1>4 DEF Levels
  <2>5. CASE a3 = at /\ Path[v][3] = s
    <3>1. b4 = f /\ a4 = Nowhere
      BY <2>1, <2>5, <1>2, <1>4, <1>5 DEF Levels
    <3>2. W(r, tn, v) = W(r, tb, v)
      BY <3>1, <2>2, <2>3, <2>4, <1>3, <1>4, <1>w DEF Levels
    <3> QED BY <3>1, <3>2, <2>2, <1>0, <1>9 DEF Levels, a2, a3, a4, b2, b3, b4, tn
  <2>6. CASE ~(a3 = at /\ Path[v][3] = s)
    <3>1. b4 = a4
      BY <2>1, <2>6, <1>2, <1>4, <1>5 DEF Levels
    <3>2. a4 # Nowhere => tn[b4][Path[v][4]] = tb[a4][Path[v][4]]
      BY <3>1, <1>2, <1>4 DEF Levels
    <3>3. W(r, tn, v) = W(r, tb, v)
      BY <3>1, <3>2, <2>2, <2>3, <2>4, <1>4, <1>w
    <3> QED BY <3>3, <2>2, <2>6, <1>9 DEF a2, a3, a4, b2, b3, b4, tn
  <2> QED BY <2>5, <2>6
<1> QED BY <1>7, <1>8, <1>9

-----------------------------------------------------------------------------
Entered(tb, at, s, e) == [tb EXCEPT ![at][s] = e]

LEMMA EnteredEntries ==
  ASSUME NEW tb \in Contents, NEW at \in Frames, NEW s \in Slots, NEW e \in Entry
  PROVE  /\ Entered(tb, at, s, e) \in Contents
         /\ \A x \in Slots : Entered(tb, at, s, e)[at][x] = IF x = s THEN e ELSE tb[at][x]
         /\ \A g \in Frames \ {at} : Entered(tb, at, s, e)[g] = tb[g]
<1>2. tb[at] \in [Slots -> Entry]
  BY DEF Contents
<1> DEFINE row == [tb[at] EXCEPT ![s] = e]
<1>3. row \in [Slots -> Entry] /\ \A x \in Slots : row[x] = IF x = s THEN e ELSE tb[at][x]
  BY <1>2
<1>4. Entered(tb, at, s, e) = [tb EXCEPT ![at] = row]
  BY DEF Entered
<1> HIDE DEF row
<1> QED BY <1>3, <1>4 DEF Contents

(* A leaf is not part of the forest.                                       *)
LEMMA EnterForest ==
  ASSUME NEW r, NEW tb, NEW d, Forest(r, tb, d),
         NEW at \in Frames, NEW s \in Slots, NEW e \in Entry,
         d[at] = 4 \/ (d[at] = 2 /\ e.ps)
  PROVE  Forest(r, Entered(tb, at, s, e), d)
<1> DEFINE tn == Entered(tb, at, s, e)
<1>0. tb \in Contents /\ d \in Depths /\ Linked(tb, d) /\ Unique(tb, d) /\ Rooted(r, d)
  BY DEF Forest
<1>1. /\ tn \in Contents
      /\ \A x \in Slots : tn[at][x] = IF x = s THEN e ELSE tb[at][x]
      /\ \A g \in Frames \ {at} : tn[g] = tb[g]
  BY <1>0, EnteredEntries
<1> HIDE DEF tn
<1>2. \A g \in Frames, x \in Slots : Inner(tn, d, g, x) => Inner(tb, d, g, x) /\ tn[g][x] = tb[g][x]
  <2> SUFFICES ASSUME NEW g \in Frames, NEW x \in Slots, Inner(tn, d, g, x)
               PROVE  Inner(tb, d, g, x) /\ tn[g][x] = tb[g][x]
    OBVIOUS
  <2>1. ~(g = at /\ x = s)
    BY <1>1 DEF Inner
  <2>2. tn[g][x] = tb[g][x]
    BY <2>1, <1>1
  <2> QED BY <2>2 DEF Inner
<1>3. Linked(tn, d)
  <2> SUFFICES ASSUME NEW g \in Frames, NEW x \in Slots
               PROVE  /\ Inner(tn, d, g, x)
                         => tn[g][x].phys \in Frames /\ d[tn[g][x].phys] = d[g] + 1
                      /\ d[g] \in {1, 3} /\ tn[g][x].present => ~tn[g][x].ps
    BY DEF Linked
  <2>1. Inner(tn, d, g, x) => tn[g][x].phys \in Frames /\ d[tn[g][x].phys] = d[g] + 1
    BY <1>0, <1>2 DEF Linked
  <2>2. d[g] \in {1, 3} => tn[g] = tb[g]
    BY <1>1
  <2> QED BY <2>1, <2>2, <1>0 DEF Linked
<1>4. Unique(tn, d)
  BY <1>0, <1>2 DEF Unique
<1> QED BY <1>0, <1>1, <1>3, <1>4 DEF Forest, tn

(* An entry of a page table decides about the page whose walk ends there,   *)
(* and about no other.                                                     *)
LEMMA LeafWalk ==
  ASSUME NEW r, NEW tb, NEW d, Forest(r, tb, d),
         NEW at \in Frames, d[at] = 4, NEW s \in Slots, NEW e \in Entry, NEW v \in Pages
  PROVE  /\ W2(r, Entered(tb, at, s, e), v) = W2(r, tb, v)
         /\ HugeIn(Entered(tb, at, s, e), W2(r, Entered(tb, at, s, e), v), v, 2)
            <=> HugeIn(tb, W2(r, tb, v), v, 2)
         /\ ~(W4(r, tb, v) = at /\ Path[v][4] = s)
            => W(r, Entered(tb, at, s, e), v) = W(r, tb, v)
         /\ W4(r, tb, v) = at /\ Path[v][4] = s /\ ~HugeIn(tb, W2(r, tb, v), v, 2)
            => W(r, Entered(tb, at, s, e), v) = IF e.present THEN e.phys ELSE Nowhere
<1> DEFINE tn == Entered(tb, at, s, e)
           a2 == W2(r, tb, v)  a3 == W3(r, tb, v)  a4 == W4(r, tb, v)
           b2 == W2(r, tn, v)  b3 == W3(r, tn, v)  b4 == W4(r, tn, v)
<1>0. /\ tb \in Contents /\ Rooted(r, d) /\ at # Nowhere
      /\ \A l \in Levels : Path[v][l] \in Slots
  BY Constants DEF Forest
<1>1. /\ \A x \in Slots : tn[at][x] = IF x = s THEN e ELSE tb[at][x]
      /\ \A g \in Frames \ {at} : tn[g] = tb[g]
  BY <1>0, EnteredEntries
<1>2. /\ a2 = Nowhere \/ (a2 \in Frames /\ d[a2] = 2)
      /\ a3 = Nowhere \/ (a3 \in Frames /\ d[a3] = 3)
      /\ a4 = Nowhere \/ (a4 \in Frames /\ d[a4] = 4)
      /\ ~HugeIn(tb, a3, v, 3)
  BY WalkTyped
<1> HIDE DEF tn
<1>3. b2 = a2
  BY <1>0, <1>1 DEF W2, Rooted
<1>4. /\ b3 = a3
      /\ HugeIn(tn, b2, v, 2) <=> HugeIn(tb, a2, v, 2)
      /\ HugeIn(tb, a2, v, 2) => tn[b2] = tb[a2]
  <2>1. CASE a2 = Nowhere
    BY <2>1, <1>3 DEF W3, WB, HugeIn
  <2>2. CASE a2 # Nowhere
    <3>1. tn[a2] = tb[a2]
      BY <2>2, <1>1, <1>2
    <3> QED BY <3>1, <1>3 DEF W3, WB, HugeIn
  <2> QED BY <2>1, <2>2
<1>5. b4 = a4 /\ ~HugeIn(tn, b3, v, 3)
  <2>1. CASE a3 = Nowhere
    BY <2>1, <1>4 DEF W4, WB, HugeIn
  <2>2. CASE a3 # Nowhere
    <3>1. tn[a3] = tb[a3]
      BY <2>2, <1>1, <1>2
    <3> QED BY <3>1, <1>2, <1>4 DEF W4, WB, HugeIn
  <2> QED BY <2>1, <2>2
<1>w. /\ W(r, tb, v) = IF HugeIn(tb, a2, v, 2) THEN tb[a2][Path[v][2]].phys
                       ELSE IF a4 # Nowhere /\ tb[a4][Path[v][4]].present
                            THEN tb[a4][Path[v][4]].phys ELSE Nowhere
      /\ W(r, tn, v) = IF HugeIn(tb, a2, v, 2) THEN tb[a2][Path[v][2]].phys
                       ELSE IF a4 # Nowhere /\ tn[a4][Path[v][4]].present
                            THEN tn[a4][Path[v][4]].phys ELSE Nowhere
  BY <1>2, <1>3, <1>4, <1>5 DEF W
<1>6. ASSUME ~(a4 = at /\ Path[v][4] = s)
      PROVE  W(r, tn, v) = W(r, tb, v)
  <2>1. a4 # Nowhere => tn[a4][Path[v][4]] = tb[a4][Path[v][4]]
    BY <1>0, <1>1, <1>2, <1>6 DEF Levels
  <2> QED BY <2>1, <1>w
<1>7. ASSUME a4 = at, Path[v][4] = s, ~HugeIn(tb, a2, v, 2)
      PROVE  W(r, tn, v) = IF e.present THEN e.phys ELSE Nowhere
  <2>1. tn[a4][Path[v][4]] = e
    BY <1>0, <1>1, <1>7
  <2> QED BY <2>1, <1>0, <1>7, <1>w
<1> QED BY <1>3, <1>4, <1>6, <1>7 DEF tn

(* A huge leaf decides about the pages whose walk ends one level earlier.  *)
LEMMA HugeWalk ==
  ASSUME NEW r, NEW tb, NEW d, Forest(r, tb, d),
         NEW at \in Frames, d[at] = 2, NEW s \in Slots, NEW e \in Entry, e.present, e.ps,
         NEW v \in Pages
  PROVE  /\ W2(r, Entered(tb, at, s, e), v) = W2(r, tb, v)
         /\ ~(W2(r, tb, v) = at /\ Path[v][2] = s)
            => /\ W(r, Entered(tb, at, s, e), v) = W(r, tb, v)
               /\ HugeIn(Entered(tb, at, s, e), W2(r, tb, v), v, 2)
                  <=> HugeIn(tb, W2(r, tb, v), v, 2)
         /\ W2(r, tb, v) = at /\ Path[v][2] = s
            => W(r, Entered(tb, at, s, e), v) = e.phys
<1> DEFINE tn == Entered(tb, at, s, e)
           a2 == W2(r, tb, v)  a3 == W3(r, tb, v)  a4 == W4(r, tb, v)
           b2 == W2(r, tn, v)  b3 == W3(r, tn, v)  b4 == W4(r, tn, v)
<1>0. /\ tb \in Contents /\ Rooted(r, d) /\ at # Nowhere
      /\ \A l \in Levels : Path[v][l] \in Slots
  BY Constants DEF Forest
<1>1. /\ \A x \in Slots : tn[at][x] = IF x = s THEN e ELSE tb[at][x]
      /\ \A g \in Frames \ {at} : tn[g] = tb[g]
  BY <1>0, EnteredEntries
<1>2. /\ a2 = Nowhere \/ (a2 \in Frames /\ d[a2] = 2)
      /\ a3 = Nowhere \/ (a3 \in Frames /\ d[a3] = 3)
      /\ a4 = Nowhere \/ (a4 \in Frames /\ d[a4] = 4)
      /\ ~HugeIn(tb, a3, v, 3)
  BY WalkTyped
<1> HIDE DEF tn
<1>3. b2 = a2
  BY <1>0, <1>1 DEF W2, Rooted
<1>4. ASSUME ~(a2 = at /\ Path[v][2] = s)
      PROVE  W(r, tn, v) = W(r, tb, v) /\ (HugeIn(tn, a2, v, 2) <=> HugeIn(tb, a2, v, 2))
  <2>1. a2 # Nowhere => tn[a2][Path[v][2]] = tb[a2][Path[v][2]]
    BY <1>0, <1>1, <1>2, <1>4 DEF Levels
  <2>2. HugeIn(tn, a2, v, 2) <=> HugeIn(tb, a2, v, 2)
    BY <2>1 DEF HugeIn
  <2>3. b3 = a3
    BY <2>1, <1>3 DEF W3, WB
  <2>4. a3 # Nowhere => tn[a3] = tb[a3]
    BY <1>1, <1>2
  <2>5. b4 = a4 /\ ~HugeIn(tn, b3, v, 3)
    BY <2>3, <2>4, <1>2 DEF W4, WB, HugeIn
  <2>6. a4 # Nowhere => tn[a4] = tb[a4]
    BY <1>1, <1>2
  <2>7. /\ W(r, tb, v) = IF HugeIn(tb, a2, v, 2) THEN tb[a2][Path[v][2]].phys
                         ELSE IF a4 # Nowhere /\ tb[a4][Path[v][4]].present
                              THEN tb[a4][Path[v][4]].phys ELSE Nowhere
        /\ W(r, tn, v) = IF HugeIn(tn, a2, v, 2) THEN tn[a2][Path[v][2]].phys
                         ELSE IF a4 # Nowhere /\ tn[a4][Path[v][4]].present
                              THEN tn[a4][Path[v][4]].phys ELSE Nowhere
    BY <1>2, <1>3, <2>5 DEF W
  <2>8. HugeIn(tb, a2, v, 2) => tn[a2][Path[v][2]] = tb[a2][Path[v][2]]
    BY <2>1 DEF HugeIn
  <2> QED BY <2>2, <2>6, <2>7, <2>8
<1>5. ASSUME a2 = at, Path[v][2] = s
      PROVE  W(r, tn, v) = e.phys
  <2>1. tn[a2][Path[v][2]] = e
    BY <1>0, <1>1, <1>5
  <2>2. HugeIn(tn, b2, v, 2)
    BY <2>1, <1>0, <1>3, <1>5 DEF HugeIn
  <2> QED BY <2>1, <2>2, <1>3 DEF W
<1> QED BY <1>3, <1>4, <1>5 DEF tn

-----------------------------------------------------------------------------
(* The inductive invariant.                                                *)
ImagePages == {Image[j].virt : j \in DOMAIN Image}
HeapOps == {"alloc", "unwind", "release"}
MmioOps == {"map", "rollback", "unmap"}
InHeap(virt, pages) ==
  HeapBase <= virt /\ virt + pages <= heapNext /\ virt + pages <= HeapEnd
InMmio(virt, pages) ==
  MmioBase <= virt /\ virt + pages <= mmioNext /\ virt + pages <= MmioEnd
At(v) == W(root, table, v)

(* The frames with a depth are the tables of a forest.                     *)
Tree == Forest(root, table, depth)

(* No huge leaf is in the way of a window or of the kernel.                *)
NoHuge ==
  \A v \in Window \cup ImagePages : ~HugeIn(table, W2(root, table, v), v, 2)

(* Ranges handed out, and the one a call works on, lie behind the cursors. *)
Ranges ==
  /\ HeapBase <= heapNext /\ MmioBase <= mmioNext
  /\ heapNext <= HeapEnd /\ mmioNext <= MmioEnd
  /\ \A r \in live : /\ r.kind = "heap" => InHeap(r.virt, r.pages)
                     /\ r.kind = "mmio" => InMmio(r.virt, r.pages)
  /\ call.op \in HeapOps => InHeap(call.virt, call.pages) /\ call.i <= call.pages
  /\ call.op \in MmioOps => InMmio(call.virt, call.pages) /\ call.i <= call.pages

Progress ==
  /\ call.op = "boot" => root = Nowhere /\ \A f \in Frames : depth[f] = 0
  /\ call.op \notin {"boot", "failed"} => root \in Frames
  /\ call.op = "direct" => call.i <= Len(DirectMap)
  /\ call.op = "section" => call.i <= Len(Image)
  /\ call.op = "map" => call.phys \in Nat
  /\ call.op = "alloc" /\ call.level > 0 => call.phys \in Frames
  /\ ~Switched => tlb = {}

(* A walk that creates tables stands on the path of its page.              *)
OnWalk ==
  call.level > 0 =>
    /\ call.op \in Maps \cup {"alloc"}
    /\ call.level <= LeafLevel /\ call.i < Count
    /\ call.at \in Frames /\ depth[call.at] = call.level
    /\ call.level = 1 => call.at = root
    /\ call.level = 2 => call.at = W2(root, table, PageNow)
    /\ call.level = 3 => call.at = W3(root, table, PageNow)
    /\ call.level = 4 => call.at = W4(root, table, PageNow)

(* What the running call and later ones have yet to map is not mapped.     *)
Pending ==
  {v \in HeapPages : heapNext <= v} \cup {v \in MmioBase .. MmioEnd : mmioNext <= v}
  \cup (IF call.op \in {"alloc", "map"}
        THEN (call.virt + call.i) .. (call.virt + call.pages - 1) ELSE {})
  \cup (IF call.op = "direct" THEN ImagePages ELSE {})
  \cup (IF call.op = "section" THEN {Image[j].virt : j \in (call.i + 1) .. Len(Image)} ELSE {})
  \cup (IF call.op = "direct"
        THEN {DirectMap[j].virt : j \in (call.i + 1) .. Len(DirectMap)} ELSE {})
Fresh == \A v \in Pending : At(v) = Nowhere

(* FramesHaveOneUse, with the walk as an operator of root and tables.      *)
Backing == {At(v) : v \in {w \in HeapPages : At(w) # Nowhere}}
OneUse ==
  /\ supply = free \cup Tables \cup Backing \cup InHand
  /\ free \cap Tables = {}
  /\ Backing \cap (free \cup Tables) = {}
  /\ InHand \cap (free \cup Tables \cup Backing) = {}
  /\ \A v, w \in HeapPages : At(v) # Nowhere /\ At(v) = At(w) => v = w

Coherent == \A t \in tlb : At(t.page) = t.phys

VmmInv ==
  TypeOK /\ Tree /\ NoHuge /\ Ranges /\ Progress /\ OnWalk /\ Fresh /\ OneUse /\ Coherent

-----------------------------------------------------------------------------
LEMMA AtIsTranslation ==
  /\ \A v \in Pages : /\ MmGetPhysicalAddress(v) = At(v)
                      /\ TableAt2(v) = W2(root, table, v)
                      /\ TableAt3(v) = W3(root, table, v)
                      /\ TableAt4(v) = W4(root, table, v)
  /\ \A v \in Pages : MmGetPhysicalAddress(v)' = At(v)'
<1>1. ASSUME NEW v \in Pages
      PROVE  /\ MmGetPhysicalAddress(v) = At(v)
             /\ TableAt2(v) = W2(root, table, v)
             /\ TableAt3(v) = W3(root, table, v)
             /\ TableAt4(v) = W4(root, table, v)
  BY DEF MmGetPhysicalAddress, At, W, W2, W3, W4, WB, HugeIn, TableAt2, TableAt3, TableAt4,
         Below, IsHuge, EntryAt
<1>2. ASSUME NEW v \in Pages
      PROVE  MmGetPhysicalAddress(v)' = At(v)'
  BY DEF MmGetPhysicalAddress, At, W, W2, W3, W4, WB, HugeIn, TableAt2,
         Below, IsHuge, EntryAt
<1> QED BY <1>1, <1>2

(* Where there is no root nothing is mapped.                               *)
LEMMA NothingMapped ==
  ASSUME root = Nowhere, NEW v
  PROVE  At(v) = Nowhere
<1> DEFINE tb == table
<1>1. W2(root, tb, v) = Nowhere
  BY DEF W2
<1>2. W3(root, tb, v) = Nowhere
  BY <1>1 DEF W3, WB
<1>3. W4(root, tb, v) = Nowhere
  BY <1>2 DEF W4, WB
<1>4. W(root, tb, v) = Nowhere
  BY <1>1, <1>2, <1>3 DEF W, HugeIn
<1> QED BY <1>4 DEF At

LEMMA Layout ==
  /\ Window \subseteq Pages /\ ImagePages \subseteq Pages
  /\ HeapPages \subseteq Window /\ (MmioBase .. MmioEnd) \subseteq Window
  /\ HeapPages \cap (MmioBase .. MmioEnd) = {}
  /\ ImagePages \cap Window = {}
  /\ HeapBase \in Nat /\ HeapEnd \in Nat /\ MmioBase \in Nat /\ MmioEnd \in Nat
  /\ Len(Image) \in Nat /\ DOMAIN Image = 1 .. Len(Image)
  /\ \A j \in 1 .. Len(Image) :
       Image[j].virt \in Pages /\ Image[j].phys \in Nat /\ Image[j].virt \in ImagePages
  /\ Len(DirectMap) \in Nat /\ DOMAIN DirectMap = 1 .. Len(DirectMap)
  /\ \A j \in 1 .. Len(DirectMap) :
       DirectMap[j].virt \in Pages /\ DirectMap[j].phys \in Nat
<1>1. Image \in Seq([virt : Pages, phys : Nat, section : Nat])
      /\ DirectMap \in Seq([virt : Pages, phys : Nat])
  BY VmmAssumption
<1>s. \A S : \A q \in Seq(S) :
        Len(q) \in Nat /\ DOMAIN q = 1 .. Len(q) /\ \A j \in 1 .. Len(q) : q[j] \in S
  OBVIOUS
<1>2. /\ Len(Image) \in Nat /\ DOMAIN Image = 1 .. Len(Image)
      /\ \A j \in 1 .. Len(Image) : Image[j] \in [virt : Pages, phys : Nat, section : Nat]
  BY <1>1, <1>s, Zenon
<1>3. /\ Len(DirectMap) \in Nat /\ DOMAIN DirectMap = 1 .. Len(DirectMap)
      /\ \A j \in 1 .. Len(DirectMap) : DirectMap[j] \in [virt : Pages, phys : Nat]
  BY <1>1, <1>s, Zenon
<1>4. Window \subseteq Pages /\ {HeapBase, HeapEnd, MmioBase, MmioEnd} \subseteq Nat
  BY VmmAssumption
<1>5. \A i \in DOMAIN Image : Image[i].virt \notin Window
  BY LayoutAssumption
<1>6. HeapPages \cap (MmioBase .. MmioEnd) = {}
  BY LayoutAssumption DEF HeapPages
<1>7. ASSUME NEW j \in 1 .. Len(Image)
      PROVE  /\ Image[j].virt \in Pages /\ Image[j].phys \in Nat
             /\ Image[j].virt \in ImagePages
  BY <1>2 DEF ImagePages
<1>8. ASSUME NEW j \in 1 .. Len(DirectMap)
      PROVE  DirectMap[j].virt \in Pages /\ DirectMap[j].phys \in Nat
  BY <1>3
<1>9. ImagePages \subseteq Pages /\ ImagePages \cap Window = {}
  BY <1>2, <1>5, <1>7 DEF ImagePages
<1>10. HeapPages \subseteq Window /\ (MmioBase .. MmioEnd) \subseteq Window
  BY DEF HeapPages, Window
<1>11. HeapBase \in Nat /\ HeapEnd \in Nat /\ MmioBase \in Nat /\ MmioEnd \in Nat
  BY <1>4
<1> QED BY <1>2, <1>3, <1>4, <1>6, <1>7, <1>8, <1>9, <1>10, <1>11

(* The ends of the windows, and what lies between them.                    *)
LEMMA Inside ==
  ASSUME NEW low \in Nat, NEW high \in Nat, NEW a \in Nat, NEW i \in Nat, NEW n \in Nat,
         low <= a, a + n <= high
  PROVE  /\ (a + i) .. (a + n - 1) \subseteq low .. high
         /\ a .. (a + n - 1) \subseteq low .. high
         /\ i < n => a + i \in low .. high /\ \A e \in Nat : a + n <= e => a + i < e
         /\ i <= n => a .. (a + i - 1) \subseteq low .. high
OBVIOUS

LEMMA Ends ==
  /\ HeapBase \in Nat /\ HeapEnd \in Nat /\ MmioBase \in Nat /\ MmioEnd \in Nat
  /\ HeapPages = HeapBase .. HeapEnd /\ HeapPages \subseteq Window
  /\ (MmioBase .. MmioEnd) \subseteq Window /\ Window \subseteq Pages
BY Layout DEF HeapPages

LEMMA CallFields ==
  ASSUME NEW c \in Call
  PROVE  /\ c.op \in Ops /\ c.virt \in Nat /\ c.phys \in Nat \cup {Nowhere}
         /\ c.pages \in Nat /\ c.i \in Nat /\ c.level \in 0 .. 4
         /\ c.at \in Frames \cup {Nowhere}
BY DEF Call

LEMMA Nought ==
  0 \in 0 .. 4 /\ 0 \in Nat /\ Nowhere \in Frames \cup {Nowhere}
OBVIOUS

LEMMA StartTyped ==
  ASSUME NEW op \in Ops, NEW virt \in Nat, NEW phys \in Nat \cup {Nowhere}, NEW pages \in Nat
  PROVE  /\ Start(op, virt, phys, pages) \in Call
         /\ Start(op, virt, phys, pages).op = op
         /\ Start(op, virt, phys, pages).virt = virt
         /\ Start(op, virt, phys, pages).phys = phys
         /\ Start(op, virt, phys, pages).pages = pages
         /\ Start(op, virt, phys, pages).i = 0
         /\ Start(op, virt, phys, pages).level = 0
BY DEF Start, Call

LEMMA StartNowhere ==
  ASSUME NEW op \in Ops, NEW virt \in Nat, NEW pages \in Nat
  PROVE  /\ Start(op, virt, Nowhere, pages) \in Call
         /\ Start(op, virt, Nowhere, pages).op = op
         /\ Start(op, virt, Nowhere, pages).virt = virt
         /\ Start(op, virt, Nowhere, pages).pages = pages
         /\ Start(op, virt, Nowhere, pages).i = 0
         /\ Start(op, virt, Nowhere, pages).level = 0
BY DEF Start, Call

(* Where a loop is decides which page it works on.                         *)
LEMMA PageNowTyped ==
  ASSUME TypeOK, Ranges, Progress, call.i < Count
  PROVE  /\ call.op = "direct" => /\ call.i + 1 \in 1 .. Len(DirectMap)
                                  /\ PageNow = DirectMap[call.i + 1].virt
                                  /\ PhysNow = DirectMap[call.i + 1].phys
         /\ call.op = "section" => /\ call.i + 1 \in 1 .. Len(Image)
                                   /\ PageNow = Image[call.i + 1].virt
                                   /\ PhysNow = Image[call.i + 1].phys
         /\ call.op \in HeapOps \cup MmioOps => PageNow = call.virt + call.i /\ PageNow \in Nat
         /\ call.op \in HeapOps => PageNow \in HeapPages /\ PageNow < heapNext
         /\ call.op \in MmioOps => PageNow \in MmioBase .. MmioEnd /\ PageNow < mmioNext
         /\ call.op \in HeapOps \cup MmioOps \cup Maps => PageNow \in Pages
         /\ call.op \in HeapOps \cup MmioOps => PageNow \in Window
         /\ call.op \in Maps => PhysNow \in Nat
         /\ call.op = "alloc" => PhysNow = call.phys
<1>1. /\ call.op \in Ops /\ call.virt \in Nat /\ call.phys \in Nat \cup {Nowhere}
      /\ call.pages \in Nat /\ call.i \in Nat
  BY CallFields DEF TypeOK
<1>2. heapNext \in Nat /\ mmioNext \in Nat
  BY DEF TypeOK
<1>3. CASE call.op = "direct"
  <2>1. call.i + 1 \in 1 .. Len(DirectMap)
    BY <1>1, <1>3, Layout DEF Count
  <2> QED BY <2>1, <1>3, Layout DEF PageNow, PhysNow, HeapOps, MmioOps
<1>4. CASE call.op = "section"
  <2>1. call.i + 1 \in 1 .. Len(Image)
    BY <1>1, <1>4, Layout DEF Count
  <2> QED BY <2>1, <1>4, Layout DEF PageNow, PhysNow, HeapOps, MmioOps
<1>5. CASE call.op \in HeapOps
  <2>1. PageNow = call.virt + call.i /\ call.i < call.pages
    BY <1>5 DEF PageNow, Count, HeapOps
  <2>2. PageNow \in HeapPages /\ PageNow < heapNext
    <3>1. /\ HeapBase <= call.virt /\ call.virt + call.pages <= heapNext
          /\ call.virt + call.pages <= HeapEnd
      BY <1>5 DEF Ranges, InHeap
    <3>2. HeapBase \in Nat /\ HeapEnd \in Nat
      BY Ends
    <3>3. call.virt + call.i \in HeapBase .. HeapEnd /\ call.virt + call.i < heapNext
      BY <1>1, <1>2, <2>1, <3>1, <3>2, Inside
    <3> QED BY <2>1, <3>3, Ends
  <2>3. call.op = "alloc" => PhysNow = call.phys
    BY DEF PhysNow
  <2> QED BY <2>1, <2>2, <2>3, <1>1, <1>5, Layout DEF HeapOps, MmioOps, Maps
<1>6. CASE call.op \in MmioOps
  <2>1. PageNow = call.virt + call.i /\ call.i < call.pages
    BY <1>6 DEF PageNow, Count, MmioOps
  <2>2. PageNow \in MmioBase .. MmioEnd /\ PageNow < mmioNext
    <3>1. /\ MmioBase <= call.virt /\ call.virt + call.pages <= mmioNext
          /\ call.virt + call.pages <= MmioEnd
      BY <1>6 DEF Ranges, InMmio
    <3>2. MmioBase \in Nat /\ MmioEnd \in Nat
      BY Ends
    <3>3. call.virt + call.i \in MmioBase .. MmioEnd /\ call.virt + call.i < mmioNext
      BY <1>1, <1>2, <2>1, <3>1, <3>2, Inside
    <3> QED BY <2>1, <3>3
  <2>3. call.op = "map" => PhysNow \in Nat
    BY <1>1 DEF PhysNow, Progress
  <2> QED BY <2>1, <2>2, <2>3, <1>1, <1>6, Layout DEF HeapOps, MmioOps, Maps
<1> QED BY <1>3, <1>4, <1>5, <1>6 DEF HeapOps, MmioOps, Maps

-----------------------------------------------------------------------------
(* What the steps that write tables do to the translations.                *)
LEMMA OnePage ==
  ASSUME Tree, NEW v \in Pages, NEW w \in Pages,
         W4(root, table, v) = W4(root, table, w), W4(root, table, v) # Nowhere,
         Path[v][4] = Path[w][4]
  PROVE  v = w
<1>1. Path[v][1] = Path[w][1] /\ Path[v][2] = Path[w][2] /\ Path[v][3] = Path[w][3]
  BY WalksMeet DEF Tree
<1>2. \A l \in Levels : Path[v][l] = Path[w][l]
  BY <1>1 DEF Levels
<1> QED BY <1>2, Constants

LEMMA QuietEffect ==
  ASSUME UNCHANGED <<table, root, depth>>
  PROVE  /\ Tree => Tree'
         /\ NoHuge => NoHuge'
         /\ \A v \in Pages : At(v)' = At(v)
BY DEF Tree, NoHuge, At

LEMMA InitEffect ==
  ASSUME VmmInv, MmInitPaging
  PROVE  /\ Tree' /\ NoHuge'
         /\ \A v \in Pages : At(v)' = Nowhere /\ At(v) = Nowhere
<1>1. /\ root = Nowhere /\ \A f \in Frames : depth[f] = 0
      /\ Tree /\ table \in Contents /\ depth \in Depths
  BY DEF VmmInv, Progress, MmInitPaging, Tree, Forest
<1>2. \A tb, v : W2(Nowhere, tb, v) = Nowhere /\ W(Nowhere, tb, v) = Nowhere
  BY DEF W2, W3, W4, WB, W, HugeIn
<1>3. CASE UNCHANGED <<table, root, depth>>
  BY <1>1, <1>2, <1>3, QuietEffect DEF VmmInv, At
<1>4. ASSUME NEW f \in Frames, table' = [table EXCEPT ![f] = Zeroed], root' = f,
             depth' = [depth EXCEPT ![f] = 1]
      PROVE  /\ Tree' /\ NoHuge'
             /\ \A v \in Pages : At(v)' = Nowhere /\ At(v) = Nowhere
  <2>1. Zeroed \in [Slots -> Entry] /\ \A x \in Slots : Zeroed[x] = Absent
    BY DEF Zeroed, Absent, Entry
  <2>2. table' \in Contents /\ \A x \in Slots : table'[f][x] = Absent
    BY <1>1, <1>4, <2>1 DEF Contents
  <2>3. depth' \in Depths /\ depth'[f] = 1 /\ \A g \in Frames \ {f} : depth'[g] = 0
    BY <1>1, <1>4 DEF Depths
  <2>4. \A g \in Frames, x \in Slots : ~Inner(table', depth', g, x)
    <3> SUFFICES ASSUME NEW g \in Frames, NEW x \in Slots, Inner(table', depth', g, x) PROVE FALSE
      OBVIOUS
    <3>1. g = f
      BY <2>3 DEF Inner
    <3> QED BY <3>1, <2>2 DEF Inner, Absent
  <2>5. Linked(table', depth') /\ Unique(table', depth') /\ Rooted(root', depth')
    <3>1. \A g \in Frames, x \in Slots :
            depth'[g] \in {1, 3} /\ table'[g][x].present => ~table'[g][x].ps
      <4> SUFFICES ASSUME NEW g \in Frames, NEW x \in Slots, depth'[g] \in {1, 3},
                          table'[g][x].present
                   PROVE  FALSE
        OBVIOUS
      <4>1. g = f
        BY <2>3
      <4> QED BY <4>1, <2>2 DEF Absent
    <3> QED BY <2>3, <2>4, <3>1, <1>4 DEF Linked, Unique, Rooted
  <2>6. Tree'
    BY <2>2, <2>3, <2>5 DEF Tree, Forest
  <2>7. ASSUME NEW v \in Pages
        PROVE  W2(root', table', v) = Nowhere /\ W(root', table', v) = Nowhere
    <3>1. ~table'[f][Path[v][1]].present
      BY <2>2, Constants DEF Absent, Levels
    <3>2. W2(root', table', v) = Nowhere
      BY <3>1, <1>4 DEF W2
    <3> QED BY <3>2 DEF W3, W4, WB, W, HugeIn
  <2>8. NoHuge'
    BY <2>7, Layout DEF NoHuge, HugeIn
  <2> QED BY <2>6, <2>7, <2>8, <1>1, <1>2 DEF At
<1> QED BY <1>3, <1>4 DEF MmInitPaging

LEMMA CreateEffect ==
  ASSUME VmmInv, CreateTable
  PROVE  /\ Tree' /\ NoHuge'
         /\ \A v \in Pages : At(v)' = At(v)
         /\ OnWalk'
         /\ \E f \in free : /\ free' = free \ {f}
                            /\ Tables' = Tables \cup {f}
<1> DEFINE page == PageNow
           s == Path[page][call.level]
<1>1. /\ TypeOK /\ Tree /\ OnWalk /\ OneUse /\ Ranges /\ Progress /\ NoHuge
  BY DEF VmmInv
<1>2. call.level \in 1 .. 3 /\ call.level < LeafLevel
  BY <1>1, CallFields DEF CreateTable, Descending, LeafLevel, TypeOK
<1>3. /\ call.op \in Maps \cup {"alloc"} /\ call.i < Count
      /\ call.at \in Frames /\ depth[call.at] = call.level
  BY <1>1, <1>2 DEF OnWalk
<1>4. page \in Pages
  BY <1>1, <1>3, PageNowTyped DEF Maps, HeapOps
<1>5. s \in Slots
  BY <1>2, <1>4, Constants DEF Levels
<1>6. ~table[call.at][s].present
  BY DEF CreateTable, Here, EntryAt
<1>7. PICK f \in Frames :
        /\ f \in free /\ free' = free \ {f}
        /\ table' = Grown(table, call.at, s, f)
        /\ depth' = [depth EXCEPT ![f] = call.level + 1]
        /\ call' = [call EXCEPT !.at = f, !.level = @ + 1]
  <2>1. free \in SUBSET Frames
    BY <1>1 DEF TypeOK
  <2>2. Search[free] \subseteq free
    BY <2>1, VmmAssumption
  <2>3. PICK f \in Frames :
          /\ Takes(f) /\ Create(f)
          /\ depth' = [depth EXCEPT ![f] = call.level + 1]
          /\ call' = [call EXCEPT !.at = f, !.level = @ + 1]
    BY Zenon DEF CreateTable
  <2>4. f \in free /\ free' = free \ {f}
    BY <2>2, <2>3 DEF Takes
  <2>5. table' = Grown(table, call.at, s, f)
    BY <2>3 DEF Create, Grown
  <2> QED BY <2>3, <2>4, <2>5
<1>8. depth[f] = 0
  BY <1>1, <1>7 DEF OneUse, Tables, TypeOK
<1>9. root' = root
  BY DEF CreateTable
<1>10. Tree'
  BY <1>1, <1>2, <1>3, <1>5, <1>6, <1>7, <1>8, <1>9, GrowForest DEF Tree
<1>11. ASSUME NEW v \in Pages
       PROVE  /\ W(root', table', v) = W(root, table, v)
              /\ HugeIn(table', W2(root', table', v), v, 2)
                 <=> HugeIn(table, W2(root, table, v), v, 2)
              /\ root = call.at /\ Path[v][1] = s => W2(root', table', v) = f
              /\ W2(root, table, v) = call.at /\ Path[v][2] = s => W3(root', table', v) = f
              /\ W3(root, table, v) = call.at /\ Path[v][3] = s => W4(root', table', v) = f
  <2>1. Forest(root, table, depth)
    BY <1>1 DEF Tree
  <2> HIDE DEF s
  <2> QED BY <2>1, <1>2, <1>3, <1>5, <1>6, <1>7, <1>8, <1>9, GrowWalk
<1>12. NoHuge'
  BY <1>1, <1>11, Layout DEF NoHuge
<1>13. \A v \in Pages : At(v)' = At(v)
  BY <1>11 DEF At
<1>14. OnWalk'
  <2>1. /\ call'.op = call.op /\ call'.virt = call.virt /\ call'.phys = call.phys
        /\ call'.pages = call.pages /\ call'.i = call.i
        /\ call'.at = f /\ call'.level = call.level + 1
    BY <1>1, <1>7 DEF TypeOK, Call
  <2>2. PageNow' = page /\ Count' = Count /\ LeafLevel' = LeafLevel
    BY <2>1 DEF PageNow, Count, LeafLevel
  <2>3. depth'[f] = call.level + 1
    BY <1>1, <1>7 DEF TypeOK
  <2>4. /\ call.level = 1 => call.at = root
        /\ call.level = 2 => call.at = W2(root, table, page)
        /\ call.level = 3 => call.at = W3(root, table, page)
    BY <1>1, <1>2 DEF OnWalk
  <2>5. /\ call.level = 1 => W2(root', table', page) = f
        /\ call.level = 2 => W3(root', table', page) = f
        /\ call.level = 3 => W4(root', table', page) = f
    BY <2>4, <1>4, <1>11
  <2>6. LeafLevel \in Nat /\ call.level + 1 <= LeafLevel /\ call.i < Count
    BY <1>2, <1>3 DEF LeafLevel
  <2> HIDE DEF page, s
  <2>7. /\ call'.op \in Maps \cup {"alloc"} /\ call'.level <= LeafLevel' /\ call'.i < Count'
        /\ call'.at \in Frames /\ depth'[call'.at] = call'.level
    BY <2>1, <2>2, <2>3, <2>6, <1>3
  <2>8. /\ call'.level # 1
        /\ call'.level = 2 => call'.at = W2(root', table', PageNow')
        /\ call'.level = 3 => call'.at = W3(root', table', PageNow')
        /\ call'.level = 4 => call'.at = W4(root', table', PageNow')
    BY <2>1, <2>2, <2>5, <1>2
  <2> QED BY <2>7, <2>8 DEF OnWalk
<1>15. Tables' = Tables \cup {f}
  BY <1>1, <1>2, <1>7 DEF Tables, TypeOK
<1> QED BY <1>7, <1>10, <1>12, <1>13, <1>14, <1>15

LEMMA WriteEffect ==
  ASSUME VmmInv, WriteLeaf
  PROVE  /\ Tree' /\ NoHuge'
         /\ \E v \in Pages, p \in Nat :
              /\ v = PageNow /\ p = PhysNow
              /\ At(v) = Nowhere /\ At(v)' = p
              /\ \A w \in Pages \ {v} : At(w)' = At(w)
<1>p. PICK page : page = PageNow
  OBVIOUS
<1> DEFINE leaf == IF call.op = "direct" THEN HugeLeaf(PhysNow) ELSE Points(PhysNow)
           s == Path[page][call.level]
<1>1. TypeOK /\ Tree /\ OnWalk /\ Ranges /\ Progress /\ NoHuge /\ Fresh
  BY DEF VmmInv
<1>2. call.level = LeafLevel /\ call.level \in {2, 4}
  BY DEF WriteLeaf, LeafLevel
<1>3. /\ call.op \in Maps \cup {"alloc"} /\ call.i < Count
      /\ call.at \in Frames /\ depth[call.at] = call.level
      /\ call.level = 2 => call.at = W2(root, table, page)
      /\ call.level = 4 => call.at = W4(root, table, page)
  BY <1>p, <1>1, <1>2 DEF OnWalk
<1>4. page \in Pages /\ PhysNow \in Nat
  <2>1. call.op = "alloc" => call.phys \in Nat
    <3>1. call.level > 0 /\ Frames \subseteq Nat
      BY <1>2, Constants
    <3> QED BY <3>1, <1>1 DEF Progress
  <2> QED BY <1>p, <1>1, <1>3, <2>1, PageNowTyped DEF Maps, HeapOps
<1>5. s \in Slots /\ leaf \in Entry
  BY <1>2, <1>4, Constants DEF Levels, Entry, HugeLeaf, Points
<1>6. table' = Entered(table, call.at, s, leaf) /\ root' = root /\ depth' = depth
  BY <1>p DEF WriteLeaf, Entered
<1>7. At(page) = Nowhere
  <2>1. page \in Pending
    <3>1. call.i \in Nat /\ call.virt \in Nat /\ call.pages \in Nat
      BY <1>1, CallFields DEF TypeOK
    <3>2. CASE call.op = "direct"
      <4>1. call.i + 1 \in (call.i + 1) .. Len(DirectMap) /\ page = DirectMap[call.i + 1].virt
        BY <1>p, <1>1, <1>3, <3>1, <3>2, PageNowTyped, Layout
      <4> QED BY <4>1, <3>2 DEF Pending
    <3>3. CASE call.op = "section"
      <4>1. call.i + 1 \in (call.i + 1) .. Len(Image) /\ page = Image[call.i + 1].virt
        BY <1>p, <1>1, <1>3, <3>1, <3>3, PageNowTyped, Layout
      <4> QED BY <4>1, <3>3 DEF Pending
    <3>4. CASE call.op \in {"alloc", "map"}
      <4>1. page = call.virt + call.i /\ call.i < call.pages
        BY <1>p, <1>3, <3>4 DEF PageNow, Count
      <4>2. page \in (call.virt + call.i) .. (call.virt + call.pages - 1)
        BY <4>1, <3>1
      <4> QED BY <4>2, <3>4 DEF Pending
    <3> QED BY <1>3, <3>2, <3>3, <3>4 DEF Maps
  <2> QED BY <2>1, <1>1 DEF Fresh
<1>t. Forest(root, table, depth)
  BY <1>1 DEF Tree
<1>8. CASE call.op = "direct"
  <2>1. /\ call.level = 2 /\ call.at = W2(root, table, page) /\ depth[call.at] = 2
        /\ leaf = HugeLeaf(PhysNow)
        /\ leaf.present /\ leaf.ps /\ leaf.phys = PhysNow
        /\ call.i + 1 \in DOMAIN DirectMap /\ page = DirectMap[call.i + 1].virt
    BY <1>p, <1>1, <1>2, <1>3, <1>8, PageNowTyped, Layout DEF LeafLevel, HugeLeaf
  <2> HIDE DEF leaf, s
  <2>2. Tree'
    BY <1>t, <1>3, <1>5, <1>6, <2>1, EnterForest DEF Tree
  <2>3. ASSUME NEW v \in Pages
        PROVE  /\ W2(root', table', v) = W2(root, table, v)
               /\ ~(W2(root, table, v) = call.at /\ Path[v][2] = s)
                  => /\ W(root', table', v) = W(root, table, v)
                     /\ HugeIn(table', W2(root, table, v), v, 2)
                        <=> HugeIn(table, W2(root, table, v), v, 2)
               /\ W2(root, table, v) = call.at /\ Path[v][2] = s
                  => W(root', table', v) = leaf.phys
    BY <1>t, <1>3, <1>5, <1>6, <2>1, HugeWalk
  <2>4. call.at # Nowhere /\ s = Path[page][2]
    BY <1>3, <2>1, Constants DEF s
  <2>5. ASSUME NEW v \in Pages, W2(root, table, v) = call.at, Path[v][2] = s
        PROVE  v = page
    <3>1. Path[v][1] = Path[page][1]
      BY <1>t, <1>4, <2>1, <2>4, <2>5, WalksMeet
    <3> QED BY <3>1, <2>1, <2>4, <2>5, LayoutAssumption
  <2>6. page \notin Window \cup ImagePages
    <3>1. \A v \in Window \cup {Image[j].virt : j \in DOMAIN Image} :
            Path[DirectMap[call.i + 1].virt][1] # Path[v][1]
      BY <2>1, LayoutAssumption
    <3> QED BY <2>1, <3>1 DEF ImagePages
  <2>7. NoHuge'
    <3> SUFFICES ASSUME NEW v \in Window \cup ImagePages
                 PROVE  ~HugeIn(table', W2(root', table', v), v, 2)
      BY DEF NoHuge
    <3>1. v \in Pages /\ v # page
      BY <2>6, Layout
    <3>2. ~(W2(root, table, v) = call.at /\ Path[v][2] = s)
      BY <3>1, <2>5
    <3> QED BY <3>1, <3>2, <2>3, <1>1 DEF NoHuge
  <2>8. At(page)' = PhysNow /\ \A w \in Pages \ {page} : At(w)' = At(w)
    <3>1. W(root', table', page) = PhysNow
      BY <2>1, <2>3, <2>4, <1>4
    <3>2. \A w \in Pages \ {page} : W(root', table', w) = W(root, table, w)
      BY <2>3, <2>5
    <3>3. W(root', table', PageNow) = PhysNow
      BY <3>1 , <1>p
    <3> QED BY <3>1, <3>2 DEF At
  <2> QED BY <2>2, <2>7, <2>8, <1>4, <1>7, <1>p
<1>9. CASE call.op # "direct"
  <2>1. /\ call.level = 4 /\ call.at = W4(root, table, page) /\ depth[call.at] = 4
        /\ leaf = Points(PhysNow)
        /\ leaf.present /\ leaf.phys = PhysNow
        /\ page \in Window \cup ImagePages
    BY <1>p, <1>1, <1>2, <1>3, <1>9, PageNowTyped, Layout
       DEF LeafLevel, Points, Maps, HeapOps, MmioOps
  <2> HIDE DEF leaf, s
  <2>2. Tree'
    BY <1>t, <1>3, <1>5, <1>6, <2>1, EnterForest DEF Tree
  <2>3. ASSUME NEW v \in Pages
        PROVE  /\ W2(root', table', v) = W2(root, table, v)
               /\ HugeIn(table', W2(root', table', v), v, 2)
                  <=> HugeIn(table, W2(root, table, v), v, 2)
               /\ ~(W4(root, table, v) = call.at /\ Path[v][4] = s)
                  => W(root', table', v) = W(root, table, v)
               /\ W4(root, table, v) = call.at /\ Path[v][4] = s
                  /\ ~HugeIn(table, W2(root, table, v), v, 2)
                  => W(root', table', v) = IF leaf.present THEN leaf.phys ELSE Nowhere
    BY <1>t, <1>3, <1>5, <1>6, <2>1, LeafWalk
  <2>4. call.at # Nowhere /\ s = Path[page][4]
    BY <1>3, <2>1, Constants DEF s
  <2>5. ASSUME NEW v \in Pages, W4(root, table, v) = call.at, Path[v][4] = s
        PROVE  v = page
    BY <1>1, <1>4, <2>1, <2>4, <2>5, OnePage
  <2>6. NoHuge'
    BY <1>1, <2>3, Layout DEF NoHuge
  <2>7. At(page)' = PhysNow /\ \A w \in Pages \ {page} : At(w)' = At(w)
    <3>1. W(root', table', page) = PhysNow
      BY <1>1, <2>1, <2>3, <2>4, <1>4 DEF NoHuge
    <3>2. \A w \in Pages \ {page} : W(root', table', w) = W(root, table, w)
      BY <2>3, <2>5
    <3> QED BY <3>1, <3>2 DEF At
  <2> QED BY <2>2, <2>6, <2>7, <1>4, <1>7, <1>p
<1> QED BY <1>8, <1>9

LEMMA UnmapEffect ==
  ASSUME VmmInv, NEW v \in Window, MmUnmapPage(v), UNCHANGED <<root, depth>>
  PROVE  /\ Tree' /\ NoHuge'
         /\ At(v)' = Nowhere
         /\ \A w \in Pages \ {v} : At(w)' = At(w)
         /\ tlb' \subseteq tlb /\ \A t \in tlb' : t.page = v => At(v) = Nowhere
<1>1. TypeOK /\ Tree /\ NoHuge /\ Forest(root, table, depth) /\ v \in Pages
  BY Layout DEF VmmInv, Tree
<1>2. TableAt4(v) = W4(root, table, v)
  BY <1>1, AtIsTranslation
<1>3. ~HugeIn(table, W2(root, table, v), v, 2)
  BY <1>1 DEF NoHuge
<1>4. CASE W4(root, table, v) = Nowhere
  <2>1. table' = table /\ tlb' = tlb
    BY <1>2, <1>4 DEF MmUnmapPage, ClearLeaf
  <2>2. At(v) = Nowhere
    BY <1>1, <1>3, <1>4, WalkTyped DEF At, W
  <2> QED BY <2>1, <2>2, <1>1, QuietEffect
<1>5. CASE W4(root, table, v) # Nowhere
  <2> DEFINE at == W4(root, table, v)
             s == Path[v][4]
  <2>1. /\ table' = Entered(table, at, s, Absent)
        /\ tlb' = {t \in tlb : t.page # v}
    BY <1>2, <1>5 DEF MmUnmapPage, ClearLeaf, Entered, Invalidate
  <2>2. at \in Frames /\ depth[at] = 4 /\ s \in Slots /\ Absent \in Entry /\ ~Absent.present
    BY <1>1, <1>5, WalkTyped, Constants DEF Levels, Absent, Entry
  <2> HIDE DEF at, s
  <2>3. Tree'
    BY <1>1, <2>1, <2>2, EnterForest DEF Tree
  <2>4. ASSUME NEW w \in Pages
        PROVE  /\ W2(root', table', w) = W2(root, table, w)
               /\ HugeIn(table', W2(root', table', w), w, 2)
                  <=> HugeIn(table, W2(root, table, w), w, 2)
               /\ ~(W4(root, table, w) = at /\ Path[w][4] = s)
                  => W(root', table', w) = W(root, table, w)
               /\ W4(root, table, w) = at /\ Path[w][4] = s
                  /\ ~HugeIn(table, W2(root, table, w), w, 2)
                  => W(root', table', w) = IF Absent.present THEN Absent.phys ELSE Nowhere
    BY <1>1, <2>1, <2>2, LeafWalk
  <2>5. NoHuge'
    BY <1>1, <2>4, Layout DEF NoHuge
  <2>6. W(root', table', v) = Nowhere
    BY <1>1, <1>3, <2>2, <2>4 DEF at, s
  <2>7. \A w \in Pages \ {v} : W(root', table', w) = W(root, table, w)
    BY <1>1, <1>5, <2>4, OnePage DEF at, s
  <2> QED BY <2>1, <2>3, <2>5, <2>6, <2>7 DEF At
<1> QED BY <1>4, <1>5

-----------------------------------------------------------------------------
(* How each step leaves the running call.                                  *)
SameCall ==
  /\ call'.op = call.op /\ call'.virt = call.virt /\ call'.phys = call.phys
  /\ call'.pages = call.pages
Begins(op, virt, pages) ==
  /\ call' \in Call
  /\ call'.op = op /\ call'.virt = virt /\ call'.pages = pages
  /\ call'.i = 0 /\ call'.level = 0

Moved(c, n, i, l, a) ==
  /\ n \in Call
  /\ n.op = c.op /\ n.virt = c.virt /\ n.phys = c.phys /\ n.pages = c.pages
  /\ n.i = i /\ n.level = l /\ n.at = a

LEMMA CallMoves ==
  ASSUME NEW c \in Call, NEW l \in 0 .. 4, NEW a \in Frames \cup {Nowhere}, NEW j \in Nat
  PROVE  /\ Moved(c, [c EXCEPT !.level = l, !.at = a], c.i, l, a)
         /\ Moved(c, [c EXCEPT !.at = a, !.level = l], c.i, l, a)
         /\ Moved(c, [c EXCEPT !.i = j, !.level = l, !.at = a], j, l, a)
<1>1. Moved(c, [c EXCEPT !.level = l, !.at = a], c.i, l, a)
  BY DEF Moved, Call
<1>2. Moved(c, [c EXCEPT !.at = a, !.level = l], c.i, l, a)
  BY DEF Moved, Call
<1>3. Moved(c, [c EXCEPT !.i = j, !.level = l, !.at = a], j, l, a)
  BY DEF Moved, Call
<1> QED BY <1>1, <1>2, <1>3

LEMMA BeginMapAfter ==
  ASSUME VmmInv, BeginMapPage
  PROVE  /\ call' \in Call /\ SameCall /\ call'.i = call.i
         /\ call'.level = 1 /\ call'.at = root /\ root \in Frames
<1>1. call \in Call /\ root \in Frames
  BY DEF VmmInv, TypeOK, Progress, BeginMapPage, Maps
<1>2. call' = [call EXCEPT !.level = 1, !.at = root]
  BY DEF BeginMapPage
<1>3. 1 \in 0 .. 4 /\ root \in Frames \cup {Nowhere} /\ 0 \in Nat
  BY <1>1
<1>4. Moved(call, [call EXCEPT !.level = 1, !.at = root], call.i, 1, root)
  BY <1>1, <1>3, CallMoves
<1> QED BY <1>1, <1>2, <1>4 DEF Moved, SameCall

LEMMA NextPageAfter ==
  ASSUME VmmInv, call' = NextPage
  PROVE  call' \in Call /\ SameCall /\ call'.i = call.i + 1 /\ call'.level = 0
<1>1. call \in Call
  BY DEF VmmInv, TypeOK
<1>2. call' = [call EXCEPT !.i = call.i + 1, !.level = 0, !.at = Nowhere]
  BY DEF NextPage
<1>n. call.i \in Nat
  BY <1>1, CallFields
<1>3. 0 \in 0 .. 4 /\ Nowhere \in Frames \cup {Nowhere} /\ call.i + 1 \in Nat
  <2> DEFINE n == call.i
  <2>1. n \in Nat
    BY <1>n
  <2> HIDE DEF n
  <2>2. n + 1 \in Nat
    BY <2>1
  <2> QED BY <2>2, Nought, Zenon DEF n
<1>4. Moved(call, [call EXCEPT !.i = call.i + 1, !.level = 0, !.at = Nowhere],
            call.i + 1, 0, Nowhere)
  BY <1>1, <1>3, CallMoves
<1> QED BY <1>2, <1>4 DEF Moved, SameCall

LEMMA EndMapAfter ==
  ASSUME VmmInv, EndMapLoop
  PROVE  Begins(IF call.op = "direct" THEN "section" ELSE "idle", 0, 0)
<1>1. ASSUME NEW op \in {"section", "idle"}, call' = Start(op, 0, Nowhere, 0)
      PROVE  Begins(op, 0, 0)
  <2>1. op \in Ops /\ 0 \in Nat
    BY DEF Ops
  <2> QED BY <1>1, <2>1, StartNowhere DEF Begins
<1>2. CASE call.op = "direct"
  BY <1>1, <1>2 DEF EndMapLoop
<1>3. CASE call.op # "direct"
  BY <1>1, <1>3 DEF EndMapLoop, Idle
<1> QED BY <1>2, <1>3

LEMMA FollowAfter ==
  ASSUME VmmInv, Follow
  PROVE  /\ call' \in Call /\ SameCall /\ call'.i = call.i
         /\ call'.level = call.level + 1 /\ OnWalk'
<1>1. TypeOK /\ Tree /\ OnWalk /\ Ranges /\ Progress
  BY DEF VmmInv
<1>p. PICK page : page = PageNow
  OBVIOUS
<1> DEFINE s == Path[page][call.level]
<1>2. call.level \in 1 .. 3 /\ call.level < LeafLevel
  BY <1>1, CallFields DEF Follow, Descending, LeafLevel, TypeOK
<1>3. /\ call.op \in Maps \cup {"alloc"} /\ call.i < Count
      /\ call.at \in Frames /\ depth[call.at] = call.level
      /\ call.level = 1 => call.at = root
      /\ call.level = 2 => call.at = W2(root, table, page)
      /\ call.level = 3 => call.at = W3(root, table, page)
  BY <1>p, <1>1, <1>2 DEF OnWalk
<1>4. page \in Pages /\ s \in Slots
  <2>1. page \in Pages
    BY <1>p, <1>1, <1>3, PageNowTyped DEF Maps, HeapOps
  <2> QED BY <2>1, <1>2, Constants DEF Levels
<1>5. /\ table[call.at][s].present /\ ~table[call.at][s].ps
      /\ call' = [call EXCEPT !.at = table[call.at][s].phys, !.level = @ + 1]
      /\ UNCHANGED <<table, root, depth>>
  BY <1>p DEF Follow, Here, EntryAt
<1> DEFINE next == table[call.at][s].phys
<1>6. next \in Frames /\ depth[next] = call.level + 1 /\ call.at # Nowhere
  <2>1. Inner(table, depth, call.at, s) /\ Linked(table, depth)
    BY <1>1, <1>2, <1>3, <1>5 DEF Inner, Tree, Forest
  <2> QED BY <2>1, <1>3, <1>4, Constants DEF Linked
<1>7. /\ call.level = 1 => W2(root, table, page) = next
      /\ call.level = 2 => W3(root, table, page) = next
      /\ call.level = 3 => W4(root, table, page) = next
  <2>1. call.level = 1 => W2(root, table, page) = next
    BY <1>3, <1>5, <1>6 DEF W2
  <2>2. call.level = 2 => W3(root, table, page) = next
    BY <1>3, <1>5, <1>6 DEF W3, WB
  <2>3. call.level = 3 => W4(root, table, page) = next
    BY <1>3, <1>5, <1>6 DEF W4, WB
  <2> QED BY <2>1, <2>2, <2>3
<1> HIDE DEF next, s
<1>8. /\ call' \in Call /\ SameCall /\ call'.i = call.i
      /\ call'.level = call.level + 1 /\ call'.at = next
  <2>1. call \in Call /\ call' = [call EXCEPT !.at = next, !.level = call.level + 1]
    BY <1>1, <1>5 DEF TypeOK, next
  <2>2. call.level + 1 \in 0 .. 4 /\ next \in Frames \cup {Nowhere} /\ 0 \in Nat
    <3> DEFINE n == call.level
    <3>1. n \in 1 .. 3
      BY <1>2
    <3> HIDE DEF n
    <3>2. n + 1 \in 0 .. 4
      BY <3>1
    <3> QED BY <1>6, <3>2, Nought, Zenon DEF n
  <2>3. Moved(call, [call EXCEPT !.at = next, !.level = call.level + 1],
              call.i, call.level + 1, next)
    BY <2>1, <2>2, CallMoves
  <2> QED BY <2>1, <2>3 DEF Moved, SameCall
<1>9. OnWalk'
  <2>2. PageNow' = page /\ Count' = Count /\ LeafLevel' = LeafLevel
    BY <1>p, <1>8 DEF PageNow, Count, LeafLevel, SameCall
  <2>6. LeafLevel \in Nat /\ call.level + 1 <= LeafLevel /\ call.i < Count
    BY <1>2, <1>3 DEF LeafLevel
  <2>7. /\ call'.op \in Maps \cup {"alloc"} /\ call'.level <= LeafLevel' /\ call'.i < Count'
        /\ call'.at \in Frames /\ depth'[call'.at] = call'.level
    BY <1>3, <1>5, <1>6, <1>8, <2>2, <2>6 DEF SameCall
  <2>8. /\ call'.level # 1
        /\ call'.level = 2 => call'.at = W2(root', table', PageNow')
        /\ call'.level = 3 => call'.at = W3(root', table', PageNow')
        /\ call'.level = 4 => call'.at = W4(root', table', PageNow')
    BY <1>2, <1>5, <1>7, <1>8, <2>2
  <2> QED BY <2>7, <2>8 DEF OnWalk
<1> QED BY <1>8, <1>9

LEMMA CreateAfter ==
  ASSUME VmmInv, CreateTable
  PROVE  /\ call' \in Call /\ SameCall /\ call'.i = call.i
         /\ call'.level = call.level + 1 /\ call.level > 0
<1>1. call \in Call /\ call.level \in 1 .. 3
  BY CallFields DEF VmmInv, TypeOK, CreateTable, Descending, LeafLevel
<1>2. PICK f \in Frames : call' = [call EXCEPT !.at = f, !.level = call.level + 1]
  BY DEF CreateTable
<1>3. call.level + 1 \in 0 .. 4 /\ f \in Frames \cup {Nowhere} /\ 0 \in Nat
  <2> DEFINE n == call.level
  <2>1. n \in 1 .. 3
    BY <1>1
  <2> HIDE DEF n
  <2>2. n + 1 \in 0 .. 4
    BY <2>1
  <2> QED BY <2>2, Nought, Zenon DEF n
<1>4. Moved(call, [call EXCEPT !.at = f, !.level = call.level + 1], call.i, call.level + 1, f)
  BY <1>1, <1>3, CallMoves
<1> QED BY <1>1, <1>2, <1>4 DEF Moved, SameCall

(* The rest of a section is skipped, never an earlier page.                *)
LEMMA SkipsAhead ==
  ASSUME NEW i \in Nat, i < Len(Image)
  PROVE  SectionAfter(i) \in i .. Len(Image)
<1> DEFINE S == {j \in Nat : /\ i < j /\ j <= Len(Image)
                             /\ j = Len(Image) \/ Image[j + 1].section # Image[i + 1].section}
           Lt == OpToRel(<, Nat)
<1>1. Len(Image) \in S
  BY Layout
<1>2. PICK j \in S : \A k \in Nat : k < j => k \notin S
  <2>1. IsWellFoundedOn(Lt, Nat)
    BY NatLessThanWellFounded
  <2>2. \E j \in S : \A k \in Nat : <<k, j>> \in Lt => k \notin S
    BY <2>1, <1>1, WFMin
  <2> QED BY <2>2 DEF OpToRel
<1>3. ASSUME NEW k \in (i + 1) .. j
      PROVE  Image[k].section = Image[i + 1].section
  <2>1. CASE k = i + 1
    BY <2>1
  <2>2. CASE k # i + 1
    <3>1. k - 1 \in Nat /\ i < k - 1 /\ k - 1 < j /\ k - 1 <= Len(Image) /\ k - 1 # Len(Image)
      <4>1. j \in Nat /\ j <= Len(Image) /\ Len(Image) \in Nat /\ k \in Int
        <5>1. Len(Image) \in Nat
          BY Layout
        <5>2. j \in Nat /\ j <= Len(Image)
          BY <1>2
        <5>3. \A m \in (i + 1) .. j : m \in Int
          BY <5>2
        <5> QED BY <5>1, <5>2, <5>3, <1>3
      <4>2. k \in (i + 1) .. j /\ i \in Nat
        BY <1>3
      <4> DEFINE m == Len(Image)
      <4>3. j \in Nat /\ j <= m /\ m \in Nat /\ k \in Int
        BY <4>1
      <4> HIDE DEF m
      <4>4. k - 1 \in Nat /\ i < k - 1 /\ k - 1 < j /\ k - 1 <= m /\ k - 1 # m
        BY <4>2, <4>3, <2>2
      <4> QED BY <4>4 DEF m
    <3>2. k - 1 \notin S
      BY <3>1, <1>2
    <3>3. (k - 1) + 1 = k
      BY <3>1
    <3> QED BY <3>1, <3>2, <3>3
  <2> QED BY <2>1, <2>2
<1>4. /\ j \in i .. Len(Image)
      /\ \A k \in (i + 1) .. j : Image[k].section = Image[i + 1].section
      /\ j = Len(Image) \/ Image[j + 1].section # Image[i + 1].section
  <2>1. \A k \in (i + 1) .. j : Image[k].section = Image[i + 1].section
    BY <1>3
  <2>2. /\ j \in Nat /\ i < j /\ j <= Len(Image)
        /\ j = Len(Image) \/ Image[j + 1].section # Image[i + 1].section
    BY <1>2
  <2>3. j \in i .. Len(Image)
    <3> HIDE DEF S
    <3>1. Len(Image) \in Nat
      BY Layout
    <3> QED BY <2>2, <3>1
  <2> QED BY <2>1, <2>2, <2>3
<1> HIDE DEF S
<1> QED BY <1>4 DEF SectionAfter

LEMMA FailsAfter ==
  ASSUME VmmInv, MapPageFails
  PROVE  /\ call' \in Call /\ call'.level = 0
         /\ call.op = "direct" => call'.op = "failed"
         /\ call.op = "section" => /\ call'.op = "section" /\ call'.i \in call.i .. Len(Image)
         /\ call.op = "map" => Begins("rollback", call.virt, call.i)
         /\ call.op = "alloc" => call'.op = "idle"
         /\ call.op \in Maps \cup {"alloc"} /\ call.i < Count /\ call.level > 0
<1>1. call \in Call /\ call.level > 0
  BY CallFields DEF VmmInv, TypeOK, MapPageFails, CannotDescend, Descending, LeafLevel
<1>2. call.op \in Maps \cup {"alloc"} /\ call.i < Count
  BY <1>1 DEF VmmInv, OnWalk
<1>3. call.virt \in Nat /\ call.i \in Nat
  BY <1>1, CallFields
<1>4. CASE call.op = "direct"
  <2>1. call' = Start("failed", 0, Nowhere, 0) /\ "failed" \in Ops
    BY <1>4 DEF MapPageFails, Ops
  <2>2. Start("failed", 0, Nowhere, 0) \in Call /\ Start("failed", 0, Nowhere, 0).op = "failed"
        /\ Start("failed", 0, Nowhere, 0).level = 0
    BY <2>1, StartNowhere
  <2> QED BY <1>1, <1>2, <1>4, <2>1, <2>2
<1>5. CASE call.op = "section"
  <2>1. call' = [call EXCEPT !.i = SectionAfter(call.i), !.level = 0, !.at = Nowhere]
    BY <1>5 DEF MapPageFails
  <2>2. SectionAfter(call.i) \in call.i .. Len(Image) /\ SectionAfter(call.i) \in Nat
    <3>1. call.i < Len(Image)
      BY <1>2, <1>5 DEF Count
    <3>2. SectionAfter(call.i) \in call.i .. Len(Image)
      BY <3>1, <1>3, SkipsAhead
    <3> QED BY <3>2, <1>3, Layout
  <2>3. 0 \in 0 .. 4 /\ Nowhere \in Frames \cup {Nowhere}
    BY Nought, Zenon
  <2>4. Moved(call, [call EXCEPT !.i = SectionAfter(call.i), !.level = 0, !.at = Nowhere],
              SectionAfter(call.i), 0, Nowhere)
    BY <1>1, <2>2, <2>3, CallMoves
  <2> QED BY <1>1, <1>2, <1>5, <2>1, <2>2, <2>4 DEF Moved
<1>6. CASE call.op = "map"
  <2>1. call' = Start("rollback", call.virt, Nowhere, call.i) /\ "rollback" \in Ops
    BY <1>6 DEF MapPageFails, Rollback, Ops
  <2>3. Begins("rollback", call.virt, call.i)
    BY <1>3, <2>1, StartNowhere DEF Begins
  <2> QED BY <1>1, <1>2, <1>6, <2>3 DEF Begins
<1>7. CASE call.op = "alloc"
  <2>1. call' = Start("idle", 0, Nowhere, 0) /\ "idle" \in Ops
    BY <1>7 DEF MapPageFails, Idle, Ops
  <2>2. Start("idle", 0, Nowhere, 0) \in Call /\ Start("idle", 0, Nowhere, 0).op = "idle"
        /\ Start("idle", 0, Nowhere, 0).level = 0
    BY <2>1, StartNowhere
  <2> QED BY <1>1, <1>2, <1>7, <2>1, <2>2
<1> QED BY <1>2, <1>4, <1>5, <1>6, <1>7 DEF Maps

-----------------------------------------------------------------------------
(* The steps, by what they do to the tables.                               *)
LEMMA UnmapStep ==
  ASSUME VmmInv, UnmapNext \/ ReleaseNext
  PROVE  \E v \in Window :
           /\ v = PageNow
           /\ UnmapNext => v \in MmioBase .. MmioEnd /\ v \notin HeapPages
           /\ ReleaseNext => v \in HeapPages /\ free' = free \cup ({At(v)} \ {Nowhere})
           /\ Tree' /\ NoHuge'
           /\ At(v)' = Nowhere
           /\ \A w \in Pages \ {v} : At(w)' = At(w)
           /\ tlb' \subseteq tlb /\ \A t \in tlb' : t.page = v => At(v) = Nowhere
<1>1. TypeOK /\ Ranges /\ Progress
  BY DEF VmmInv
<1>2. /\ UnmapNext => call.op \in {"rollback", "unmap"}
      /\ ReleaseNext => call.op \in {"unwind", "release"}
      /\ call.i < Count
  <2>1. call.i < call.pages /\ call.op \in {"rollback", "unmap", "unwind", "release"}
    BY DEF UnmapNext, ReleaseNext
  <2> QED BY <2>1 DEF Count, UnmapNext, ReleaseNext
<1>3. PICK v : v = PageNow
  OBVIOUS
<1>4. /\ v \in Window
      /\ UnmapNext => v \in MmioBase .. MmioEnd
      /\ ReleaseNext => v \in HeapPages
  BY <1>1, <1>2, <1>3, PageNowTyped DEF HeapOps, MmioOps
<1>5. MmUnmapPage(v) /\ UNCHANGED <<root, depth>>
  BY <1>3 DEF UnmapNext, ReleaseNext
<1>6. ReleaseNext => free' = free \cup ({At(v)} \ {Nowhere})
  <2>1. MmGetPhysicalAddress(v) = At(v)
    BY <1>4, AtIsTranslation, Layout
  <2> QED BY <1>3, <2>1 DEF ReleaseNext, FreedBy
<1>7. UnmapNext => v \notin HeapPages
  BY <1>4, Layout
<1> QED BY <1>3, <1>4, <1>5, <1>6, <1>7, UnmapEffect

LEMMA TableSteps ==
  ASSUME [Next]_vars
  PROVE  \/ MmInitPaging \/ CreateTable \/ WriteLeaf \/ UnmapNext \/ ReleaseNext
         \/ UNCHANGED <<table, root, depth>>
<1>1. CASE UNCHANGED vars
  BY <1>1 DEF vars
<1>2. CASE BeginMapPage \/ EndMapLoop \/ Follow \/ MapPageFails
  BY <1>2 DEF BeginMapPage, EndMapLoop, Follow, MapPageFails
<1>3. CASE \E pages \in 1 .. MaxRequest : MmAllocateVirtual(pages)
  BY <1>3 DEF MmAllocateVirtual
<1>4. CASE AllocateFrame \/ AllocateFails \/ AllocateReturns \/ EndUnmapLoop \/ Evict
  BY <1>4 DEF AllocateFrame, AllocateFails, AllocateReturns, EndUnmapLoop, Evict
<1>5. CASE \E phys \in Devices : \E pages \in 0 .. MaxRequest : MmMapIoSpace(phys, pages)
  BY <1>5 DEF MmMapIoSpace
<1>6. CASE \E r \in live : MmFreeVirtual(r) \/ MmUnmapIoSpace(r)
  BY <1>6 DEF MmFreeVirtual, MmUnmapIoSpace
<1>7. CASE \E v \in Pages : Cache(v)
  BY <1>7 DEF Cache
<1> QED BY <1>1, <1>2, <1>3, <1>4, <1>5, <1>6, <1>7 DEF Next

LEMMA TreeStep ==
  ASSUME VmmInv, [Next]_vars
  PROVE  /\ Tree' /\ NoHuge'
         /\ \/ WriteLeaf \/ UnmapNext \/ ReleaseNext
            \/ \A v \in Pages : At(v)' = At(v)
<1>1. CASE UNCHANGED <<table, root, depth>>
  BY <1>1, QuietEffect DEF VmmInv
<1>2. CASE MmInitPaging
  BY <1>2, InitEffect
<1>3. CASE CreateTable
  BY <1>3, CreateEffect
<1>4. CASE WriteLeaf
  BY <1>4, WriteEffect
<1>5. CASE UnmapNext \/ ReleaseNext
  BY <1>5, UnmapStep
<1> QED BY <1>1, <1>2, <1>3, <1>4, <1>5, TableSteps

-----------------------------------------------------------------------------
(* The invariant holds at first.                                           *)
LEMMA VmmInvInit == Init => VmmInv
<1> SUFFICES ASSUME Init PROVE VmmInv
  OBVIOUS
<1>1. /\ supply \in Supplies /\ free = supply /\ table = Junk /\ root = Nowhere
      /\ heapNext = HeapBase /\ mmioNext = MmioBase /\ tlb = {}
      /\ call = Start("boot", 0, Nowhere, 0)
      /\ live = {} /\ abandoned = {} /\ depth = [f \in Frames |-> 0]
  BY DEF Init
<1>2. /\ call \in Call /\ call.op = "boot" /\ call.level = 0
      /\ call.i = 0 /\ call.virt = 0 /\ call.pages = 0
  <2>1. "boot" \in Ops /\ 0 \in Nat
    BY DEF Ops
  <2> QED BY <1>1, <2>1, StartNowhere
<1>3. table \in Contents /\ depth \in Depths /\ supply \subseteq Frames
  BY <1>1, VmmAssumption DEF Contents, Depths
<1>4. TypeOK
  BY <1>1, <1>2, <1>3, Layout DEF TypeOK, Contents, Depths
<1>5. \A f \in Frames : depth[f] = 0
  BY <1>1
<1>6. Tree
  <2>1. \A f \in Frames, s \in Slots : ~Inner(table, depth, f, s)
    BY <1>5 DEF Inner
  <2> QED BY <1>1, <1>3, <1>5, <2>1 DEF Tree, Forest, Linked, Unique, Rooted
<1>7. \A v : W2(root, table, v) = Nowhere /\ At(v) = Nowhere
  BY <1>1 DEF W2, W3, W4, WB, W, HugeIn, At
<1>8. NoHuge /\ Fresh /\ Coherent
  BY <1>1, <1>7 DEF NoHuge, HugeIn, Fresh, Coherent
<1>9. Ranges /\ OnWalk
  BY <1>1, <1>2, Layout, VmmAssumption DEF Ranges, OnWalk, HeapOps, MmioOps
<1>10. Progress
  BY <1>1, <1>2, <1>5 DEF Progress
<1>11. OneUse
  <2>1. Backing = {} /\ InHand = {} /\ Tables = {}
    BY <1>2, <1>5, <1>7 DEF Backing, InHand, Tables
  <2> QED BY <1>1, <1>7, <2>1 DEF OneUse
<1> QED BY <1>4, <1>6, <1>8, <1>9, <1>10, <1>11 DEF VmmInv

-----------------------------------------------------------------------------
(* A cached translation is one the tables have.                            *)
LEMMA CoherentStep ==
  ASSUME VmmInv, [Next]_vars
  PROVE  Coherent'
<1>1. TypeOK /\ Coherent /\ Progress /\ \A t \in tlb : t.page \in Pages
  BY DEF VmmInv, TypeOK
<1>2. CASE WriteLeaf
  <2>1. PICK v \in Pages, p \in Nat : /\ v = PageNow
                                      /\ \A w \in Pages \ {v} : At(w)' = At(w)
    BY <1>2, WriteEffect
  <2>2. tlb' = {t \in tlb : t.page # v}
    BY <1>2, <2>1 DEF WriteLeaf, Invalidate
  <2>3. \A t \in tlb' : At(t.page)' = t.phys
    BY <1>1, <2>1, <2>2 DEF Coherent
  <2> QED BY <2>3 DEF Coherent, At
<1>3. CASE UnmapNext \/ ReleaseNext
  <2>1. PICK v \in Window :
          /\ At(v)' = Nowhere
          /\ \A w \in Pages \ {v} : At(w)' = At(w)
          /\ tlb' \subseteq tlb /\ \A t \in tlb' : t.page = v => At(v) = Nowhere
    BY <1>3, UnmapStep
  <2>2. \A t \in tlb' : At(t.page)' = t.phys
    <3> SUFFICES ASSUME NEW t \in tlb' PROVE At(t.page)' = t.phys
      OBVIOUS
    <3>1. t.page \in Pages /\ At(t.page) = t.phys
      BY <1>1, <2>1 DEF Coherent
    <3> QED BY <2>1, <3>1 DEF At
  <2> QED BY <2>2 DEF Coherent, At
<1>4. CASE \A v \in Pages : At(v)' = At(v)
  <2>1. tlb' \subseteq tlb \/ \E v \in Pages : Cache(v)
    <3>1. CASE \E v \in Pages : Cache(v)
      BY <3>1
    <3>2. CASE UNCHANGED tlb \/ Evict
      BY <3>2 DEF Evict
    <3>3. CASE WriteLeaf \/ UnmapNext \/ ReleaseNext
      BY <3>3, UnmapStep DEF WriteLeaf, Invalidate
    <3> QED BY <3>1, <3>2, <3>3
            DEF Next, vars, MmInitPaging, BeginMapPage, EndMapLoop, Follow, CreateTable,
                MapPageFails, MmAllocateVirtual, AllocateFrame, AllocateFails, AllocateReturns,
                MmMapIoSpace, MmFreeVirtual, MmUnmapIoSpace, EndUnmapLoop
  <2>2. CASE tlb' \subseteq tlb
    <3>1. \A t \in tlb' : At(t.page)' = t.phys
      BY <1>1, <1>4, <2>2 DEF Coherent
    <3> QED BY <3>1 DEF Coherent, At
  <2>3. CASE \E v \in Pages : Cache(v)
    <3>1. PICK v \in Pages : Cache(v)
      BY <2>3
    <3>2. tlb' = tlb \cup {[page |-> v, phys |-> At(v)]}
      BY <3>1, AtIsTranslation DEF Cache
    <3>3. \A t \in tlb' : At(t.page)' = t.phys
      BY <1>1, <1>4, <3>1, <3>2 DEF Coherent
    <3> QED BY <3>3 DEF Coherent, At
  <2> QED BY <2>1, <2>2, <2>3
<1> QED BY <1>2, <1>3, <1>4, TreeStep

-----------------------------------------------------------------------------
LEMMA SearchReturnsFree ==
  ASSUME TypeOK, NEW f, f \in Frames, Takes(f)
  PROVE  f \in free /\ free' = free \ {f}
<1>1. \A S \in SUBSET Frames : Search[S] \subseteq S
  BY VmmAssumption
<1> QED BY <1>1 DEF Takes, TypeOK

LEMMA FrameAfter ==
  ASSUME VmmInv, AllocateFrame
  PROVE  /\ call' \in Call
         /\ call'.op = "alloc" /\ call'.virt = call.virt /\ call'.pages = call.pages
         /\ call'.i = call.i /\ call'.level = 1 /\ call'.at = root /\ root \in Frames
         /\ \E f \in free : call'.phys = f /\ free' = free \ {f} /\ f \in Frames
         /\ call.op = "alloc" /\ call.level = 0 /\ call.i < call.pages
<1>1. TypeOK /\ call \in Call /\ root \in Frames
  BY DEF VmmInv, TypeOK, Progress, AllocateFrame
<1>2. PICK f \in Frames : /\ f \in free /\ free' = free \ {f}
                          /\ call' = [call EXCEPT !.phys = f, !.level = 1, !.at = root]
  BY <1>1, SearchReturnsFree DEF AllocateFrame
<1>3. f \in Nat /\ 1 \in 0 .. 4 /\ call.op = "alloc" /\ call.level = 0 /\ call.i < call.pages
  BY Constants DEF AllocateFrame
<1>4. /\ call' \in Call
      /\ call'.op = call.op /\ call'.virt = call.virt /\ call'.pages = call.pages
      /\ call'.i = call.i /\ call'.level = 1 /\ call'.at = root /\ call'.phys = f
  BY <1>1, <1>2, <1>3 DEF Call
<1> QED BY <1>1, <1>2, <1>3, <1>4

(* No request considered wraps a cursor.                                   *)
LEMMA PlainBump ==
  ASSUME NEW cursor \in Nat, NEW pages \in Nat, pages <= MaxRequest,
         cursor <= HeapEnd \/ cursor <= MmioEnd
  PROVE  Bumped(cursor, pages) = cursor + pages + 1
<1>1. /\ AllPages \in Nat /\ MaxRequest \in Nat /\ HeapEnd \in Nat /\ MmioEnd \in Nat
      /\ HeapEnd + MaxRequest + 1 < AllPages /\ MmioEnd + MaxRequest + 1 < AllPages
  BY VmmAssumption, RequestAssumption
<1>2. \A n \in Nat : n < AllPages => n % AllPages = n
  BY <1>1
<1>3. /\ pages + 1 \in Nat /\ pages + 1 < AllPages
      /\ cursor + (pages + 1) \in Nat /\ cursor + (pages + 1) < AllPages
  BY <1>1
<1>4. (pages + 1) % AllPages = pages + 1 /\ (cursor + (pages + 1)) % AllPages = cursor + (pages + 1)
  BY <1>2, <1>3
<1> QED BY <1>4 DEF Bumped, Span, VMM_GUARD_PAGES

LEMMA CursorAfter ==
  ASSUME VmmInv
  PROVE  /\ \A pages \in 1 .. MaxRequest : MmAllocateVirtual(pages) =>
              heapNext' = heapNext + pages + 1 /\ heapNext + pages + 1 < HeapEnd
         /\ \A phys \in Devices : \A pages \in 0 .. MaxRequest : MmMapIoSpace(phys, pages) =>
              mmioNext' = mmioNext + pages + 1 /\ mmioNext + pages + 1 < MmioEnd
<1>1. /\ heapNext \in Nat /\ heapNext <= HeapEnd /\ mmioNext \in Nat /\ mmioNext <= MmioEnd
      /\ MaxRequest \in Nat
  BY VmmAssumption DEF VmmInv, TypeOK, Ranges
<1>2. \A pages \in 0 .. MaxRequest : /\ Bumped(heapNext, pages) = heapNext + pages + 1
                                     /\ Bumped(mmioNext, pages) = mmioNext + pages + 1
  BY <1>1, PlainBump
<1> QED BY <1>1, <1>2 DEF MmAllocateVirtual, MmMapIoSpace

(* Calls that begin, turn to undoing what they did, or end.                *)
LEMMA BeginAfter ==
  ASSUME VmmInv
  PROVE  /\ \A pages \in 1 .. MaxRequest : MmAllocateVirtual(pages) =>
              Begins("alloc", heapNext, pages)
         /\ \A phys \in Devices : \A pages \in 0 .. MaxRequest : MmMapIoSpace(phys, pages) =>
              Begins("map", mmioNext, pages) /\ call'.phys = phys /\ phys \in Nat
         /\ \A r \in live :
              /\ r.virt \in Nat /\ r.pages \in Nat
              /\ MmFreeVirtual(r) => Begins("release", r.virt, r.pages)
              /\ MmUnmapIoSpace(r) => Begins("unmap", r.virt, r.pages)
         /\ AllocateFails => Begins("unwind", call.virt, call.i)
         /\ AllocateReturns \/ EndUnmapLoop => Begins("idle", 0, 0)
         /\ MmInitPaging => \/ Begins("direct", 0, 0) /\ root' \in Frames
                            \/ Begins("failed", 0, 0)
<1>1. /\ heapNext \in Nat /\ mmioNext \in Nat /\ MaxRequest \in Nat
      /\ call.virt \in Nat /\ call.i \in Nat
  BY CallFields, VmmAssumption DEF VmmInv, TypeOK
<1>2. ASSUME NEW pages \in 1 .. MaxRequest, MmAllocateVirtual(pages)
      PROVE  Begins("alloc", heapNext, pages)
  <2>1. pages \in Nat /\ "alloc" \in Ops
    BY <1>1 DEF Ops
  <2> QED BY <1>1, <1>2, <2>1, StartNowhere DEF MmAllocateVirtual, Begins
<1>3. ASSUME NEW phys \in Devices, NEW pages \in 0 .. MaxRequest, MmMapIoSpace(phys, pages)
      PROVE  Begins("map", mmioNext, pages) /\ call'.phys = phys /\ phys \in Nat
  <2>1. pages \in Nat /\ "map" \in Ops /\ phys \in Nat /\ phys \in Nat \cup {Nowhere}
    BY <1>1, VmmAssumption DEF Ops
  <2>2. call' = Start("map", mmioNext, phys, pages)
    BY <1>3 DEF MmMapIoSpace
  <2> QED BY <1>1, <2>1, <2>2, StartTyped DEF Begins
<1>4. ASSUME NEW r \in live
      PROVE  /\ r.virt \in Nat /\ r.pages \in Nat
             /\ MmFreeVirtual(r) => Begins("release", r.virt, r.pages)
             /\ MmUnmapIoSpace(r) => Begins("unmap", r.virt, r.pages)
  <2>1. r \in Grant
    BY DEF VmmInv, TypeOK
  <2>2. r.virt \in Nat /\ r.pages \in Nat
    BY <2>1 DEF Grant
  <2>3. {"release", "unmap"} \subseteq Ops
    BY DEF Ops
  <2>4. ASSUME MmFreeVirtual(r) PROVE Begins("release", r.virt, r.pages)
    BY <2>2, <2>3, <2>4, StartNowhere DEF MmFreeVirtual, Begins
  <2>5. ASSUME MmUnmapIoSpace(r) PROVE Begins("unmap", r.virt, r.pages)
    BY <2>2, <2>3, <2>5, StartNowhere DEF MmUnmapIoSpace, Begins
  <2> QED BY <2>2, <2>4, <2>5
<1>5. ASSUME AllocateFails PROVE Begins("unwind", call.virt, call.i)
  <2>1. "unwind" \in Ops
    BY DEF Ops
  <2> QED BY <1>1, <1>5, <2>1, StartNowhere DEF AllocateFails, Begins
<1>6. ASSUME AllocateReturns \/ EndUnmapLoop PROVE Begins("idle", 0, 0)
  <2>1. "idle" \in Ops /\ 0 \in Nat
    BY DEF Ops
  <2> QED BY <1>6, <2>1, StartNowhere DEF AllocateReturns, EndUnmapLoop, Idle, Begins
<1>7. ASSUME MmInitPaging
      PROVE  \/ Begins("direct", 0, 0) /\ root' \in Frames
             \/ Begins("failed", 0, 0)
  <2>1. {"direct", "failed"} \subseteq Ops /\ 0 \in Nat
    BY DEF Ops
  <2> QED BY <1>7, <2>1, StartNowhere DEF MmInitPaging, Begins
<1> QED BY <1>2, <1>3, <1>4, <1>5, <1>6, <1>7

LEMMA OnWalkStep ==
  ASSUME VmmInv, [Next]_vars
  PROVE  OnWalk'
<1>1. TypeOK /\ OnWalk /\ Tree /\ Ranges /\ Progress
  BY DEF VmmInv
<1>2. ASSUME call'.level = 0 PROVE OnWalk'
  BY <1>2 DEF OnWalk
<1>3. CASE UNCHANGED <<call, table, root, depth>>
  <2>1. PageNow' = PageNow /\ Count' = Count /\ LeafLevel' = LeafLevel
    BY <1>3 DEF PageNow, Count, LeafLevel
  <2> QED BY <1>1, <1>3, <2>1 DEF OnWalk
<1>4. CASE BeginMapPage
  <2>1. /\ call'.op = call.op /\ call'.i = call.i /\ call'.pages = call.pages
        /\ call'.level = 1 /\ call'.at = root /\ root \in Frames
        /\ call.op \in Maps /\ call.i < Count /\ root' = root /\ depth' = depth
    BY <1>4, BeginMapAfter DEF SameCall, BeginMapPage
  <2>2. Count' = Count /\ 1 <= LeafLevel'
    BY <2>1 DEF Count, LeafLevel
  <2>3. depth[root] = 1
    BY <1>1, <2>1, Constants DEF Tree, Forest, Rooted
  <2> QED BY <2>1, <2>2, <2>3 DEF OnWalk
<1>5. CASE AllocateFrame
  <2>1. /\ call'.op = "alloc" /\ call'.i = call.i /\ call'.pages = call.pages
        /\ call'.level = 1 /\ call'.at = root /\ root \in Frames
        /\ call.i < call.pages /\ root' = root /\ depth' = depth
    BY <1>5, FrameAfter DEF AllocateFrame
  <2>2. Count' = call.pages /\ 1 <= LeafLevel'
    BY <2>1 DEF Count, LeafLevel
  <2>3. depth[root] = 1
    BY <1>1, <2>1, Constants DEF Tree, Forest, Rooted
  <2> QED BY <2>1, <2>2, <2>3 DEF OnWalk
<1>6. CASE Follow
  BY <1>6, FollowAfter
<1>7. CASE CreateTable
  BY <1>7, CreateEffect
<1>8. CASE WriteLeaf \/ UnmapNext \/ ReleaseNext
  BY <1>2, <1>8, NextPageAfter DEF WriteLeaf, UnmapNext, ReleaseNext
<1>9. CASE MapPageFails
  BY <1>2, <1>9, FailsAfter
<1>10. CASE EndMapLoop
  BY <1>2, <1>10, EndMapAfter DEF Begins
<1>11. CASE \/ \E pages \in 1 .. MaxRequest : MmAllocateVirtual(pages)
            \/ \E phys \in Devices : \E pages \in 0 .. MaxRequest : MmMapIoSpace(phys, pages)
            \/ \E r \in live : MmFreeVirtual(r) \/ MmUnmapIoSpace(r)
            \/ AllocateFails \/ AllocateReturns \/ EndUnmapLoop \/ MmInitPaging
  BY <1>2, <1>11, BeginAfter DEF Begins
<1>12. CASE UNCHANGED vars \/ Evict \/ \E v \in Pages : Cache(v)
  BY <1>3, <1>12 DEF vars, Evict, Cache
<1> QED BY <1>4, <1>5, <1>6, <1>7, <1>8, <1>9, <1>10, <1>11, <1>12 DEF Next

LEMMA ProgressStep ==
  ASSUME VmmInv, [Next]_vars
  PROVE  Progress'
<1>1. TypeOK /\ Progress /\ OnWalk
  BY DEF VmmInv
<1>f. /\ call.op \in Ops /\ call.virt \in Nat /\ call.phys \in Nat \cup {Nowhere}
      /\ call.pages \in Nat /\ call.i \in Nat /\ call.level \in 0 .. 4
  BY <1>1, CallFields DEF TypeOK
<1>l. Len(Image) \in Nat /\ Len(DirectMap) \in Nat
  BY Layout
<1>2. CASE UNCHANGED vars \/ Evict \/ \E v \in Pages : Cache(v)
  <2>1. UNCHANGED <<call, root, depth>>
    BY <1>2 DEF vars, Evict, Cache
  <2>2. ~Switched => tlb' = {}
    BY <1>1, <1>2 DEF vars, Evict, Cache, Progress
  <2> QED BY <1>1, <2>1, <2>2 DEF Progress, Switched
<1>3. CASE BeginMapPage \/ Follow \/ CreateTable
  <2>1. /\ SameCall /\ call'.i = call.i /\ UNCHANGED <<root, tlb>>
        /\ call.op \in Maps \cup {"alloc"}
        /\ call.level = 0 => call.op # "alloc"
    <3>1. CASE BeginMapPage
      BY <3>1, BeginMapAfter DEF BeginMapPage, Maps
    <3>2. CASE Follow
      <4>1. call.level > 0
        BY <3>2, <1>f DEF Follow, Descending, LeafLevel
      <4> QED BY <1>1, <3>2, <4>1, FollowAfter DEF Follow, OnWalk
    <3>3. CASE CreateTable
      <4>1. call.level > 0 /\ SameCall /\ call'.i = call.i
        BY <3>3, CreateAfter
      <4>2. UNCHANGED <<root, tlb>>
        BY <3>3 DEF CreateTable
      <4> QED BY <1>1, <4>1, <4>2 DEF OnWalk
    <3> QED BY <1>3, <3>1, <3>2, <3>3
  <2> QED BY <1>1, <1>f, <2>1 DEF Progress, SameCall, Maps, Switched
<1>4. CASE WriteLeaf \/ UnmapNext \/ ReleaseNext
  <2>1. /\ SameCall /\ call'.i = call.i + 1 /\ call'.level = 0
        /\ root' = root /\ tlb' \subseteq tlb
        /\ call.op \notin {"boot", "failed"}
        /\ call.op \in Maps => call.i < Count
    <3>1. CASE WriteLeaf
      <4>1. call.level > 0
        BY <3>1 DEF WriteLeaf, LeafLevel
      <4> QED BY <1>1, <3>1, <4>1, NextPageAfter DEF WriteLeaf, OnWalk, Invalidate, Maps
    <3>2. CASE UnmapNext \/ ReleaseNext
      BY <3>2, NextPageAfter, UnmapStep DEF UnmapNext, ReleaseNext, Maps
    <3> QED BY <1>4, <3>1, <3>2
  <2> QED BY <1>1, <1>f, <1>l, <2>1 DEF Progress, SameCall, Maps, Switched, Count
<1>5. CASE MapPageFails
  <2>1. /\ call.op \in Maps \cup {"alloc"} /\ UNCHANGED <<root, tlb>> /\ call'.level = 0
        /\ call.op = "direct" => call'.op = "failed"
        /\ call.op = "section" => call'.op = "section" /\ call'.i \in call.i .. Len(Image)
        /\ call.op = "map" => call'.op = "rollback"
        /\ call.op = "alloc" => call'.op = "idle"
    BY <1>5, FailsAfter DEF MapPageFails, Begins
  <2> QED BY <1>1, <1>l, <1>f, <2>1 DEF Progress, Maps, Switched
<1>6. CASE EndMapLoop
  <2>1. /\ call.op \in Maps /\ UNCHANGED <<root, tlb>> /\ call'.level = 0 /\ call'.i = 0
        /\ call'.op = IF call.op = "direct" THEN "section" ELSE "idle"
    BY <1>6, EndMapAfter DEF EndMapLoop, Begins
  <2> QED BY <1>1, <1>l, <2>1 DEF Progress, Maps, Switched
<1>7. CASE AllocateFrame
  <2>1. /\ call'.op = "alloc" /\ call.op = "alloc" /\ UNCHANGED <<root, tlb>>
        /\ call'.phys \in Frames
    BY <1>7, FrameAfter DEF AllocateFrame
  <2> QED BY <1>1, <2>1 DEF Progress, Switched
<1>8. CASE MmInitPaging
  <2>1. /\ call.op = "boot" /\ tlb' = tlb /\ call'.level = 0 /\ call'.i = 0
        /\ (call'.op = "direct" /\ root' \in Frames) \/ call'.op = "failed"
    BY <1>8, BeginAfter DEF MmInitPaging, Begins
  <2> QED BY <1>1, <1>l, <2>1 DEF Progress, Switched
<1>9. CASE \E phys \in Devices : \E pages \in 0 .. MaxRequest : MmMapIoSpace(phys, pages)
  <2>1. /\ call'.op = "map" /\ call'.phys \in Nat /\ call.op = "idle"
        /\ UNCHANGED <<root, tlb>>
    BY <1>9, BeginAfter DEF MmMapIoSpace, Idle, Start, Begins
  <2> QED BY <1>1, <2>1 DEF Progress, Switched
<1>10. CASE \/ \E pages \in 1 .. MaxRequest : MmAllocateVirtual(pages)
            \/ \E r \in live : MmFreeVirtual(r) \/ MmUnmapIoSpace(r)
            \/ AllocateFails \/ AllocateReturns \/ EndUnmapLoop
  <2>1. /\ call'.op \in {"alloc", "release", "unmap", "unwind", "idle"} /\ call'.level = 0
        /\ call.op \notin {"boot", "direct", "section", "failed"}
        /\ UNCHANGED <<root, tlb>>
    <3>1. CASE \E pages \in 1 .. MaxRequest : MmAllocateVirtual(pages)
      BY <3>1, BeginAfter DEF MmAllocateVirtual, Idle, Start, Begins
    <3>2. CASE \E r \in live : MmFreeVirtual(r) \/ MmUnmapIoSpace(r)
      BY <3>2, BeginAfter DEF MmFreeVirtual, MmUnmapIoSpace, Idle, Start, Begins
    <3>3. CASE AllocateFails \/ AllocateReturns \/ EndUnmapLoop
      BY <3>3, BeginAfter DEF AllocateFails, AllocateReturns, EndUnmapLoop, Begins
    <3> QED BY <1>10, <3>1, <3>2, <3>3
  <2> QED BY <1>1, <2>1 DEF Progress, Switched
<1> QED BY <1>2, <1>3, <1>4, <1>5, <1>6, <1>7, <1>8, <1>9, <1>10 DEF Next

LEMMA RangesStep ==
  ASSUME VmmInv, [Next]_vars
  PROVE  Ranges'
<1>1. TypeOK /\ Ranges /\ OnWalk /\ heapNext \in Nat /\ mmioNext \in Nat /\ live \subseteq Grant
  BY DEF VmmInv, TypeOK
<1>f. /\ call.op \in Ops /\ call.virt \in Nat
      /\ call.pages \in Nat /\ call.i \in Nat /\ call.level \in 0 .. 4
  BY <1>1, CallFields DEF TypeOK
<1>l. /\ HeapBase \in Nat /\ HeapEnd \in Nat /\ MmioBase \in Nat /\ MmioEnd \in Nat
      /\ MaxRequest \in Nat
  BY Layout, VmmAssumption
<1>2. ASSUME UNCHANGED <<heapNext, mmioNext>>, live' \subseteq live,
             call'.op \in HeapOps \cup MmioOps =>
               /\ call'.op \in HeapOps => InHeap(call'.virt, call'.pages) /\ call'.i <= call'.pages
               /\ call'.op \in MmioOps => InMmio(call'.virt, call'.pages) /\ call'.i <= call'.pages
      PROVE  Ranges'
  <2>1. \A a, b : InHeap(a, b)' = InHeap(a, b) /\ InMmio(a, b)' = InMmio(a, b)
    BY <1>2 DEF InHeap, InMmio
  <2>2. \A r \in live' : /\ r.kind = "heap" => InHeap(r.virt, r.pages)'
                         /\ r.kind = "mmio" => InMmio(r.virt, r.pages)'
    BY <1>1, <1>2, <2>1 DEF Ranges
  <2>3. /\ call'.op \in HeapOps => InHeap(call.virt, call.pages)' /\ call'.i <= call'.pages
        /\ call'.op \in MmioOps => InMmio(call.virt, call.pages)' /\ call'.i <= call'.pages
    BY <1>2 DEF InHeap, InMmio
  <2> QED BY <1>1, <1>2, <2>2, <2>3 DEF Ranges
<1>3. CASE UNCHANGED vars \/ Evict \/ \E v \in Pages : Cache(v)
  <2>1. UNCHANGED <<call, heapNext, mmioNext, live>>
    BY <1>3 DEF vars, Evict, Cache
  <2> QED BY <1>1, <1>2, <2>1 DEF Ranges
<1>4. CASE BeginMapPage \/ Follow \/ CreateTable
  <2>1. SameCall /\ call'.i = call.i /\ UNCHANGED <<heapNext, mmioNext, live>>
    BY <1>4, BeginMapAfter, FollowAfter, CreateAfter DEF BeginMapPage, Follow, CreateTable
  <2> QED BY <1>1, <1>2, <2>1 DEF Ranges, SameCall
<1>5. CASE AllocateFrame
  <2>1. /\ call.op = "alloc" /\ call'.op = "alloc" /\ call'.virt = call.virt
        /\ call'.pages = call.pages /\ call'.i = call.i
        /\ UNCHANGED <<heapNext, mmioNext, live>>
    BY <1>5, FrameAfter DEF AllocateFrame
  <2> QED BY <1>1, <1>2, <2>1 DEF Ranges, HeapOps, MmioOps
<1>6. CASE WriteLeaf \/ UnmapNext \/ ReleaseNext
  <2>1. /\ SameCall /\ call'.i = call.i + 1 /\ UNCHANGED <<heapNext, mmioNext, live>>
        /\ call.i < Count
    <3>1. CASE WriteLeaf
      <4>1. call.level > 0
        BY <3>1 DEF WriteLeaf, LeafLevel
      <4> QED BY <1>1, <3>1, <4>1, NextPageAfter DEF WriteLeaf, OnWalk
    <3>2. CASE UnmapNext \/ ReleaseNext
      BY <3>2, NextPageAfter DEF UnmapNext, ReleaseNext, Count
    <3> QED BY <1>6, <3>1, <3>2
  <2>2. call.op \in HeapOps \cup MmioOps => call'.i <= call'.pages
    BY <1>f, <2>1 DEF Count, HeapOps, MmioOps, SameCall
  <2> QED BY <1>1, <1>2, <2>1, <2>2 DEF Ranges, SameCall
<1>7. CASE MapPageFails
  <2>0. /\ call.op \in Maps \cup {"alloc"} /\ UNCHANGED <<heapNext, mmioNext, live>>
        /\ call.op = "direct" => call'.op = "failed"
        /\ call.op = "section" => call'.op = "section"
        /\ call.op = "alloc" => call'.op = "idle"
    BY <1>7, FailsAfter DEF MapPageFails
  <2>1. CASE call.op = "map"
    <3>1. call'.op = "rollback" /\ call'.virt = call.virt /\ call'.pages = call.i /\ call'.i = 0
      BY <1>7, <2>1, FailsAfter DEF Begins
    <3>2. InMmio(call.virt, call.i)
      BY <1>1, <1>f, <1>l, <2>1 DEF Ranges, InMmio, MmioOps
    <3> QED BY <1>2, <1>f, <2>0, <3>1, <3>2 DEF HeapOps
  <2>2. CASE call.op # "map"
    <3>1. call'.op \notin HeapOps \cup MmioOps
      BY <2>0, <2>2 DEF HeapOps, MmioOps, Maps
    <3> QED BY <1>2, <2>0, <3>1
  <2> QED BY <2>1, <2>2
<1>8. CASE EndMapLoop
  <2>1. /\ call'.op \in {"section", "idle"} /\ UNCHANGED <<heapNext, mmioNext>>
        /\ live' \subseteq live \/ (call.op = "map" /\ live' = live \cup
             {[kind |-> "mmio", virt |-> call.virt, phys |-> call.phys, pages |-> call.pages]})
    BY <1>8, EndMapAfter DEF EndMapLoop, Begins
  <2>2. call'.op \notin HeapOps \cup MmioOps
    BY <2>1 DEF HeapOps, MmioOps
  <2>3. CASE live' \subseteq live
    BY <1>2, <2>1, <2>2, <2>3
  <2>4. CASE call.op = "map" /\ live' = live \cup
             {[kind |-> "mmio", virt |-> call.virt, phys |-> call.phys, pages |-> call.pages]}
    <3>1. InMmio(call.virt, call.pages)
      BY <1>1, <2>4 DEF Ranges, MmioOps
    <3>2. \A r \in live' : /\ r.kind = "heap" => InHeap(r.virt, r.pages)
                           /\ r.kind = "mmio" => InMmio(r.virt, r.pages)
      BY <1>1, <2>4, <3>1 DEF Ranges
    <3> QED BY <1>1, <2>1, <2>2, <3>2 DEF Ranges, InHeap, InMmio
  <2> QED BY <2>1, <2>3, <2>4
<1>9. CASE AllocateReturns
  <2>1. /\ call'.op = "idle" /\ UNCHANGED <<heapNext, mmioNext>> /\ call.op = "alloc"
        /\ live' = live \cup
             {[kind |-> "heap", virt |-> call.virt, phys |-> Nowhere, pages |-> call.pages]}
    BY <1>9, BeginAfter DEF AllocateReturns, Begins
  <2>2. InHeap(call.virt, call.pages)
    BY <1>1, <2>1 DEF Ranges, HeapOps
  <2>3. \A r \in live' : /\ r.kind = "heap" => InHeap(r.virt, r.pages)
                         /\ r.kind = "mmio" => InMmio(r.virt, r.pages)
    BY <1>1, <2>1, <2>2 DEF Ranges
  <2> QED BY <1>1, <2>1, <2>3 DEF Ranges, InHeap, InMmio, HeapOps, MmioOps
<1>10. CASE MmInitPaging \/ EndUnmapLoop
  <2>1. call'.op \in {"direct", "failed", "idle"} /\ UNCHANGED <<heapNext, mmioNext, live>>
    BY <1>10, BeginAfter DEF MmInitPaging, EndUnmapLoop, Begins
  <2> QED BY <1>2, <2>1 DEF HeapOps, MmioOps
<1>11. CASE AllocateFails
  <2>1. /\ call'.op = "unwind" /\ call'.virt = call.virt /\ call'.pages = call.i /\ call'.i = 0
        /\ call.op = "alloc" /\ UNCHANGED <<heapNext, mmioNext, live>>
    BY <1>11, BeginAfter DEF AllocateFails, Begins
  <2>2. InHeap(call.virt, call.i)
    BY <1>1, <1>f, <1>l, <2>1 DEF Ranges, InHeap, HeapOps
  <2> QED BY <1>2, <1>f, <2>1, <2>2 DEF MmioOps
<1>12. CASE \E r \in live : MmFreeVirtual(r) \/ MmUnmapIoSpace(r)
  <2>1. PICK r \in live : MmFreeVirtual(r) \/ MmUnmapIoSpace(r)
    BY <1>12
  <2>2. /\ call'.virt = r.virt /\ call'.pages = r.pages /\ call'.i = 0 /\ r.pages \in Nat
        /\ UNCHANGED <<heapNext, mmioNext>> /\ live' \subseteq live
        /\ (r.kind = "heap" /\ call'.op = "release") \/ (r.kind = "mmio" /\ call'.op = "unmap")
    BY <2>1, BeginAfter DEF MmFreeVirtual, MmUnmapIoSpace, Begins
  <2> QED BY <1>1, <1>2, <2>2 DEF Ranges, HeapOps, MmioOps
<1>13. CASE \E pages \in 1 .. MaxRequest : MmAllocateVirtual(pages)
  <2>1. PICK pages \in 1 .. MaxRequest : MmAllocateVirtual(pages)
    BY <1>13
  <2>2. /\ call'.op = "alloc" /\ call'.virt = heapNext /\ call'.pages = pages /\ call'.i = 0
        /\ heapNext + pages + 1 < HeapEnd /\ heapNext' = heapNext + pages + 1
        /\ mmioNext' = mmioNext /\ live' = live
    BY <1>1, <2>1, BeginAfter, CursorAfter DEF MmAllocateVirtual, Begins
  <2>3. pages \in Nat
    BY <1>l
  <2>4. \A a, b \in Nat : (InHeap(a, b) => InHeap(a, b)') /\ InMmio(a, b)' = InMmio(a, b)
    BY <1>1, <1>l, <2>2, <2>3 DEF InHeap, InMmio
  <2>5. \A r \in live : r.virt \in Nat /\ r.pages \in Nat
    BY BeginAfter
  <2>6. \A r \in live' : /\ r.kind = "heap" => InHeap(r.virt, r.pages)'
                         /\ r.kind = "mmio" => InMmio(r.virt, r.pages)'
    BY <1>1, <2>2, <2>4, <2>5 DEF Ranges
  <2>7. InHeap(call.virt, call.pages)'
    BY <1>1, <1>l, <2>2, <2>3 DEF InHeap, Ranges
  <2> QED BY <1>1, <1>l, <2>2, <2>3, <2>6, <2>7 DEF Ranges, MmioOps
<1>14. CASE \E phys \in Devices : \E pages \in 0 .. MaxRequest : MmMapIoSpace(phys, pages)
  <2>1. PICK phys \in Devices : \E pages \in 0 .. MaxRequest : MmMapIoSpace(phys, pages)
    BY <1>14
  <2>p. PICK pages \in 0 .. MaxRequest : MmMapIoSpace(phys, pages)
    BY <2>1
  <2>2. /\ call'.op = "map" /\ call'.virt = mmioNext /\ call'.pages = pages /\ call'.i = 0
        /\ mmioNext + pages + 1 < MmioEnd /\ mmioNext' = mmioNext + pages + 1
        /\ heapNext' = heapNext /\ live' = live
    BY <1>1, <2>p, BeginAfter, CursorAfter DEF MmMapIoSpace, Begins
  <2>3. pages \in Nat
    BY <1>l
  <2>4. \A a, b \in Nat : (InMmio(a, b) => InMmio(a, b)') /\ InHeap(a, b)' = InHeap(a, b)
    BY <1>1, <1>l, <2>2, <2>3 DEF InHeap, InMmio
  <2>5. \A r \in live : r.virt \in Nat /\ r.pages \in Nat
    BY BeginAfter
  <2>6. \A r \in live' : /\ r.kind = "heap" => InHeap(r.virt, r.pages)'
                         /\ r.kind = "mmio" => InMmio(r.virt, r.pages)'
    BY <1>1, <2>2, <2>4, <2>5 DEF Ranges
  <2>7. InMmio(call.virt, call.pages)'
    BY <1>1, <1>l, <2>2, <2>3 DEF InMmio, Ranges
  <2> QED BY <1>1, <1>l, <2>2, <2>3, <2>6, <2>7 DEF Ranges, HeapOps
<1> QED BY <1>3, <1>4, <1>5, <1>6, <1>7, <1>8, <1>9, <1>10, <1>11, <1>12, <1>13, <1>14 DEF Next

LEMMA PendingInPages == ASSUME TypeOK, Ranges PROVE Pending \subseteq Pages
<1>1. call.virt \in Nat /\ call.i \in Nat /\ call.pages \in Nat
  BY CallFields DEF TypeOK
<1>2. call.op \in {"alloc", "map"} =>
        (call.virt + call.i) .. (call.virt + call.pages - 1) \subseteq Window
  <2>1. CASE call.op = "alloc"
    <3>1. HeapBase <= call.virt /\ call.virt + call.pages <= HeapEnd
      BY <2>1 DEF Ranges, InHeap, HeapOps
    <3>2. (call.virt + call.i) .. (call.virt + call.pages - 1) \subseteq HeapPages
      <4>1. HeapBase \in Nat /\ HeapEnd \in Nat /\ HeapPages = HeapBase .. HeapEnd
        BY Ends
      <4> QED BY <1>1, <3>1, <4>1, Inside
    <3> QED BY <3>2, Ends
  <2>2. CASE call.op = "map"
    <3>1. MmioBase <= call.virt /\ call.virt + call.pages <= MmioEnd
      BY <2>2 DEF Ranges, InMmio, MmioOps
    <3>2. (call.virt + call.i) .. (call.virt + call.pages - 1) \subseteq MmioBase .. MmioEnd
      <4>1. MmioBase \in Nat /\ MmioEnd \in Nat
        BY Ends
      <4> QED BY <1>1, <3>1, <4>1, Inside
    <3> QED BY <3>2, Ends
  <2> QED BY <2>1, <2>2
<1>3. {Image[j].virt : j \in (call.i + 1) .. Len(Image)} \subseteq Pages
  BY <1>1, Layout
<1>4. {DirectMap[j].virt : j \in (call.i + 1) .. Len(DirectMap)} \subseteq Pages
  BY <1>1, Layout
<1> QED BY <1>2, <1>3, <1>4, Layout DEF Pending

LEMMA FreshStep ==
  ASSUME VmmInv, [Next]_vars
  PROVE  Fresh'
<1>1. /\ TypeOK /\ Ranges /\ Fresh /\ OnWalk /\ Progress /\ Pending \subseteq Pages
      /\ heapNext \in Nat /\ mmioNext \in Nat
  BY PendingInPages DEF VmmInv, TypeOK
<1>f. /\ call.op \in Ops /\ call.virt \in Nat
      /\ call.pages \in Nat /\ call.i \in Nat /\ call.level \in 0 .. 4
  BY <1>1, CallFields DEF TypeOK
<1>2. ASSUME Pending' \subseteq Pending, \A v \in Pages : At(v)' = At(v)
      PROVE  Fresh'
  <2>1. \A v \in Pending' : At(v)' = Nowhere
    BY <1>1, <1>2 DEF Fresh
  <2> QED BY <2>1 DEF Fresh, At
(* A step that leaves the call's kind and range alone.                     *)
<1>3. ASSUME call'.op = call.op, call'.virt = call.virt, call'.pages = call.pages,
             call'.i \in Nat, call.i <= call'.i, UNCHANGED <<heapNext, mmioNext>>
      PROVE  Pending' \subseteq Pending
  <2>1. /\ (call'.virt + call'.i) .. (call'.virt + call'.pages - 1)
           \subseteq (call.virt + call.i) .. (call.virt + call.pages - 1)
        /\ \A n \in Nat : (call'.i + 1) .. n \subseteq (call.i + 1) .. n
    BY <1>3, <1>f
  <2>2. /\ {Image[j].virt : j \in (call'.i + 1) .. Len(Image)}
           \subseteq {Image[j].virt : j \in (call.i + 1) .. Len(Image)}
        /\ {DirectMap[j].virt : j \in (call'.i + 1) .. Len(DirectMap)}
           \subseteq {DirectMap[j].virt : j \in (call.i + 1) .. Len(DirectMap)}
    BY <2>1, Layout
  <2> QED BY <1>3, <2>1, <2>2 DEF Pending
(* A step after which no page is left of the call.                         *)
<1>4. ASSUME call'.op \notin {"alloc", "map", "direct", "section"},
             UNCHANGED <<heapNext, mmioNext>>
      PROVE  Pending' \subseteq Pending
  BY <1>4 DEF Pending
<1>5. CASE UNCHANGED vars \/ Evict \/ \E v \in Pages : Cache(v)
  <2>1. UNCHANGED <<call, heapNext, mmioNext, table, root, depth>>
    BY <1>5 DEF vars, Evict, Cache
  <2>2. Pending' = Pending
    BY <2>1 DEF Pending
  <2> QED BY <1>2, <2>1, <2>2, QuietEffect
<1>6. CASE BeginMapPage \/ Follow
  <2>1. /\ SameCall /\ call'.i = call.i
        /\ UNCHANGED <<heapNext, mmioNext, table, root, depth>>
    BY <1>6, BeginMapAfter, FollowAfter DEF BeginMapPage, Follow
  <2> QED BY <1>2, <1>3, <1>f, <2>1, QuietEffect DEF SameCall
<1>7. CASE CreateTable
  <2>1. SameCall /\ call'.i = call.i /\ UNCHANGED <<heapNext, mmioNext>>
    BY <1>7, CreateAfter DEF CreateTable
  <2>2. \A v \in Pages : At(v)' = At(v)
    BY <1>7, CreateEffect
  <2> QED BY <1>2, <1>3, <1>f, <2>1, <2>2 DEF SameCall
<1>8. CASE AllocateFrame
  <2>1. /\ call'.op = call.op /\ call'.virt = call.virt /\ call'.pages = call.pages
        /\ call'.i = call.i /\ UNCHANGED <<heapNext, mmioNext, table, root, depth>>
    BY <1>8, FrameAfter DEF AllocateFrame
  <2> QED BY <1>2, <1>3, <1>f, <2>1, QuietEffect
<1>9. CASE WriteLeaf
  <2>1. PICK v \in Pages : v = PageNow /\ \A w \in Pages \ {v} : At(w)' = At(w)
    BY <1>9, WriteEffect
  <2>2. SameCall /\ call'.i = call.i + 1 /\ UNCHANGED <<heapNext, mmioNext>>
    BY <1>9, NextPageAfter DEF WriteLeaf
  <2>3. Pending' \subseteq Pending
    BY <1>3, <1>f, <2>2 DEF SameCall
  <2>4. call.op \in Maps \cup {"alloc"} /\ call.i < Count
    <3>1. call.level > 0
      BY <1>9 DEF WriteLeaf, LeafLevel
    <3> QED BY <1>1, <3>1 DEF OnWalk
  <2>5. v \notin Pending'
    <3>1. CASE call.op = "direct"
      <4>1. call.i + 1 \in 1 .. Len(DirectMap) /\ v = DirectMap[call.i + 1].virt
        BY <1>1, <2>1, <2>4, <3>1, PageNowTyped
      <4>2. v \notin Window \cup ImagePages
        <5>1. \A w \in Window \cup {Image[j].virt : j \in DOMAIN Image} :
                Path[DirectMap[call.i + 1].virt][1] # Path[w][1]
          BY <4>1, LayoutAssumption, Layout
        <5> QED BY <4>1, <5>1 DEF ImagePages
      <4>3. ASSUME NEW j \in (call'.i + 1) .. Len(DirectMap)
            PROVE  DirectMap[j].virt # v
        <5>1. j \in 1 .. Len(DirectMap) /\ j # call.i + 1
          BY <1>f, <2>2, <4>1, Layout
        <5>2. j \in DOMAIN DirectMap /\ call.i + 1 \in DOMAIN DirectMap
          BY <4>1, <5>1, Layout
        <5> QED BY <4>1, <5>1, <5>2, LayoutAssumption
      <4> QED BY <2>2, <3>1, <4>2, <4>3, Layout DEF Pending, SameCall
    <3>2. CASE call.op = "section"
      <4>1. call.i + 1 \in 1 .. Len(Image) /\ v = Image[call.i + 1].virt
        BY <1>1, <2>1, <2>4, <3>2, PageNowTyped
      <4>2. v \notin Window
        BY <4>1, Layout
      <4>3. ASSUME NEW j \in (call'.i + 1) .. Len(Image)
            PROVE  Image[j].virt # v
        <5>1. j \in 1 .. Len(Image) /\ j # call.i + 1
          BY <1>f, <2>2, <4>1, Layout
        <5>2. j \in DOMAIN Image /\ call.i + 1 \in DOMAIN Image
          BY <4>1, <5>1, Layout
        <5> QED BY <4>1, <5>1, <5>2, LayoutAssumption
      <4> QED BY <2>2, <3>2, <4>2, <4>3, Layout DEF Pending, SameCall
    <3>3. CASE call.op = "alloc"
      <4>1. v = call.virt + call.i /\ v \in HeapPages /\ v < heapNext
        BY <1>1, <2>1, <2>4, <3>3, PageNowTyped DEF HeapOps
      <4>2. v \notin MmioBase .. MmioEnd /\ v \in Nat
        BY <1>f, <4>1, Layout
      <4> QED BY <1>1, <1>f, <2>2, <3>3, <4>1, <4>2 DEF Pending, SameCall
    <3>4. CASE call.op = "map"
      <4>1. v = call.virt + call.i /\ v \in MmioBase .. MmioEnd /\ v < mmioNext
        BY <1>1, <2>1, <2>4, <3>4, PageNowTyped DEF MmioOps
      <4>2. v \notin HeapPages /\ v \in Nat
        BY <1>f, <4>1, Layout
      <4> QED BY <1>1, <1>f, <2>2, <3>4, <4>1, <4>2 DEF Pending, SameCall
    <3> QED BY <2>4, <3>1, <3>2, <3>3, <3>4 DEF Maps
  <2>6. \A w \in Pending' : At(w)' = Nowhere
    BY <1>1, <2>1, <2>3, <2>5 DEF Fresh
  <2> QED BY <2>6 DEF Fresh, At
<1>10. CASE UnmapNext \/ ReleaseNext
  <2>1. PICK v \in Window : At(v)' = Nowhere /\ \A w \in Pages \ {v} : At(w)' = At(w)
    BY <1>10, UnmapStep
  <2>2. SameCall /\ call'.i = call.i + 1 /\ UNCHANGED <<heapNext, mmioNext>>
    BY <1>10, NextPageAfter DEF UnmapNext, ReleaseNext
  <2>3. Pending' \subseteq Pending
    BY <1>3, <1>f, <2>2 DEF SameCall
  <2>4. \A w \in Pending' : At(w)' = Nowhere
    BY <1>1, <2>1, <2>3 DEF Fresh
  <2> QED BY <2>4 DEF Fresh, At
<1>11. CASE MapPageFails
  <2>0. UNCHANGED <<heapNext, mmioNext, table, root, depth>>
    BY <1>11 DEF MapPageFails
  <2>1. CASE call.op = "section"
    <3>1. call'.op = "section" /\ call'.i \in call.i .. Len(Image)
      BY <1>11, <2>1, FailsAfter
    <3>2. call'.i \in Nat /\ call.i <= call'.i
      BY <1>f, <3>1, Layout
    <3>3. {Image[j].virt : j \in (call'.i + 1) .. Len(Image)}
          \subseteq {Image[j].virt : j \in (call.i + 1) .. Len(Image)}
      BY <1>f, <3>2, Layout
    <3>4. Pending' \subseteq Pending
      BY <2>0, <2>1, <3>1, <3>3 DEF Pending
    <3> QED BY <1>2, <2>0, <3>4, QuietEffect
  <2>2. CASE call.op # "section"
    <3>1. call'.op \in {"failed", "rollback", "idle"}
      BY <1>11, <2>2, FailsAfter DEF Maps, Begins
    <3> QED BY <1>2, <1>4, <2>0, <3>1, QuietEffect
  <2> QED BY <2>1, <2>2
<1>12. CASE EndMapLoop
  <2>0. /\ UNCHANGED <<heapNext, mmioNext, table, root, depth>>
        /\ call'.op = IF call.op = "direct" THEN "section" ELSE "idle"
        /\ call'.i = 0
    BY <1>12, EndMapAfter DEF EndMapLoop, Begins
  <2>1. CASE call.op = "direct"
    <3>1. {Image[j].virt : j \in (0 + 1) .. Len(Image)} = ImagePages
      BY Layout DEF ImagePages
    <3>2. Pending' \subseteq Pending
      BY <2>0, <2>1, <3>1 DEF Pending
    <3> QED BY <1>2, <2>0, <3>2, QuietEffect
  <2>2. CASE call.op # "direct"
    BY <1>2, <1>4, <2>0, <2>2, QuietEffect
  <2> QED BY <2>1, <2>2
<1>13. CASE \/ \E r \in live : MmFreeVirtual(r) \/ MmUnmapIoSpace(r)
            \/ AllocateFails \/ AllocateReturns \/ EndUnmapLoop
  <2>1. /\ UNCHANGED <<heapNext, mmioNext, table, root, depth>>
        /\ call'.op \in {"release", "unmap", "unwind", "idle"}
    <3>1. CASE \E r \in live : MmFreeVirtual(r) \/ MmUnmapIoSpace(r)
      BY <3>1, BeginAfter DEF MmFreeVirtual, MmUnmapIoSpace, Begins
    <3>2. CASE AllocateFails \/ AllocateReturns \/ EndUnmapLoop
      BY <3>2, BeginAfter DEF AllocateFails, AllocateReturns, EndUnmapLoop, Begins
    <3> QED BY <1>13, <3>1, <3>2
  <2> QED BY <1>2, <1>4, <2>1, QuietEffect
<1>14. CASE \E pages \in 1 .. MaxRequest : MmAllocateVirtual(pages)
  <2>1. PICK pages \in 1 .. MaxRequest : MmAllocateVirtual(pages)
    BY <1>14
  <2>2. /\ call'.op = "alloc" /\ call'.virt = heapNext /\ call'.pages = pages /\ call'.i = 0
        /\ heapNext + pages + 1 < HeapEnd /\ heapNext' = heapNext + pages + 1
        /\ UNCHANGED <<mmioNext, table, root, depth>>
    BY <1>1, <2>1, BeginAfter, CursorAfter DEF MmAllocateVirtual, Begins
  <2>3. pages \in Nat
    BY VmmAssumption
  <2>4. (heapNext + 0) .. (heapNext + pages - 1) \subseteq {v \in HeapPages : heapNext <= v}
    BY <1>1, <2>2, <2>3, Layout DEF HeapPages, Ranges
  <2>5. {v \in HeapPages : heapNext' <= v} \subseteq {v \in HeapPages : heapNext <= v}
    BY <1>1, <2>2, <2>3, Layout DEF HeapPages
  <2>6. Pending' \subseteq Pending
    BY <2>2, <2>4, <2>5 DEF Pending
  <2> QED BY <1>2, <2>2, <2>6, QuietEffect
<1>15. CASE \E phys \in Devices : \E pages \in 0 .. MaxRequest : MmMapIoSpace(phys, pages)
  <2>1. PICK phys \in Devices : \E pages \in 0 .. MaxRequest : MmMapIoSpace(phys, pages)
    BY <1>15
  <2>p. PICK pages \in 0 .. MaxRequest : MmMapIoSpace(phys, pages)
    BY <2>1
  <2>2. /\ call'.op = "map" /\ call'.virt = mmioNext /\ call'.pages = pages /\ call'.i = 0
        /\ mmioNext + pages + 1 < MmioEnd /\ mmioNext' = mmioNext + pages + 1
        /\ UNCHANGED <<heapNext, table, root, depth>>
    BY <1>1, <2>p, BeginAfter, CursorAfter DEF MmMapIoSpace, Begins
  <2>3. pages \in Nat
    BY VmmAssumption
  <2>4. (mmioNext + 0) .. (mmioNext + pages - 1) \subseteq {v \in MmioBase .. MmioEnd : mmioNext <= v}
    BY <1>1, <2>2, <2>3, Layout DEF Ranges
  <2>5. {v \in MmioBase .. MmioEnd : mmioNext' <= v}
        \subseteq {v \in MmioBase .. MmioEnd : mmioNext <= v}
    BY <1>1, <2>2, <2>3, Layout
  <2>6. Pending' \subseteq Pending
    BY <2>2, <2>4, <2>5 DEF Pending
  <2> QED BY <1>2, <2>2, <2>6, QuietEffect
<1>16. CASE MmInitPaging
  <2>1. \A v \in Pages : At(v)' = Nowhere
    BY <1>16, InitEffect
  <2>2. call'.op \in {"direct", "failed"} /\ call'.i = 0
    BY <1>16, BeginAfter DEF Begins
  <2>3. {DirectMap[j].virt : j \in (0 + 1) .. Len(DirectMap)} \subseteq Pages
    BY Layout
  <2>4. Pending' \subseteq Pages
    BY <2>2, <2>3, Layout DEF Pending
  <2>5. \A v \in Pending' : At(v)' = Nowhere
    BY <2>1, <2>4
  <2> QED BY <2>5 DEF Fresh, At
<1> QED BY <1>5, <1>6, <1>7, <1>8, <1>9, <1>10, <1>11, <1>12, <1>13, <1>14, <1>15, <1>16 DEF Next

-----------------------------------------------------------------------------
(* Every frame in one use.                                                 *)
LEMMA BackingKept ==
  ASSUME \A v \in HeapPages : At(v)' = At(v)
  PROVE  /\ Backing' = Backing
         /\ (\A v, w \in HeapPages : At(v) # Nowhere /\ At(v) = At(w) => v = w)
            => \A v, w \in HeapPages : At(v)' # Nowhere /\ At(v)' = At(w)' => v = w
<1> DEFINE b(v) == At(v)'
<1>1. Backing' = {b(v) : v \in {w \in HeapPages : b(w) # Nowhere}}
  BY DEF Backing
<1>2. \A v \in HeapPages : b(v) = At(v)
  OBVIOUS
<1> HIDE DEF b
<1>3. Backing' = Backing
  BY <1>1, <1>2 DEF Backing
<1>4. (\A v, w \in HeapPages : At(v) # Nowhere /\ At(v) = At(w) => v = w)
      => \A v, w \in HeapPages : b(v) # Nowhere /\ b(v) = b(w) => v = w
  BY <1>2
<1> QED BY <1>3, <1>4 DEF b

(* One heap page changes hands.                                            *)
LEMMA BackingGains ==
  ASSUME NEW v \in HeapPages, NEW p, p # Nowhere, At(v) = Nowhere, At(v)' = p,
         \A w \in HeapPages \ {v} : At(w)' = At(w), OneUse, p \notin Backing
  PROVE  /\ Backing' = Backing \cup {p}
         /\ \A x, y \in HeapPages : At(x)' # Nowhere /\ At(x)' = At(y)' => x = y
<1> DEFINE b(w) == At(w)'
<1>1. Backing' = {b(w) : w \in {x \in HeapPages : b(x) # Nowhere}}
  BY DEF Backing
<1>2. b(v) = p /\ \A w \in HeapPages \ {v} : b(w) = At(w)
  OBVIOUS
<1> HIDE DEF b
<1>3. Backing' = Backing \cup {p}
  BY <1>1, <1>2 DEF Backing
<1>4. \A x, y \in HeapPages : At(x) # Nowhere /\ At(x) = At(y) => x = y
  BY DEF OneUse
<1>5. \A x \in HeapPages : At(x) # p
  BY DEF Backing
<1>6. \A x, y \in HeapPages : b(x) # Nowhere /\ b(x) = b(y) => x = y
  BY <1>2, <1>4, <1>5
<1> QED BY <1>3, <1>6 DEF b

LEMMA BackingLoses ==
  ASSUME NEW v \in HeapPages, At(v)' = Nowhere,
         \A w \in HeapPages \ {v} : At(w)' = At(w), OneUse
  PROVE  /\ Backing' = Backing \ {At(v)}
         /\ \A x, y \in HeapPages : At(x)' # Nowhere /\ At(x)' = At(y)' => x = y
<1> DEFINE b(w) == At(w)'
<1>1. Backing' = {b(w) : w \in {x \in HeapPages : b(x) # Nowhere}}
  BY DEF Backing
<1>2. b(v) = Nowhere /\ \A w \in HeapPages \ {v} : b(w) = At(w)
  OBVIOUS
<1> HIDE DEF b
<1>4. \A x, y \in HeapPages : At(x) # Nowhere /\ At(x) = At(y) => x = y
  BY DEF OneUse
<1>3. Backing' = Backing \ {At(v)}
  BY <1>1, <1>2, <1>4 DEF Backing
<1>6. \A x, y \in HeapPages : b(x) # Nowhere /\ b(x) = b(y) => x = y
  BY <1>2, <1>4
<1> QED BY <1>3, <1>6 DEF b

LEMMA OneUseStep ==
  ASSUME VmmInv, [Next]_vars
  PROVE  OneUse'
<1>1. /\ TypeOK /\ Ranges /\ Progress /\ OnWalk /\ OneUse
      /\ HeapPages \subseteq Pages /\ Nowhere \notin Frames /\ supply \subseteq Frames
  BY Layout, Constants DEF VmmInv, TypeOK
<1>s. supply' = supply
  BY DEF Next, vars, MmInitPaging, BeginMapPage, EndMapLoop, Follow, CreateTable, WriteLeaf,
         MapPageFails, MmAllocateVirtual, AllocateFrame, AllocateFails, AllocateReturns,
         MmMapIoSpace, MmFreeVirtual, MmUnmapIoSpace, UnmapNext, ReleaseNext, EndUnmapLoop,
         Cache, Evict
<1>f. call.level \in 0 .. 4
  BY <1>1, CallFields DEF TypeOK
<1>h. InHand \subseteq Frames /\ free \subseteq Frames /\ Nowhere \notin InHand
  BY <1>1 DEF InHand, Progress, TypeOK
<1>2. ASSUME UNCHANGED <<free, table, root, depth>>, InHand' = InHand
      PROVE  OneUse'
  <2>1. Tables' = Tables
    BY <1>2 DEF Tables
  <2>2. \A v \in HeapPages : At(v)' = At(v)
    BY <1>1, <1>2, QuietEffect
  <2> QED BY <1>1, <1>2, <1>s, <2>1, <2>2, BackingKept DEF OneUse
<1>3. CASE UNCHANGED vars \/ Evict \/ \E v \in Pages : Cache(v)
  <2>1. UNCHANGED <<call, free, table, root, depth>>
    BY <1>3 DEF vars, Evict, Cache
  <2> QED BY <1>2, <2>1 DEF InHand
<1>4. CASE BeginMapPage
  <2>1. InHand = {} /\ InHand' = {}
    BY <1>4, BeginMapAfter DEF InHand, BeginMapPage, Maps, SameCall
  <2> QED BY <1>2, <1>4, <2>1 DEF BeginMapPage
<1>5. CASE Follow
  <2>1. SameCall /\ call'.level = call.level + 1 /\ call.level > 0
    BY <1>f, <1>5, FollowAfter DEF Follow, Descending, LeafLevel
  <2>2. InHand' = InHand
    BY <1>f, <2>1 DEF InHand, SameCall
  <2> QED BY <1>2, <1>5, <2>2 DEF Follow
<1>6. CASE CreateTable
  <2>1. SameCall /\ call'.level = call.level + 1 /\ call.level > 0
    BY <1>6, CreateAfter
  <2>2. InHand' = InHand
    BY <1>f, <2>1 DEF InHand, SameCall
  <2>3. PICK f \in free : free' = free \ {f} /\ Tables' = Tables \cup {f}
    BY <1>6, CreateEffect
  <2>4. \A v \in HeapPages : At(v)' = At(v)
    BY <1>1, <1>6, CreateEffect
  <2>5. Backing' = Backing
        /\ \A v, w \in HeapPages : At(v)' # Nowhere /\ At(v)' = At(w)' => v = w
    BY <1>1, <2>4, BackingKept DEF OneUse
  <2> QED BY <1>1, <1>s, <2>2, <2>3, <2>5 DEF OneUse
<1>7. CASE WriteLeaf
  <2>1. PICK v \in Pages, p \in Nat :
          /\ v = PageNow /\ p = PhysNow /\ At(v) = Nowhere /\ At(v)' = p
          /\ \A w \in Pages \ {v} : At(w)' = At(w)
    BY <1>7, WriteEffect
  <2>2. /\ SameCall /\ call'.level = 0 /\ UNCHANGED <<free, depth>>
        /\ call.level > 0
    BY <1>7, NextPageAfter DEF WriteLeaf, LeafLevel
  <2>3. call.op \in Maps \cup {"alloc"} /\ call.i < Count
    BY <1>1, <2>2 DEF OnWalk
  <2>4. InHand' = {} /\ Tables' = Tables
    BY <2>2 DEF InHand, Tables
  <2>5. CASE call.op = "alloc"
    <3>1. v \in HeapPages /\ p = call.phys /\ InHand = {p}
      BY <1>1, <2>1, <2>2, <2>3, <2>5, PageNowTyped DEF HeapOps, InHand
    <3>2. p \notin Backing /\ p # Nowhere
      BY <1>1, <1>h, <3>1 DEF OneUse
    <3>3. \A w \in HeapPages \ {v} : At(w)' = At(w)
      BY <1>1, <2>1
    <3>4. /\ Backing' = Backing \cup {p}
          /\ \A x, y \in HeapPages : At(x)' # Nowhere /\ At(x)' = At(y)' => x = y
      BY <1>1, <2>1, <3>1, <3>2, <3>3, BackingGains
    <3> QED BY <1>1, <1>s, <2>2, <2>4, <3>1, <3>4 DEF OneUse
  <2>6. CASE call.op # "alloc"
    <3>1. v \notin HeapPages
      <4>1. CASE call.op = "direct"
        <5>1. call.i + 1 \in DOMAIN DirectMap /\ v = DirectMap[call.i + 1].virt
          BY <1>1, <2>1, <2>3, <4>1, PageNowTyped, Layout
        <5>2. \A w \in Window \cup {Image[j].virt : j \in DOMAIN Image} :
                Path[DirectMap[call.i + 1].virt][1] # Path[w][1]
          BY <5>1, LayoutAssumption
        <5> QED BY <5>1, <5>2, Layout
      <4>2. CASE call.op = "section"
        BY <1>1, <2>1, <2>3, <4>2, PageNowTyped, Layout
      <4>3. CASE call.op = "map"
        BY <1>1, <2>1, <2>3, <4>3, PageNowTyped, Layout DEF MmioOps
      <4> QED BY <2>3, <2>6, <4>1, <4>2, <4>3 DEF Maps
    <3>2. \A w \in HeapPages : At(w)' = At(w)
      BY <1>1, <2>1, <3>1
    <3>3. /\ Backing' = Backing
          /\ \A x, y \in HeapPages : At(x)' # Nowhere /\ At(x)' = At(y)' => x = y
      BY <1>1, <3>2, BackingKept DEF OneUse
    <3>4. InHand = {}
      BY <2>6 DEF InHand
    <3> QED BY <1>1, <1>s, <2>2, <2>4, <3>3, <3>4 DEF OneUse
  <2> QED BY <2>5, <2>6
<1>8. CASE UnmapNext \/ ReleaseNext
  <2>1. PICK v \in Window :
          /\ UnmapNext => v \notin HeapPages
          /\ ReleaseNext => v \in HeapPages /\ free' = free \cup ({At(v)} \ {Nowhere})
          /\ At(v)' = Nowhere
          /\ \A w \in Pages \ {v} : At(w)' = At(w)
    BY <1>8, UnmapStep
  <2>2. InHand = {} /\ InHand' = {} /\ Tables' = Tables
    BY <1>8, NextPageAfter DEF UnmapNext, ReleaseNext, InHand, Tables
  <2>3. CASE UnmapNext
    <3>1. \A w \in HeapPages : At(w)' = At(w)
      BY <1>1, <2>1, <2>3
    <3>2. /\ Backing' = Backing
          /\ \A x, y \in HeapPages : At(x)' # Nowhere /\ At(x)' = At(y)' => x = y
      BY <1>1, <3>1, BackingKept DEF OneUse
    <3>3. free' = free
      BY <2>3 DEF UnmapNext
    <3> QED BY <1>1, <1>s, <2>2, <3>2, <3>3 DEF OneUse
  <2>4. CASE ReleaseNext
    <3>1. v \in HeapPages /\ \A w \in HeapPages \ {v} : At(w)' = At(w)
      BY <1>1, <2>1, <2>4
    <3>2. /\ Backing' = Backing \ {At(v)}
          /\ \A x, y \in HeapPages : At(x)' # Nowhere /\ At(x)' = At(y)' => x = y
      BY <1>1, <2>1, <3>1, BackingLoses
    <3>3. At(v) # Nowhere => At(v) \in Backing
      BY <3>1 DEF Backing
    <3>4. Nowhere \notin Backing
      BY DEF Backing
    <3> QED BY <1>1, <1>s, <2>1, <2>2, <2>4, <3>2, <3>3, <3>4 DEF OneUse
  <2> QED BY <1>8, <2>3, <2>4
<1>9. CASE MapPageFails
  <2>0. call.level > 0 /\ call'.level = 0 /\ UNCHANGED <<table, root, depth>>
    BY <1>9, FailsAfter DEF MapPageFails
  <2>1. CASE call.op = "alloc"
    <3>1. InHand = {call.phys} /\ InHand' = {} /\ free' = free \cup {call.phys} /\ Tables' = Tables
      BY <1>9, <2>0, <2>1 DEF InHand, MapPageFails, Tables
    <3>2. \A v \in HeapPages : At(v)' = At(v)
      BY <1>1, <2>0, QuietEffect
    <3>3. /\ Backing' = Backing
          /\ \A x, y \in HeapPages : At(x)' # Nowhere /\ At(x)' = At(y)' => x = y
      BY <1>1, <3>2, BackingKept DEF OneUse
    <3> QED BY <1>1, <1>s, <3>1, <3>3 DEF OneUse
  <2>2. CASE call.op # "alloc"
    <3>1. InHand = {} /\ InHand' = {}
      BY <2>0, <2>2 DEF InHand
    <3>2. free' = free
      BY <1>9, <2>2 DEF MapPageFails
    <3> QED BY <1>2, <2>0, <3>1, <3>2
  <2> QED BY <2>1, <2>2
<1>10. CASE AllocateFrame
  <2>1. PICK f \in free : call'.phys = f /\ free' = free \ {f} /\ f \in Frames
    BY <1>10, FrameAfter
  <2>2. InHand = {} /\ InHand' = {f} /\ UNCHANGED <<table, root, depth>>
    <3>1. call'.op = "alloc" /\ call'.level = 1 /\ call.level = 0
      BY <1>10, FrameAfter
    <3>2. UNCHANGED <<table, root, depth>>
      BY <1>10 DEF AllocateFrame
    <3> QED BY <2>1, <3>1, <3>2 DEF InHand
  <2>3. \A v \in HeapPages : At(v)' = At(v)
    BY <1>1, <2>2, QuietEffect
  <2>4. /\ Backing' = Backing
        /\ \A x, y \in HeapPages : At(x)' # Nowhere /\ At(x)' = At(y)' => x = y
    BY <1>1, <2>3, BackingKept DEF OneUse
  <2>5. Tables' = Tables
    BY <2>2 DEF Tables
  <2> QED BY <1>1, <1>s, <2>1, <2>2, <2>4, <2>5 DEF OneUse
<1>11. CASE \/ \E pages \in 1 .. MaxRequest : MmAllocateVirtual(pages)
            \/ \E phys \in Devices : \E pages \in 0 .. MaxRequest : MmMapIoSpace(phys, pages)
            \/ \E r \in live : MmFreeVirtual(r) \/ MmUnmapIoSpace(r)
  <2>1. call'.level = 0
    BY <1>11, BeginAfter DEF Begins
  <2>2. call = Idle /\ UNCHANGED <<free, table, root, depth>>
    BY <1>11 DEF MmAllocateVirtual, MmMapIoSpace, MmFreeVirtual, MmUnmapIoSpace
  <2>3. InHand = {} /\ InHand' = {}
    BY <2>1, <2>2 DEF InHand, Idle, Start
  <2> QED BY <1>2, <2>2, <2>3
<1>12. CASE AllocateFails \/ AllocateReturns \/ EndUnmapLoop \/ EndMapLoop
  <2>1. call'.level = 0
    BY <1>12, BeginAfter, EndMapAfter DEF Begins
  <2>2. InHand = {} /\ UNCHANGED <<free, table, root, depth>>
    BY <1>12 DEF AllocateFails, AllocateReturns, EndUnmapLoop, EndMapLoop, InHand, Maps
  <2>3. InHand' = {}
    BY <2>1 DEF InHand
  <2> QED BY <1>2, <2>2, <2>3
<1>13. CASE MmInitPaging
  <2>1. call.op = "boot" /\ call'.level = 0
    BY <1>13, BeginAfter DEF MmInitPaging, Begins
  <2>2. InHand = {} /\ InHand' = {}
    BY <2>1 DEF InHand
  <2>3. CASE UNCHANGED <<free, table, root, depth>>
    BY <1>2, <2>2, <2>3
  <2>4. ASSUME NEW f \in Frames, Takes(f), depth' = [depth EXCEPT ![f] = 1]
        PROVE  OneUse'
    <3>1. f \in free /\ free' = free \ {f}
      BY <1>1, <2>4, SearchReturnsFree
    <3>2. Tables' = Tables \cup {f}
      BY <1>1, <2>4 DEF Tables, TypeOK
    <3>3. \A v \in HeapPages : At(v)' = At(v)
      BY <1>1, <1>13, InitEffect
    <3>4. /\ Backing' = Backing
          /\ \A x, y \in HeapPages : At(x)' # Nowhere /\ At(x)' = At(y)' => x = y
      BY <1>1, <3>3, BackingKept DEF OneUse
    <3> QED BY <1>1, <1>s, <2>2, <3>1, <3>2, <3>4 DEF OneUse
  <2> QED BY <1>13, <2>3, <2>4 DEF MmInitPaging
<1> QED BY <1>3, <1>4, <1>5, <1>6, <1>7, <1>8, <1>9, <1>10, <1>11, <1>12, <1>13 DEF Next

-----------------------------------------------------------------------------
LEMMA TypeStep ==
  ASSUME VmmInv, [Next]_vars, Tree', OneUse'
  PROVE  TypeOK'
<1>1. /\ TypeOK /\ Ranges /\ OnWalk /\ Progress
      /\ heapNext \in Nat /\ mmioNext \in Nat /\ MaxRequest \in Nat
      /\ call \in Call /\ live \subseteq Grant /\ abandoned \subseteq Pages
      /\ tlb \subseteq [page : Pages, phys : Nat] /\ supply \subseteq Frames
  BY VmmAssumption DEF VmmInv, TypeOK
<1>f. /\ call.virt \in Nat /\ call.phys \in Nat \cup {Nowhere}
      /\ call.pages \in Nat /\ call.i \in Nat /\ call.level \in 0 .. 4
  BY <1>1, CallFields
<1>2. supply' = supply
  BY DEF Next, vars, MmInitPaging, BeginMapPage, EndMapLoop, Follow, CreateTable, WriteLeaf,
         MapPageFails, MmAllocateVirtual, AllocateFrame, AllocateFails, AllocateReturns,
         MmMapIoSpace, MmFreeVirtual, MmUnmapIoSpace, UnmapNext, ReleaseNext, EndUnmapLoop,
         Cache, Evict
<1>3. free' \subseteq Frames
  BY <1>1, <1>2 DEF OneUse
<1>4. table' \in Contents /\ depth' \in Depths /\ root' \in Frames \cup {Nowhere}
  BY DEF Tree, Forest, Rooted
<1>5. heapNext' \in Nat /\ mmioNext' \in Nat
  <2>1. CASE UNCHANGED <<heapNext, mmioNext>>
    BY <1>1, <2>1
  <2>2. ASSUME NEW pages \in 1 .. MaxRequest, MmAllocateVirtual(pages)
        PROVE  heapNext' \in Nat /\ mmioNext' \in Nat
    BY <1>1, <2>2, VmmAssumption, CursorAfter DEF MmAllocateVirtual
  <2>3. ASSUME NEW phys \in Devices, NEW pages \in 0 .. MaxRequest, MmMapIoSpace(phys, pages)
        PROVE  heapNext' \in Nat /\ mmioNext' \in Nat
    BY <1>1, <2>3, VmmAssumption, CursorAfter DEF MmMapIoSpace
  <2> QED BY <2>1, <2>2, <2>3
          DEF Next, vars, MmInitPaging, BeginMapPage, EndMapLoop, Follow, CreateTable, WriteLeaf,
              MapPageFails, AllocateFrame, AllocateFails, AllocateReturns,
              MmFreeVirtual, MmUnmapIoSpace, UnmapNext, ReleaseNext, EndUnmapLoop, Cache, Evict
<1>6. tlb' \subseteq [page : Pages, phys : Nat]
  <2>1. CASE tlb' \subseteq tlb
    BY <1>1, <2>1
  <2>2. ASSUME NEW v \in Pages, Cache(v)
        PROVE  tlb' \subseteq [page : Pages, phys : Nat]
    <3>1. tlb' = tlb \cup {[page |-> v, phys |-> At(v)]} /\ At(v) # Nowhere
      BY <2>2, AtIsTranslation DEF Cache
    <3>2. At(v) \in Nat
      BY <3>1, WalkTyped DEF At, VmmInv, Tree
    <3> QED BY <1>1, <3>1, <3>2
  <2>3. CASE UnmapNext \/ ReleaseNext
    BY <2>1, <2>3, UnmapStep
  <2>4. CASE WriteLeaf \/ Evict
    BY <2>1, <2>4 DEF WriteLeaf, Invalidate, Evict
  <2> QED BY <2>1, <2>2, <2>3, <2>4
          DEF Next, vars, MmInitPaging, BeginMapPage, EndMapLoop, Follow, CreateTable,
              MapPageFails, MmAllocateVirtual, AllocateFrame, AllocateFails, AllocateReturns,
              MmMapIoSpace, MmFreeVirtual, MmUnmapIoSpace, EndUnmapLoop
<1>7. call' \in Call
  <2>1. CASE UNCHANGED vars \/ Evict \/ \E v \in Pages : Cache(v)
    BY <1>1, <2>1 DEF vars, Evict, Cache
  <2>2. CASE BeginMapPage
    BY <2>2, BeginMapAfter
  <2>3. CASE Follow
    BY <2>3, FollowAfter
  <2>4. CASE CreateTable
    BY <2>4, CreateAfter
  <2>5. CASE WriteLeaf \/ UnmapNext \/ ReleaseNext
    BY <2>5, NextPageAfter DEF WriteLeaf, UnmapNext, ReleaseNext
  <2>6. CASE MapPageFails
    BY <2>6, FailsAfter
  <2>7. CASE EndMapLoop
    BY <2>7, EndMapAfter DEF Begins
  <2>8. CASE AllocateFrame
    BY <2>8, FrameAfter
  <2>9. CASE \/ \E pages \in 1 .. MaxRequest : MmAllocateVirtual(pages)
             \/ \E phys \in Devices : \E pages \in 0 .. MaxRequest : MmMapIoSpace(phys, pages)
             \/ \E r \in live : MmFreeVirtual(r) \/ MmUnmapIoSpace(r)
             \/ AllocateFails \/ AllocateReturns \/ EndUnmapLoop \/ MmInitPaging
    BY <2>9, BeginAfter DEF Begins
  <2> QED BY <2>1, <2>2, <2>3, <2>4, <2>5, <2>6, <2>7, <2>8, <2>9 DEF Next
<1>8. live' \subseteq Grant
  <2>1. CASE EndMapLoop
    <3>1. [kind |-> "mmio", virt |-> call.virt, phys |-> call.phys, pages |-> call.pages] \in Grant
      BY <1>f DEF Grant
    <3> QED BY <1>1, <2>1, <3>1 DEF EndMapLoop
  <2>2. CASE AllocateReturns
    <3>1. [kind |-> "heap", virt |-> call.virt, phys |-> Nowhere, pages |-> call.pages] \in Grant
      BY <1>f DEF Grant
    <3> QED BY <1>1, <2>2, <3>1 DEF AllocateReturns
  <2>3. CASE \E r \in live : MmFreeVirtual(r) \/ MmUnmapIoSpace(r)
    BY <1>1, <2>3 DEF MmFreeVirtual, MmUnmapIoSpace
  <2>4. CASE UNCHANGED live
    BY <1>1, <2>4
  <2> QED BY <2>1, <2>2, <2>3, <2>4
          DEF Next, vars, MmInitPaging, BeginMapPage, Follow, CreateTable, WriteLeaf,
              MapPageFails, MmAllocateVirtual, AllocateFrame, AllocateFails,
              MmMapIoSpace, UnmapNext, ReleaseNext, EndUnmapLoop, Cache, Evict
<1>9. abandoned' \subseteq Pages
  <2>1. CASE UNCHANGED abandoned
    BY <1>1, <2>1
  <2>2. CASE MapPageFails /\ call.op = "alloc"
    <3>1. InHeap(call.virt, call.pages) /\ call.i <= call.pages
      BY <1>1, <2>2 DEF Ranges, HeapOps
    <3>2. (call.virt .. (call.virt + call.i - 1)) \subseteq HeapPages
      <4>1. HeapBase \in Nat /\ HeapEnd \in Nat /\ HeapPages = HeapBase .. HeapEnd
        BY Ends
      <4>2. HeapBase <= call.virt /\ call.virt + call.pages <= HeapEnd
        BY <3>1 DEF InHeap
      <4> QED BY <1>1, <1>f, <3>1, <4>1, <4>2, Inside
    <3>3. abandoned' = abandoned \cup (call.virt .. (call.virt + call.i - 1))
      BY <2>2 DEF MapPageFails
    <3> QED BY <1>1, <3>2, <3>3, Layout
  <2>3. CASE MapPageFails /\ call.op # "alloc"
    BY <1>1, <2>3 DEF MapPageFails
  <2> QED BY <2>1, <2>2, <2>3
          DEF Next, vars, MmInitPaging, BeginMapPage, EndMapLoop, Follow, CreateTable, WriteLeaf,
              MmAllocateVirtual, AllocateFrame, AllocateFails, AllocateReturns,
              MmMapIoSpace, MmFreeVirtual, MmUnmapIoSpace, UnmapNext, ReleaseNext, EndUnmapLoop,
              Cache, Evict
<1> QED BY <1>1, <1>2, <1>3, <1>4, <1>5, <1>6, <1>7, <1>8, <1>9 DEF TypeOK, Contents, Depths

LEMMA VmmInvStep == VmmInv /\ [Next]_vars => VmmInv'
<1> SUFFICES ASSUME VmmInv, [Next]_vars PROVE VmmInv'
  OBVIOUS
<1>1. Tree' /\ NoHuge' /\ OneUse'
  BY TreeStep, OneUseStep
<1>2. TypeOK'
  BY <1>1, TypeStep
<1> QED BY <1>1, <1>2, RangesStep, ProgressStep, OnWalkStep, FreshStep, CoherentStep DEF VmmInv

(* Memory management keeps its types, whatever the layout, the memory and  *)
(* the calls.                                                              *)
THEOREM VmmTyped == Spec => []TypeOK
<1>1. VmmInv => TypeOK
  BY DEF VmmInv
<1> QED BY VmmInvInit, VmmInvStep, <1>1, PTL DEF Spec

(* Every frame taken from the physical memory manager is in exactly one    *)
(* use, at every step of every call and wherever memory runs out.           *)
LEMMA OneUseMeansOneUse == VmmInv => FramesHaveOneUse
<1> SUFFICES ASSUME VmmInv PROVE FramesHaveOneUse
  OBVIOUS
<1> DEFINE backs == [v \in {w \in HeapPages : Mapped(w)} |-> MmGetPhysicalAddress(v)]
           backing == {backs[v] : v \in DOMAIN backs}
<1>1. \A v \in HeapPages : MmGetPhysicalAddress(v) = At(v) /\ (Mapped(v) <=> At(v) # Nowhere)
  BY AtIsTranslation, Layout DEF Mapped
<1>2. DOMAIN backs = {w \in HeapPages : At(w) # Nowhere}
  BY <1>1
<1>3. \A v \in DOMAIN backs : v \in HeapPages /\ At(v) # Nowhere /\ backs[v] = At(v)
  BY <1>1
<1> HIDE DEF backs
<1>4. backing = Backing
  BY <1>2, <1>3 DEF Backing
<1>5. /\ supply = free \cup Tables \cup Backing \cup InHand
      /\ free \cap Tables = {}
      /\ Backing \cap (free \cup Tables) = {}
      /\ InHand \cap (free \cup Tables \cup Backing) = {}
  BY DEF VmmInv, OneUse
<1>6. \A v, w \in DOMAIN backs : backs[v] = backs[w] => v = w
  BY <1>3 DEF VmmInv, OneUse
<1>7. /\ supply = free \cup Tables \cup backing \cup InHand
      /\ free \cap Tables = {}
      /\ backing \cap (free \cup Tables) = {}
      /\ InHand \cap (free \cup Tables \cup backing) = {}
      /\ \A v, w \in DOMAIN backs : backs[v] = backs[w] => v = w
  BY <1>4, <1>5, <1>6
<1> QED BY <1>7 DEF FramesHaveOneUse, backs

THEOREM EveryFrameHasOneUse == Spec => []FramesHaveOneUse
<1> QED BY VmmInvInit, VmmInvStep, OneUseMeansOneUse, PTL DEF Spec

(* The processor never uses a translation that the tables do not hold.     *)
THEOREM TlbIsCoherent == Spec => []TlbCoherent
<1>1. VmmInv => TlbCoherent
  <2> SUFFICES ASSUME VmmInv, NEW t \in tlb PROVE MmGetPhysicalAddress(t.page) = t.phys
    BY DEF TlbCoherent
  <2>1. t.page \in Pages /\ At(t.page) = t.phys
    BY DEF VmmInv, TypeOK, Coherent
  <2> QED BY <2>1, AtIsTranslation
<1> QED BY VmmInvInit, VmmInvStep, <1>1, PTL DEF Spec

-----------------------------------------------------------------------------
(* The address space of module AddressSpace.                               *)
LEMMA SpaceIsAt ==
  /\ Space = [v \in Pages |-> At(v)]
  /\ \A v \in Pages : Space[v] = At(v) /\ Space'[v] = At(v)'
  /\ DOMAIN Space = Pages /\ DOMAIN Space' = Pages
  /\ Space' = [v \in Pages |-> Space'[v]] /\ Space = [v \in Pages |-> Space[v]]
BY AtIsTranslation DEF Space

(* One step maps one page, unmaps one page, or changes no translation.     *)
LEMMA SpaceStep == VmmInv /\ [Next]_vars => [A!Next]_Space
<1> SUFFICES ASSUME VmmInv, [Next]_vars PROVE A!Next \/ Space' = Space
  OBVIOUS
<1>0. /\ \A v \in Pages : Space[v] = At(v) /\ Space'[v] = At(v)'
      /\ Space' = [v \in Pages |-> Space'[v]] /\ Space = [v \in Pages |-> Space[v]]
  BY SpaceIsAt
<1>1. CASE \A v \in Pages : At(v)' = At(v)
  <2>1. \A v \in Pages : Space'[v] = Space[v]
    BY <1>0, <1>1
  <2> QED BY <1>0, <2>1
<1>2. CASE WriteLeaf
  <2>1. PICK v \in Pages, p \in Nat : /\ At(v) = Nowhere /\ At(v)' = p
                                      /\ \A w \in Pages \ {v} : At(w)' = At(w)
    BY <1>2, WriteEffect
  <2>2. Space[v] = Nowhere /\ Space'[v] # Nowhere
    BY <1>0, <2>1, Constants
  <2>3. \A w \in Pages : Space'[w] = [Space EXCEPT ![v] = Space'[v]][w]
    BY <1>0, <2>1
  <2>4. Space' = [Space EXCEPT ![v] = Space'[v]]
    BY <1>0, <2>3
  <2> QED BY <2>2, <2>4 DEF A!Next, A!Map
<1>3. CASE UnmapNext \/ ReleaseNext
  <2>1. PICK v \in Window : At(v)' = Nowhere /\ \A w \in Pages \ {v} : At(w)' = At(w)
    BY <1>3, UnmapStep
  <2>2. v \in Pages
    BY Layout
  <2>3. CASE At(v) = Nowhere
    BY <1>1, <2>1, <2>2, <2>3
  <2>4. CASE At(v) # Nowhere
    <3>1. Space[v] # Nowhere /\ Space'[v] = Nowhere
      BY <1>0, <2>1, <2>2, <2>4
    <3>2. \A w \in Pages : Space'[w] = [Space EXCEPT ![v] = Nowhere][w]
      BY <1>0, <2>1, <2>2
    <3>3. Space' = [Space EXCEPT ![v] = Nowhere]
      BY <1>0, <3>2
    <3> QED BY <2>2, <3>1, <3>3 DEF A!Next, A!Unmap
  <2> QED BY <2>3, <2>4
<1> QED BY <1>1, <1>2, <1>3, TreeStep

(* The page tables implement an address space in which a page is mapped    *)
(* only where nothing was, and no step touches another page.                *)
THEOREM VmmImplementsSpace == Spec => ImplementsSpace
<1>1. Init => A!Init
  <2> SUFFICES ASSUME Init PROVE Space = [v \in Pages |-> Nowhere]
    BY DEF A!Init
  <2>1. \A v \in Pages : At(v) = Nowhere
    BY NothingMapped DEF Init
  <2> QED BY <2>1, SpaceIsAt
<1> QED BY VmmInvInit, VmmInvStep, SpaceStep, <1>1, PTL DEF Spec, ImplementsSpace, A!Spec

-----------------------------------------------------------------------------
(* What the windows hold.  `Doing' is what the running call has mapped so  *)
(* far, or has still to unmap, `Working' its whole range; grants, forgotten*)
(* pages and the call's range share no page.                               *)
Undoing == {"unwind", "release", "rollback", "unmap"}
Doing ==
  IF call.op \in {"alloc", "map"} THEN call.virt .. (call.virt + call.i - 1)
  ELSE IF call.op \in Undoing THEN (call.virt + call.i) .. (call.virt + call.pages - 1)
  ELSE {}
Working ==
  IF call.op \in HeapOps \cup MmioOps THEN call.virt .. (call.virt + call.pages - 1) ELSE {}

Exact == \A v \in Window : At(v) # Nowhere <=> v \in Held \cup Doing
Apart ==
  /\ \A r, s \in live : r # s => PagesOf(r) \cap PagesOf(s) = {}
  /\ \A r \in live : PagesOf(r) \cap (abandoned \cup Working) = {}
  /\ abandoned \cap Working = {}
  /\ \A v \in abandoned : v \in HeapPages /\ v < heapNext
DeviceMapped ==
  /\ \A r \in live : r.kind = "mmio" => \A v \in PagesOf(r) : At(v) = r.phys + (v - r.virt)
  /\ call.op = "map" => \A v \in Doing : At(v) = call.phys + (v - call.virt)

HeldInv == Exact /\ Apart /\ DeviceMapped

(* Grants and the running call lie in their windows.                       *)
LEMMA InWindows ==
  ASSUME VmmInv
  PROVE  /\ \A r \in live : r \in Grant /\ r.virt \in Nat /\ r.pages \in Nat
         /\ \A r \in live : \A v \in PagesOf(r) :
              /\ v \in Window /\ v \in Nat
              /\ r.kind = "heap" => v \in HeapPages /\ v < heapNext
              /\ r.kind = "mmio" => v \in MmioBase .. MmioEnd /\ v < mmioNext
         /\ \A v \in Working :
              /\ v \in Window /\ v \in Nat
              /\ call.op \in HeapOps => v \in HeapPages /\ v < heapNext
              /\ call.op \in MmioOps => v \in MmioBase .. MmioEnd /\ v < mmioNext
         /\ Doing \subseteq Working
<1>1. TypeOK /\ Ranges /\ heapNext \in Nat /\ mmioNext \in Nat /\ live \subseteq Grant
  BY DEF VmmInv, TypeOK
<1>2. call.virt \in Nat /\ call.pages \in Nat /\ call.i \in Nat
  BY <1>1, CallFields DEF TypeOK
<1>3. ASSUME NEW r \in live
      PROVE  r \in Grant /\ r.virt \in Nat /\ r.pages \in Nat /\ r.kind \in {"heap", "mmio"}
  BY <1>1, <1>3 DEF Grant
<1>4. ASSUME NEW r \in live, NEW v \in PagesOf(r)
      PROVE  /\ v \in Window /\ v \in Nat
             /\ r.kind = "heap" => v \in HeapPages /\ v < heapNext
             /\ r.kind = "mmio" => v \in MmioBase .. MmioEnd /\ v < mmioNext
  <2>1. v \in Nat /\ r.virt <= v /\ v < r.virt + r.pages
    BY <1>3 DEF PagesOf
  <2>2. CASE r.kind = "heap"
    <3>1. HeapBase <= v /\ v < heapNext /\ v <= HeapEnd
      BY <1>1, <1>3, <2>1, <2>2, Layout DEF Ranges, InHeap
    <3> QED BY <2>1, <2>2, <3>1, Layout DEF HeapPages
  <2>3. CASE r.kind = "mmio"
    <3>1. MmioBase <= v /\ v < mmioNext /\ v <= MmioEnd
      BY <1>1, <1>3, <2>1, <2>3, Layout DEF Ranges, InMmio
    <3> QED BY <2>1, <2>3, <3>1, Layout
  <2> QED BY <1>3, <2>2, <2>3
<1>5. ASSUME NEW v \in Working
      PROVE  /\ v \in Window /\ v \in Nat
             /\ call.op \in HeapOps => v \in HeapPages /\ v < heapNext
             /\ call.op \in MmioOps => v \in MmioBase .. MmioEnd /\ v < mmioNext
  <2>1. /\ v \in Nat /\ call.virt <= v /\ v < call.virt + call.pages
        /\ call.op \in HeapOps \cup MmioOps
    BY <1>2 DEF Working
  <2>2. CASE call.op \in HeapOps
    <3>1. HeapBase <= v /\ v < heapNext /\ v <= HeapEnd
      BY <1>1, <1>2, <2>1, <2>2, Layout DEF Ranges, InHeap
    <3> QED BY <2>1, <2>2, <3>1, Layout DEF HeapPages, HeapOps, MmioOps
  <2>3. CASE call.op \in MmioOps
    <3>1. MmioBase <= v /\ v < mmioNext /\ v <= MmioEnd
      BY <1>1, <1>2, <2>1, <2>3, Layout DEF Ranges, InMmio
    <3> QED BY <2>1, <2>3, <3>1, Layout DEF HeapOps, MmioOps
  <2> QED BY <2>1, <2>2, <2>3
<1>6. Doing \subseteq Working
  <2>1. CASE call.op \in {"alloc", "map"}
    <3>1. call.i <= call.pages
      BY <1>1, <2>1 DEF Ranges, HeapOps, MmioOps
    <3> QED BY <1>2, <2>1, <3>1 DEF Doing, Working, HeapOps, MmioOps
  <2>2. CASE call.op \in Undoing
    BY <1>2, <2>2 DEF Doing, Working, HeapOps, MmioOps, Undoing
  <2>3. CASE call.op \notin {"alloc", "map"} \cup Undoing
    BY <2>3 DEF Doing
  <2> QED BY <2>1, <2>2, <2>3
<1> QED BY <1>3, <1>4, <1>5, <1>6

(* A step that leaves the windows, the grants and the forgotten pages alone*)
(* and gives the call no page it had not.                                  *)
LEMMA HeldStays ==
  ASSUME VmmInv, VmmInv', HeldInv, \A v \in Window : At(v)' = At(v),
         UNCHANGED <<live, abandoned>>, Doing' = Doing, Working' \cap Held = {},
         call'.op = "map" => \/ Doing = {}
                             \/ call.op = "map" /\ call'.virt = call.virt /\ call'.phys = call.phys,
         heapNext <= heapNext'
  PROVE  HeldInv'
<1>2. Held' = Held
  BY DEF Held, PagesOf
<1>3. Exact'
  <2>1. \A v \in Window : At(v)' # Nowhere <=> v \in Held \cup Doing
    BY DEF HeldInv, Exact
  <2> QED BY <1>2, <2>1 DEF Exact, At
<1>4. Apart'
  <2>1. \A v \in abandoned : v \in HeapPages /\ v < heapNext'
    <3>1. heapNext \in Nat /\ heapNext' \in Nat
      BY DEF VmmInv, TypeOK
    <3>2. \A v \in abandoned : v \in HeapPages /\ v < heapNext /\ v \in Nat
      BY Layout DEF HeldInv, Apart, HeapPages
    <3> QED BY <3>1, <3>2
  <2>2. \A r \in live : PagesOf(r) \subseteq Held
    BY DEF Held
  <2>3. \A r \in live : PagesOf(r) \cap (abandoned \cup Working') = {}
    BY <2>2 DEF HeldInv, Apart
  <2>4. abandoned \cap Working' = {}
    BY DEF Held
  <2>5. \A r, s \in live : r # s => PagesOf(r) \cap PagesOf(s) = {}
    BY DEF HeldInv, Apart
  <2> QED BY <2>1, <2>3, <2>4, <2>5 DEF Apart, PagesOf, HeapPages
<1>5. DeviceMapped'
  <2>1. \A r \in live : r.kind = "mmio" => \A v \in PagesOf(r) : At(v)' = r.phys + (v - r.virt)
    BY InWindows DEF HeldInv, DeviceMapped
  <2>2. call'.op = "map" => \A v \in Doing : At(v)' = call'.phys + (v - call'.virt)
    BY InWindows DEF HeldInv, DeviceMapped
  <2> QED BY <2>1, <2>2 DEF DeviceMapped, PagesOf, At
<1> QED BY <1>3, <1>4, <1>5 DEF HeldInv

(* Such a step that also leaves the call's range alone, or forgets it.     *)
LEMMA RangeStays ==
  ASSUME HeldInv, Working' \subseteq Working
  PROVE  Working' \cap Held = {}
BY DEF HeldInv, Apart, Held

(* The call's range follows from its fields.                               *)
LEMMA SameRange ==
  ASSUME call'.op = call.op, call'.virt = call.virt, call'.pages = call.pages
  PROVE  /\ Working' = Working
         /\ call'.i = call.i => Doing' = Doing
BY DEF Working, Doing, Undoing

LEMMA WriteHeld ==
  ASSUME VmmInv, VmmInv', HeldInv, WriteLeaf
  PROVE  HeldInv'
<1>1. PICK v \in Pages, p \in Nat :
        /\ v = PageNow /\ p = PhysNow /\ At(v) = Nowhere /\ At(v)' = p
        /\ \A w \in Pages \ {v} : At(w)' = At(w)
  BY WriteEffect
<1>2. /\ SameCall /\ call'.i = call.i + 1 /\ call'.op = call.op
      /\ UNCHANGED <<heapNext, mmioNext, live, abandoned>>
  BY NextPageAfter DEF WriteLeaf, SameCall
<1>3. call.op \in Maps \cup {"alloc"} /\ call.i < Count /\ TypeOK /\ Ranges /\ Progress
  <2>1. call.level > 0
    BY DEF WriteLeaf, LeafLevel
  <2> QED BY <2>1 DEF VmmInv, OnWalk
<1>4. /\ call.virt \in Nat /\ call.pages \in Nat /\ call.i \in Nat
      /\ heapNext \in Nat
  BY <1>3, CallFields DEF TypeOK
<1>5. Working' = Working
  BY <1>2, SameRange DEF SameCall
<1>6. Window \subseteq Pages /\ p # Nowhere
  BY Layout, Constants
<1>7. CASE call.op \in {"direct", "section"}
  <2>1. v \notin Window
    <3>1. CASE call.op = "direct"
      <4>1. call.i + 1 \in 1 .. Len(DirectMap) /\ v = DirectMap[call.i + 1].virt
        BY <1>1, <1>3, <3>1, PageNowTyped
      <4>2. \A w \in Window \cup {Image[j].virt : j \in DOMAIN Image} :
              Path[DirectMap[call.i + 1].virt][1] # Path[w][1]
        BY <4>1, LayoutAssumption, Layout
      <4> QED BY <4>1, <4>2
    <3>2. CASE call.op = "section"
      <4>1. call.i + 1 \in 1 .. Len(Image) /\ v = Image[call.i + 1].virt
        BY <1>1, <1>3, <3>2, PageNowTyped
      <4> QED BY <4>1, Layout
    <3> QED BY <1>7, <3>1, <3>2
  <2>2. \A w \in Window : At(w)' = At(w)
    BY <1>1, <1>6, <2>1
  <2>3. Doing' = {} /\ Doing = {}
    BY <1>2, <1>7 DEF Doing, Undoing
  <2>4. Working' \cap Held = {}
    BY <1>5, RangeStays
  <2> QED BY <1>2, <1>4, <1>7, <2>2, <2>3, <2>4, HeldStays
<1>8. CASE call.op \in {"alloc", "map"}
  <2>1. v = call.virt + call.i /\ v \in Window /\ v \in Working /\ v \notin Doing
    <3>1. v = call.virt + call.i /\ v \in Window
      BY <1>1, <1>3, <1>8, PageNowTyped DEF HeapOps, MmioOps
    <3>2. call.i < call.pages
      BY <1>3, <1>8 DEF Count
    <3> QED BY <1>4, <1>8, <3>1, <3>2 DEF Working, Doing, HeapOps, MmioOps
  <2>2. Doing' = Doing \cup {v}
    <3>1. /\ Doing = call.virt .. (call.virt + call.i - 1)
          /\ Doing' = call.virt .. (call.virt + (call.i + 1) - 1)
      BY <1>2, <1>8 DEF Doing, SameCall
    <3> QED BY <1>4, <2>1, <3>1
  <2>3. Held' = Held
    BY <1>2 DEF Held, PagesOf
  <2>4. v \notin Held
    BY <2>1 DEF HeldInv, Apart, Held
  <2>5. Exact'
    <3>1. \A w \in Window : At(w)' # Nowhere <=> w \in Held \cup (Doing \cup {v})
      BY <1>1, <1>6, <2>1 DEF HeldInv, Exact
    <3> QED BY <2>2, <2>3, <3>1 DEF Exact, At
  <2>6. Apart'
    BY <1>2, <1>5 DEF HeldInv, Apart, PagesOf, HeapPages
  <2>7. DeviceMapped'
    <3>1. \A r \in live : r.kind = "mmio" => \A w \in PagesOf(r) : At(w)' = r.phys + (w - r.virt)
      <4> SUFFICES ASSUME NEW r \in live, r.kind = "mmio", NEW w \in PagesOf(r)
                   PROVE  At(w)' = r.phys + (w - r.virt)
        OBVIOUS
      <4>1. w \in Window /\ w # v
        BY <2>4, InWindows DEF Held
      <4>2. At(w) = r.phys + (w - r.virt)
        BY DEF HeldInv, DeviceMapped
      <4> QED BY <1>1, <1>6, <4>1, <4>2
    <3>2. call.op = "map" => \A w \in Doing \cup {v} : At(w)' = call.phys + (w - call.virt)
      <4> SUFFICES ASSUME call.op = "map", NEW w \in Doing \cup {v}
                   PROVE  At(w)' = call.phys + (w - call.virt)
        OBVIOUS
      <4>1. CASE w = v
        <5>1. p = call.phys + call.i /\ call.phys \in Nat
          BY <1>1, <1>3 DEF PhysNow, Progress
        <5>2. w - call.virt = call.i
          BY <1>4, <2>1, <4>1
        <5> QED BY <1>1, <4>1, <5>1, <5>2
      <4>2. CASE w # v
        <5>1. w \in Doing /\ w \in Window
          BY <4>2, InWindows
        <5>2. At(w)' = At(w)
          BY <1>1, <1>6, <4>2, <5>1
        <5> QED BY <5>1, <5>2 DEF HeldInv, DeviceMapped
      <4> QED BY <4>1, <4>2
    <3> QED BY <1>2, <2>2, <3>1, <3>2 DEF DeviceMapped, PagesOf, At, SameCall
  <2> QED BY <2>5, <2>6, <2>7 DEF HeldInv
<1> QED BY <1>3, <1>7, <1>8 DEF Maps

LEMMA UnmapHeld ==
  ASSUME VmmInv, VmmInv', HeldInv, UnmapNext \/ ReleaseNext
  PROVE  HeldInv'
<1>1. PICK v \in Window :
        v = PageNow /\ At(v)' = Nowhere /\ \A w \in Pages \ {v} : At(w)' = At(w)
  BY UnmapStep
<1>2. /\ SameCall /\ call'.i = call.i + 1 /\ call'.op = call.op
      /\ UNCHANGED <<heapNext, mmioNext, live, abandoned>>
      /\ call.op \in Undoing /\ call.i < call.pages
  BY NextPageAfter DEF UnmapNext, ReleaseNext, SameCall, Undoing
<1>3. call.virt \in Nat /\ call.pages \in Nat /\ call.i \in Nat
  BY CallFields DEF VmmInv, TypeOK
<1>4. v = call.virt + call.i /\ v \in Doing
  <2>1. v = call.virt + call.i
    BY <1>1, <1>2 DEF PageNow, Undoing
  <2> QED BY <1>2, <1>3, <2>1 DEF Doing, Undoing
<1>5. Doing' = Doing \ {v}
  <2>1. /\ Doing = (call.virt + call.i) .. (call.virt + call.pages - 1)
        /\ Doing' = (call.virt + (call.i + 1)) .. (call.virt + call.pages - 1)
    BY <1>2 DEF Doing, SameCall, Undoing
  <2> QED BY <1>3, <1>4, <2>1
<1>6. Working' = Working /\ Held' = Held /\ Window \subseteq Pages
  BY <1>2, SameRange, Layout DEF SameCall, Held, PagesOf
<1>7. v \notin Held
  BY <1>4, InWindows DEF HeldInv, Apart, Held
<1>8. Exact'
  <2>1. \A w \in Window : At(w)' # Nowhere <=> w \in Held \cup (Doing \ {v})
    BY <1>1, <1>6, <1>7 DEF HeldInv, Exact
  <2> QED BY <1>5, <1>6, <2>1 DEF Exact, At
<1>9. Apart'
  BY <1>2, <1>6 DEF HeldInv, Apart, PagesOf, HeapPages
<1>10. DeviceMapped'
  <2>1. \A r \in live : r.kind = "mmio" => \A w \in PagesOf(r) : At(w)' = r.phys + (w - r.virt)
    <3> SUFFICES ASSUME NEW r \in live, r.kind = "mmio", NEW w \in PagesOf(r)
                 PROVE  At(w)' = r.phys + (w - r.virt)
      OBVIOUS
    <3>1. w \in Window /\ w # v
      BY <1>7, InWindows DEF Held
    <3>2. At(w) = r.phys + (w - r.virt)
      BY DEF HeldInv, DeviceMapped
    <3> QED BY <1>1, <1>6, <3>1, <3>2
  <2>2. call'.op # "map"
    BY <1>2 DEF Undoing
  <2> QED BY <1>2, <2>1, <2>2 DEF DeviceMapped, PagesOf, At
<1> QED BY <1>8, <1>9, <1>10 DEF HeldInv

(* A window's cursor lies beyond all that is held.                         *)
LEMMA BeginHeld ==
  ASSUME VmmInv, VmmInv', HeldInv,
         \/ \E pages \in 1 .. MaxRequest : MmAllocateVirtual(pages)
         \/ \E phys \in Devices : \E pages \in 0 .. MaxRequest : MmMapIoSpace(phys, pages)
  PROVE  HeldInv'
<1>1. /\ heapNext \in Nat /\ mmioNext \in Nat /\ MaxRequest \in Nat
  BY VmmAssumption DEF VmmInv, TypeOK
<1>2. /\ call = Idle /\ UNCHANGED <<table, root, depth, live, abandoned>>
      /\ \/ /\ Begins("alloc", heapNext, call'.pages) /\ heapNext <= heapNext'
         \/ /\ Begins("map", mmioNext, call'.pages) /\ heapNext' = heapNext
  <2>1. CASE \E pages \in 1 .. MaxRequest : MmAllocateVirtual(pages)
    <3>1. PICK pages \in 1 .. MaxRequest : MmAllocateVirtual(pages)
      BY <2>1
    <3>2. Begins("alloc", heapNext, pages) /\ pages \in Nat
      BY <1>1, <3>1, BeginAfter
    <3>3. heapNext <= heapNext'
      BY <1>1, <3>1, <3>2, CursorAfter DEF MmAllocateVirtual
    <3> QED BY <3>1, <3>2, <3>3 DEF MmAllocateVirtual, Begins
  <2>2. CASE \E phys \in Devices : \E pages \in 0 .. MaxRequest : MmMapIoSpace(phys, pages)
    <3>1. PICK phys \in Devices : \E pages \in 0 .. MaxRequest : MmMapIoSpace(phys, pages)
      BY <2>2
    <3>2. PICK pages \in 0 .. MaxRequest : MmMapIoSpace(phys, pages)
      BY <3>1
    <3>3. Begins("map", mmioNext, pages)
      BY <3>2, BeginAfter
    <3> QED BY <3>2, <3>3 DEF MmMapIoSpace, Begins
  <2> QED BY <2>1, <2>2
<1>3. call'.virt \in Nat /\ call'.pages \in Nat /\ call'.i = 0 /\ call'.op \in {"alloc", "map"}
  <2>1. call' \in Call
    BY <1>2 DEF Begins
  <2> QED BY <1>2, <2>1, CallFields DEF Begins
<1>4. Doing = {} /\ Doing' = {}
  <2>1. call.op = "idle"
    BY <1>2 DEF Idle, Start
  <2>2. Doing' = call'.virt .. (call'.virt + 0 - 1)
    BY <1>3 DEF Doing
  <2> QED BY <1>3, <2>1, <2>2 DEF Doing, Undoing
<1>5. Working' \cap Held = {}
  <2> SUFFICES ASSUME NEW v \in Working', v \in Held PROVE FALSE
    OBVIOUS
  <2>1. v \in Nat /\ call'.virt <= v
    BY <1>3 DEF Working
  <2>2. /\ v \in Window
        /\ call'.op = "alloc" => v \in HeapPages
        /\ call'.op = "map" => v \in MmioBase .. MmioEnd
    <3>1. /\ heapNext' \in Nat /\ mmioNext' \in Nat
          /\ call'.op \in HeapOps => /\ HeapBase <= call'.virt
                                     /\ call'.virt + call'.pages <= HeapEnd
          /\ call'.op \in MmioOps => /\ MmioBase <= call'.virt
                                     /\ call'.virt + call'.pages <= MmioEnd
      BY DEF VmmInv, TypeOK, Ranges, InHeap, InMmio
    <3>2. v < call'.virt + call'.pages
      BY <1>3 DEF Working
    <3>3. CASE call'.op = "alloc"
      <4>1. HeapBase <= v /\ v <= HeapEnd
        BY <1>3, <2>1, <3>1, <3>2, <3>3, Layout DEF HeapOps
      <4> QED BY <2>1, <3>3, <4>1, Layout DEF HeapPages
    <3>4. CASE call'.op = "map"
      <4>1. MmioBase <= v /\ v <= MmioEnd
        BY <1>3, <2>1, <3>1, <3>2, <3>4, Layout DEF MmioOps
      <4> QED BY <2>1, <3>4, <4>1, Layout
    <3> QED BY <1>3, <3>3, <3>4
  <2>3. \/ v \in HeapPages /\ v < heapNext
        \/ v \in MmioBase .. MmioEnd /\ v < mmioNext
    <3>1. CASE v \in abandoned
      BY <3>1 DEF HeldInv, Apart
    <3>2. CASE \E r \in live : v \in PagesOf(r)
      <4>1. PICK r \in live : v \in PagesOf(r)
        BY <3>2
      <4>2. r.kind \in {"heap", "mmio"}
        BY InWindows DEF Grant
      <4> QED BY <4>1, <4>2, InWindows
    <3> QED BY <3>1, <3>2 DEF Held
  <2>4. HeapPages \cap (MmioBase .. MmioEnd) = {}
    BY Layout
  <2> QED BY <1>1, <1>2, <1>3, <2>1, <2>2, <2>3, <2>4 DEF Begins
<1>6. \A v \in Window : At(v)' = At(v)
  BY <1>2, QuietEffect, Layout
<1> QED BY <1>1, <1>2, <1>4, <1>5, <1>6, HeldStays

(* A call that gives a range back still has the whole of it to unmap.      *)
LEMMA GiveBackHeld ==
  ASSUME VmmInv, VmmInv', HeldInv, NEW r \in live, MmFreeVirtual(r) \/ MmUnmapIoSpace(r)
  PROVE  HeldInv'
<1>1. /\ call = Idle /\ live' = live \ {r} /\ r.virt \in Nat /\ r.pages \in Nat
      /\ UNCHANGED <<table, root, depth, heapNext, abandoned>>
      /\ Begins("release", r.virt, r.pages) \/ Begins("unmap", r.virt, r.pages)
  BY BeginAfter DEF MmFreeVirtual, MmUnmapIoSpace
<1>2. Doing = {} /\ Working = {}
  <2>1. call.op = "idle"
    BY <1>1 DEF Idle, Start
  <2> QED BY <2>1 DEF Doing, Working, Undoing, HeapOps, MmioOps
<1>3. Doing' = PagesOf(r) /\ Working' = PagesOf(r)
  <2>1. call'.op \in {"release", "unmap"} /\ call'.virt = r.virt /\ call'.pages = r.pages /\ call'.i = 0
    BY <1>1 DEF Begins
  <2>2. Doing' = (r.virt + 0) .. (r.virt + r.pages - 1)
    BY <2>1 DEF Doing, Undoing
  <2>3. Working' = r.virt .. (r.virt + r.pages - 1)
    BY <2>1 DEF Working, HeapOps, MmioOps
  <2> QED BY <1>1, <2>2, <2>3 DEF PagesOf
<1>4. Held' = abandoned \cup UNION {PagesOf(s) : s \in live \ {r}}
  BY <1>1 DEF Held, PagesOf
<1>5. Held' \cup PagesOf(r) = Held
  BY <1>4 DEF Held
<1>6. \A v \in Window : At(v)' = At(v)
  BY <1>1, QuietEffect, Layout
<1>7. Exact'
  <2>1. \A v \in Window : At(v)' # Nowhere <=> v \in Held' \cup PagesOf(r)
    BY <1>2, <1>5, <1>6 DEF HeldInv, Exact
  <2> QED BY <1>3, <2>1 DEF Exact, At
<1>8. Apart'
  <2>1. \A s \in live \ {r} : PagesOf(s) \cap (abandoned \cup PagesOf(r)) = {}
    BY DEF HeldInv, Apart
  <2>2. abandoned \cap PagesOf(r) = {}
    BY DEF HeldInv, Apart
  <2>3. \A s, t \in live \ {r} : s # t => PagesOf(s) \cap PagesOf(t) = {}
    BY DEF HeldInv, Apart
  <2>4. \A v \in abandoned : v \in HeapPages /\ v < heapNext
    BY DEF HeldInv, Apart
  <2> QED BY <1>1, <1>3, <2>1, <2>2, <2>3, <2>4 DEF Apart, PagesOf, HeapPages
<1>9. DeviceMapped'
  <2>1. \A s \in live : s.kind = "mmio" => \A v \in PagesOf(s) : At(v)' = s.phys + (v - s.virt)
    BY <1>6, InWindows DEF HeldInv, DeviceMapped
  <2>2. call'.op # "map"
    BY <1>1 DEF Begins
  <2> QED BY <1>1, <2>1, <2>2 DEF DeviceMapped, PagesOf, At
<1> QED BY <1>7, <1>8, <1>9 DEF HeldInv

(* A call that returns a range has mapped the whole of it.                 *)
LEMMA ReturnHeld ==
  ASSUME VmmInv, VmmInv', HeldInv, AllocateReturns \/ (EndMapLoop /\ call.op = "map")
  PROVE  HeldInv'
<1> DEFINE g == IF call.op = "map"
                THEN [kind |-> "mmio", virt |-> call.virt, phys |-> call.phys, pages |-> call.pages]
                ELSE [kind |-> "heap", virt |-> call.virt, phys |-> Nowhere, pages |-> call.pages]
<1>1. /\ call.op \in {"alloc", "map"} /\ call.i = call.pages /\ live' = live \cup {g}
      /\ UNCHANGED <<table, root, depth, heapNext, abandoned>> /\ call'.op = "idle"
  BY EndMapAfter, BeginAfter DEF AllocateReturns, EndMapLoop, Begins, Count
<1>2. call.virt \in Nat /\ call.pages \in Nat
  BY CallFields DEF VmmInv, TypeOK
<1>3. Doing' = {} /\ Working' = {}
  BY <1>1 DEF Doing, Working, Undoing, HeapOps, MmioOps
<1>4. /\ g.virt = call.virt /\ g.pages = call.pages
      /\ g.kind = "mmio" => call.op = "map" /\ g.phys = call.phys
  OBVIOUS
<1> HIDE DEF g
<1>5. PagesOf(g) = Doing /\ PagesOf(g) = Working
  <2>1. PagesOf(g) = call.virt .. (call.virt + call.pages - 1)
    BY <1>4 DEF PagesOf
  <2> QED BY <1>1, <2>1 DEF Doing, Working, HeapOps, MmioOps
<1>6. Held' = Held \cup PagesOf(g)
  <2>1. Held' = abandoned \cup UNION {PagesOf(s) : s \in live \cup {g}}
    BY <1>1 DEF Held, PagesOf
  <2> QED BY <2>1 DEF Held
<1>7. \A v \in Window : At(v)' = At(v)
  BY <1>1, QuietEffect, Layout
<1>8. Exact'
  <2>1. \A v \in Window : At(v)' # Nowhere <=> v \in Held' \cup {}
    BY <1>5, <1>6, <1>7 DEF HeldInv, Exact
  <2> QED BY <1>3, <2>1 DEF Exact, At
<1>9. Apart'
  <2>1. \A s \in live \cup {g} : PagesOf(s) \cap abandoned = {}
    BY <1>5 DEF HeldInv, Apart
  <2>2. \A s, t \in live \cup {g} : s # t => PagesOf(s) \cap PagesOf(t) = {}
    BY <1>5 DEF HeldInv, Apart
  <2>3. \A v \in abandoned : v \in HeapPages /\ v < heapNext
    BY DEF HeldInv, Apart
  <2> QED BY <1>1, <1>3, <2>1, <2>2, <2>3 DEF Apart, PagesOf, HeapPages
<1>10. DeviceMapped'
  <2>1. \A s \in live : s.kind = "mmio" => \A v \in PagesOf(s) : At(v)' = s.phys + (v - s.virt)
    BY <1>7, InWindows DEF HeldInv, DeviceMapped
  <2>2. g.kind = "mmio" => \A v \in PagesOf(g) : At(v)' = g.phys + (v - g.virt)
    BY <1>4, <1>5, <1>7, InWindows DEF HeldInv, DeviceMapped
  <2>3. \A s \in live \cup {g} : s.kind = "mmio" => \A v \in PagesOf(s) : At(v)' = s.phys + (v - s.virt)
    BY <2>1, <2>2
  <2> QED BY <1>1, <2>3 DEF DeviceMapped, PagesOf, At
<1> QED BY <1>8, <1>9, <1>10 DEF HeldInv

(* The pages MmAllocateVirtual had mapped when a table was lacking are     *)
(* forgotten, not unmapped.                                                *)
LEMMA ForgetHeld ==
  ASSUME VmmInv, VmmInv', HeldInv, MapPageFails, call.op = "alloc"
  PROVE  HeldInv'
<1>1. /\ abandoned' = abandoned \cup Doing /\ call'.op = "idle"
      /\ UNCHANGED <<table, root, depth, heapNext, live>>
  BY FailsAfter DEF MapPageFails, Doing
<1>2. Doing' = {} /\ Working' = {}
  BY <1>1 DEF Doing, Working, Undoing, HeapOps, MmioOps
<1>3. Held' = Held \cup Doing
  BY <1>1 DEF Held, PagesOf
<1>4. \A v \in Window : At(v)' = At(v)
  BY <1>1, QuietEffect, Layout
<1>5. Exact'
  <2>1. \A v \in Window : At(v)' # Nowhere <=> v \in Held' \cup {}
    BY <1>3, <1>4 DEF HeldInv, Exact
  <2> QED BY <1>2, <2>1 DEF Exact, At
<1>6. Apart'
  <2>1. \A r \in live : PagesOf(r) \cap (abandoned \cup Doing) = {}
    BY InWindows DEF HeldInv, Apart
  <2>2. \A v \in abandoned \cup Doing : v \in HeapPages /\ v < heapNext
    BY InWindows DEF HeldInv, Apart, HeapOps
  <2>3. \A r, s \in live : r # s => PagesOf(r) \cap PagesOf(s) = {}
    BY DEF HeldInv, Apart
  <2> QED BY <1>1, <1>2, <2>1, <2>2, <2>3 DEF Apart, PagesOf, HeapPages
<1>7. DeviceMapped'
  <2>1. \A r \in live : r.kind = "mmio" => \A v \in PagesOf(r) : At(v)' = r.phys + (v - r.virt)
    BY <1>4, InWindows DEF HeldInv, DeviceMapped
  <2> QED BY <1>1, <2>1 DEF DeviceMapped, PagesOf, At
<1> QED BY <1>5, <1>6, <1>7 DEF HeldInv

(* The remaining steps leave what is held, and what the call is doing,     *)
(* alone.                                                                  *)
LEMMA QuietHeld ==
  ASSUME VmmInv, VmmInv', HeldInv,
         \/ UNCHANGED vars \/ Evict \/ (\E v \in Pages : Cache(v))
         \/ MmInitPaging \/ BeginMapPage \/ Follow \/ CreateTable \/ AllocateFrame \/ AllocateFails
         \/ (MapPageFails /\ call.op # "alloc") \/ (EndMapLoop /\ call.op # "map") \/ EndUnmapLoop
  PROVE  HeldInv'
<1>1. /\ \A v \in Window : At(v)' = At(v)
      /\ UNCHANGED <<live, abandoned, heapNext>>
  <2>1. CASE MmInitPaging
    BY <2>1, InitEffect, Layout DEF MmInitPaging
  <2>2. CASE CreateTable
    BY <2>2, CreateEffect, Layout DEF CreateTable
  <2>3. CASE ~MmInitPaging /\ ~CreateTable
    <3>1. UNCHANGED <<table, root, depth, live, abandoned, heapNext>>
      BY <2>3 DEF vars, Evict, Cache, BeginMapPage, Follow, AllocateFrame, AllocateFails,
                  MapPageFails, EndMapLoop, EndUnmapLoop
    <3> QED BY <3>1, QuietEffect, Layout
  <2> QED BY <2>1, <2>2, <2>3
<1>2. heapNext <= heapNext'
  BY <1>1 DEF VmmInv, TypeOK
<1>3. ASSUME Doing' = Doing, Working' \subseteq Working,
             call'.op = "map" => call.op = "map" /\ call'.virt = call.virt /\ call'.phys = call.phys
      PROVE  HeldInv'
  BY <1>1, <1>2, <1>3, RangeStays, HeldStays
<1>4. /\ call.virt \in Nat /\ call.pages \in Nat /\ call.i \in Nat
      /\ call.op \in HeapOps \cup MmioOps => call.i <= call.pages
  BY CallFields DEF VmmInv, TypeOK, Ranges
<1>5. CASE UNCHANGED vars \/ Evict \/ \E v \in Pages : Cache(v)
  <2>1. call' = call
    BY <1>5 DEF vars, Evict, Cache
  <2> QED BY <1>3, <2>1 DEF Doing, Working
<1>6. CASE BeginMapPage \/ Follow \/ CreateTable
  <2>1. SameCall /\ call'.i = call.i
    BY <1>6, BeginMapAfter, FollowAfter, CreateAfter
  <2> QED BY <1>3, <2>1, SameRange DEF SameCall
<1>7. CASE AllocateFrame
  <2>1. /\ call'.op = "alloc" /\ call.op = "alloc" /\ call'.virt = call.virt
        /\ call'.pages = call.pages /\ call'.i = call.i
    BY <1>7, FrameAfter
  <2> QED BY <1>3, <2>1, SameRange
<1>8. CASE AllocateFails \/ (MapPageFails /\ call.op = "map")
  <2>1. /\ call.op \in {"alloc", "map"} /\ call'.op \in {"unwind", "rollback"}
        /\ call'.virt = call.virt /\ call'.pages = call.i /\ call'.i = 0
    BY <1>8, BeginAfter, FailsAfter DEF AllocateFails, Begins
  <2>2. Doing' = (call.virt + 0) .. (call.virt + call.i - 1)
    BY <2>1 DEF Doing, Undoing
  <2>3. Doing = call.virt .. (call.virt + call.i - 1)
    BY <2>1 DEF Doing
  <2>4. Working' = Doing
    BY <2>1, <2>3 DEF Working, HeapOps, MmioOps
  <2> QED BY <1>3, <1>4, <2>1, <2>2, <2>3, <2>4, InWindows
<1>9. CASE EndUnmapLoop
  <2>1. /\ call.op \in Undoing /\ call.i = call.pages /\ call'.op = "idle"
    BY <1>9, BeginAfter DEF EndUnmapLoop, Begins, Undoing
  <2>2. Doing = (call.virt + call.pages) .. (call.virt + call.pages - 1)
    BY <2>1 DEF Doing, Undoing
  <2>3. Doing = {}
    BY <1>4, <2>2
  <2>4. Doing' = {} /\ Working' = {}
    BY <2>1 DEF Doing, Working, Undoing, HeapOps, MmioOps
  <2> QED BY <1>3, <2>1, <2>3, <2>4
<1>10. CASE MmInitPaging \/ (EndMapLoop /\ call.op # "map")
            \/ (MapPageFails /\ call.op \in {"direct", "section"})
  <2>1. call.op \in {"boot", "direct", "section"} /\ call'.op \in {"direct", "section", "failed", "idle"}
    BY <1>10, BeginAfter, EndMapAfter, FailsAfter DEF MmInitPaging, EndMapLoop, Begins, Maps
  <2>2. Doing = {} /\ Doing' = {} /\ Working' = {}
    BY <2>1 DEF Doing, Working, Undoing, HeapOps, MmioOps
  <2> QED BY <1>3, <2>1, <2>2
<1>11. MapPageFails => call.op \in {"direct", "section", "map", "alloc"}
  BY FailsAfter DEF Maps
<1> QED BY <1>5, <1>6, <1>7, <1>8, <1>9, <1>10, <1>11

LEMMA HeldInvInit == Init => HeldInv
<1> SUFFICES ASSUME Init PROVE HeldInv
  OBVIOUS
<1>1. live = {} /\ abandoned = {} /\ call.op = "boot" /\ root = Nowhere
  BY DEF Init, Start
<1>2. Doing = {} /\ Working = {} /\ Held = {}
  BY <1>1 DEF Doing, Working, Held, Undoing, HeapOps, MmioOps
<1>3. \A v \in Window : At(v) = Nowhere
  BY <1>1, NothingMapped
<1> QED BY <1>1, <1>2, <1>3 DEF HeldInv, Exact, Apart, DeviceMapped

LEMMA HeldInvStep == VmmInv /\ VmmInv' /\ HeldInv /\ [Next]_vars => HeldInv'
<1> SUFFICES ASSUME VmmInv, VmmInv', HeldInv, [Next]_vars PROVE HeldInv'
  OBVIOUS
<1> QED BY WriteHeld, UnmapHeld, BeginHeld, GiveBackHeld, ReturnHeld, ForgetHeld, QuietHeld DEF Next

(* Between calls the windows map what callers hold, each device page to    *)
(* its device, and nothing but that and what a failed MmAllocateVirtual    *)
(* forgot, however calls succeed and fail.                                 *)
THEOREM WindowsHoldWhatIsHeld == Spec => []MappedExactlyHeld
<1>1. VmmInv /\ HeldInv => MappedExactlyHeld
  <2> SUFFICES ASSUME VmmInv, HeldInv, call = Idle
               PROVE  /\ \A v \in Window : Mapped(v) <=> v \in Held
                      /\ \A r \in live : r.kind = "mmio" =>
                           \A v \in PagesOf(r) : MmGetPhysicalAddress(v) = r.phys + (v - r.virt)
    BY DEF MappedExactlyHeld
  <2>1. Doing = {}
    <3>1. call.op = "idle"
      BY DEF Idle, Start
    <3> QED BY <3>1 DEF Doing, Undoing
  <2>2. \A v \in Window : MmGetPhysicalAddress(v) = At(v)
    BY AtIsTranslation, Layout
  <2>3. \A v \in Window : Mapped(v) <=> v \in Held
    BY <2>1, <2>2 DEF Mapped, HeldInv, Exact
  <2>4. ASSUME NEW r \in live, r.kind = "mmio", NEW v \in PagesOf(r)
        PROVE  MmGetPhysicalAddress(v) = r.phys + (v - r.virt)
    BY <2>2, <2>4, InWindows DEF HeldInv, DeviceMapped
  <2> QED BY <2>3, <2>4
<1> QED BY VmmInvInit, VmmInvStep, HeldInvInit, HeldInvStep, <1>1, PTL DEF Spec
=============================================================================

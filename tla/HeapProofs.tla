---------------------------- MODULE HeapProofs ----------------------------
(***************************************************************************)
(* What the pool allocator keeps for every window of addresses, page and   *)
(* block size, and order of calls, up to the first link it follows to a    *)
(* place where no block stands and the first request that wraps the cursor *)
(* of the window.                                                          *)
(*                                                                         *)
(* The first part is about memory as data: blocks that lie one behind the  *)
(* other inside chunks, linked in ascending order, and what cutting a      *)
(* block, joining two and appending a chunk do to them.  The second part   *)
(* is the inductive invariant of the calls, and the theorems.              *)
(***************************************************************************)
EXTENDS Heap, WellFoundedInduction, TLAPS

Memory == [Address -> Header]

(* Where block b ends; b lies in a chunk; chunks lie below the cursor, a   *)
(* guard page behind each.                                                 *)
End(m, b) == b + Hdr + m[b].size
Inside(m, cs, b) == \E c \in cs : c.base <= b /\ End(m, b) <= c.base + c.bytes
Chunk == [base : Nat, bytes : Nat]
Chunked(cs, limit) ==
  /\ cs \subseteq Chunk
  /\ \A c \in cs : c.base >= HeapBase /\ c.bytes > 0 /\ c.base + c.bytes + PageSize <= limit
  /\ \A c, d \in cs : c = d \/ c.base + c.bytes < d.base \/ d.base + d.bytes < c.base

(* Blocks are in chunks and do not overlap.                                *)
Laid(m, bs, cs) ==
  /\ \A b \in bs : m[b].magic /\ Inside(m, cs, b)
  /\ \A b, c \in bs : b < c => End(m, b) <= c

(* Next leads to a block further up, whose Prev leads back.  The converse  *)
(* does not hold: Prev may name what has been absorbed, and a block that   *)
(* HeapExpand unlinked keeps its Prev.                                     *)
Chained(m, bs) ==
  \A b \in bs : m[b].next # Null =>
    m[b].next \in bs /\ b < m[b].next /\ m[m[b].next].prev = b
Headed(m, bs, h) == h # Null => h \in bs /\ m[h].prev = Null

Coal(m, b) == m[b].free /\ m[b].next # Null /\ m[m[b].next].free => ~Touches(m, b, m[b].next)

Shape(m, bs, cs, h) ==
  /\ m \in Memory /\ bs \subseteq Address
  /\ Laid(m, bs, cs) /\ Chained(m, bs) /\ Headed(m, bs, h)

(* An allocation is a block in use, of its own, large enough.              *)
Grant == [block : Nat, bytes : Nat \ {0}]
Held(m, bs, lv) ==
  /\ lv \subseteq Grant
  /\ \A a \in lv : a.block \in bs /\ ~m[a.block].free /\ m[a.block].size >= a.bytes
  /\ \A a, c \in lv : a.block = c.block => a = c

(* A pointer freed before is refused, and is nobody's.                     *)
Spent(m, lv, st) ==
  \A p \in st : (~m[p].magic \/ m[p].free) /\ \A a \in lv : p \notin Footprint(a)

-----------------------------------------------------------------------------
LEMMA Consts ==
  /\ HeapBase \in Nat /\ HeapBase > 0 /\ HeapEnd \in Nat /\ MinSplit \in Nat
  /\ PageSize \in Nat /\ PageSize > 0 /\ Null = 0 /\ Hdr = 1
  /\ Word \in Nat /\ Backing \in Nat /\ HeapEnd + Backing + PageSize < Word
  /\ \A a \in Address : a \in Nat /\ a > 0 /\ a < HeapEnd
  /\ \A a : a \in Address <=> a \in Int /\ HeapBase <= a /\ a < HeapEnd
BY HeapAssumption DEF Null, Hdr, Address

LEMMA Fields ==
  ASSUME NEW m \in Memory, NEW a \in Address
  PROVE  /\ m[a] \in Header /\ m[a].magic \in BOOLEAN /\ m[a].free \in BOOLEAN
         /\ m[a].size \in Nat /\ m[a].size <= HeapEnd
         /\ m[a].next \in Link /\ m[a].prev \in Link
BY Consts DEF Memory, Header

LEMMA ChunkInWindow ==
  ASSUME NEW cs, NEW limit \in Nat, Chunked(cs, limit), limit <= HeapEnd,
         NEW c \in cs, NEW x \in Int, c.base <= x, x < c.base + c.bytes
  PROVE  x \in Address /\ x < limit
<1>1. c.base \in Nat /\ c.bytes \in Nat /\ c.base >= HeapBase /\ c.base + c.bytes + PageSize <= limit
  BY DEF Chunked, Chunk
<1> QED BY <1>1, Consts

LEMMA HeaderMade ==
  ASSUME NEW g \in BOOLEAN, NEW s \in Nat, s <= HeapEnd, NEW f \in BOOLEAN,
         NEW n \in Link, NEW p \in Link
  PROVE  [magic |-> g, size |-> s, free |-> f, next |-> n, prev |-> p] \in Header
BY Consts DEF Header

(* What ExFreePool tests before it frees.                                  *)
FlagsKept(m, w, p) == w[p].magic = m[p].magic /\ w[p].free = m[p].free

(* The headers after block b has been cut at r, and after block a has      *)
(* taken over its successor b.                                             *)
CutAt(m, w, b, bytes, r) ==
  /\ w \in Memory
  /\ \A x \in Address : x # b /\ x # r /\ x # m[b].next => w[x] = m[x]
  /\ w[b] = [m[b] EXCEPT !.next = r, !.size = bytes]
  /\ w[r] = [magic |-> TRUE, size |-> m[b].size - bytes - Hdr, free |-> TRUE,
             next |-> m[b].next, prev |-> b]
  /\ m[b].next # Null => w[m[b].next] = [m[m[b].next] EXCEPT !.prev = r]
Joined(m, w, a, b) ==
  /\ w \in Memory
  /\ \A x \in Address : x # a /\ x # m[b].next => w[x] = m[x]
  /\ w[a] = [m[a] EXCEPT !.size = m[a].size + Hdr + m[b].size, !.next = m[b].next]
  /\ m[b].next # Null => w[m[b].next] = [m[m[b].next] EXCEPT !.prev = a]

LEMMA SplitFields ==
  ASSUME NEW m \in Memory, NEW b \in Address, NEW bytes \in Nat, Splits(m, b, bytes),
         b + Hdr + bytes \in Address, m[b].next # b, m[b].next # b + Hdr + bytes
  PROVE  CutAt(m, Split(m, b, bytes), b, bytes, b + Hdr + bytes)
<1> DEFINE r == b + Hdr + bytes
           n == m[b].next
           block == [magic |-> TRUE, size |-> m[b].size - bytes - Hdr, free |-> TRUE,
                     next |-> n, prev |-> b]
           cut == [m EXCEPT ![r] = block, ![b].next = r, ![b].size = bytes]
           w == Split(m, b, bytes)
<1>1. /\ m[b] \in Header /\ m[b].size \in Nat /\ m[b].size <= HeapEnd /\ n \in Link
      /\ b \in Nat /\ r \in Nat /\ r # b /\ r \in Address /\ n # b /\ n # r
  BY Fields, Consts
<1>2. /\ m[b].size >= bytes + Hdr
      /\ m[b].size - bytes - Hdr \in Nat /\ m[b].size - bytes - Hdr <= HeapEnd /\ bytes <= HeapEnd
  BY <1>1, Consts DEF Splits
<1>3. block \in Header
  BY <1>1, <1>2, HeaderMade DEF Link
<1>4. [m[b] EXCEPT !.next = r, !.size = bytes] \in Header
  <2>1. bytes \in 0 .. HeapEnd /\ r \in Link
    BY <1>1, <1>2, Consts DEF Link
  <2> HIDE DEF r
  <2> QED BY <1>1, <2>1 DEF Header
<1>5. /\ cut \in Memory /\ cut[r] = block /\ cut[b] = [m[b] EXCEPT !.next = r, !.size = bytes]
      /\ \A x \in Address : x # b /\ x # r => cut[x] = m[x]
  <2>1. cut = [x \in Address |-> IF x = b THEN [m[b] EXCEPT !.next = r, !.size = bytes]
                                 ELSE IF x = r THEN block ELSE m[x]]
    BY <1>1 DEF Memory
  <2> HIDE DEF cut, block
  <2> QED BY <2>1, <1>1, <1>3, <1>4 DEF Memory
<1>6. w = IF n # Null THEN [cut EXCEPT ![n].prev = r] ELSE cut
  BY DEF Split
<1>7. CASE n = Null
  <2> HIDE DEF cut, block, w, r, n
  <2> QED BY <1>1, <1>5, <1>6, <1>7 DEF CutAt, r, n, w, block
<1>8. CASE n # Null
  <2>1. n \in Address /\ m[n] \in Header /\ cut[n] = m[n]
    BY <1>1, <1>5, <1>8, Fields DEF Link
  <2>2. [m[n] EXCEPT !.prev = r] \in Header
    BY <2>1, <1>1 DEF Header, Link
  <2>3. w = [cut EXCEPT ![n] = [m[n] EXCEPT !.prev = r]]
    <3> HIDE DEF cut, block
    <3> QED BY <1>6, <1>8, <2>1, <1>5 DEF Memory
  <2> HIDE DEF cut, block, w, r, n
  <2>4. w \in Memory /\ w[n] = [m[n] EXCEPT !.prev = r] /\ \A x \in Address : x # n => w[x] = cut[x]
    BY <2>1, <2>2, <2>3, <1>5 DEF Memory
  <2>5. w[b] = cut[b] /\ w[r] = cut[r]
    BY <2>4, <1>1
  <2> QED BY <1>1, <1>5, <2>4, <2>5 DEF CutAt, r, n, w, block
<1> QED BY <1>7, <1>8

(* A block that takes over its successor.                                  *)
LEMMA AbsorbFields ==
  ASSUME NEW m \in Memory, NEW a \in Address, NEW b \in Address, a # b,
         m[b].next # a, m[a].size + Hdr + m[b].size <= HeapEnd
  PROVE  Joined(m, Absorb(m, a, b), a, b)
<1> DEFINE n == m[b].next
           big == [m[a] EXCEPT !.size = m[a].size + Hdr + m[b].size, !.next = n]
           joined == [m EXCEPT ![a].size = @ + Hdr + m[b].size, ![a].next = m[b].next]
           w == Absorb(m, a, b)
<1>1. /\ m[a] \in Header /\ m[b] \in Header /\ n \in Link /\ n # a
      /\ m[a].size + Hdr + m[b].size \in Nat
  BY Fields, Consts
<1>2. big \in Header
  <2>1. m[a].size + Hdr + m[b].size \in 0 .. HeapEnd
    BY <1>1, Consts
  <2> QED BY <1>1, <2>1 DEF Header
<1>3. joined = [m EXCEPT ![a] = big]
  BY <1>1 DEF Memory
<1>4. joined \in Memory /\ joined[a] = big /\ \A x \in Address : x # a => joined[x] = m[x]
  <2> HIDE DEF joined, big
  <2> QED BY <1>2, <1>3 DEF Memory
<1>5. w = IF n # Null THEN [joined EXCEPT ![n].prev = a] ELSE joined
  BY DEF Absorb
<1>6. CASE n = Null
  <2> HIDE DEF joined, w, n, big
  <2> QED BY <1>1, <1>4, <1>5, <1>6 DEF Joined, n, w, big
<1>7. CASE n # Null
  <2>1. n \in Address /\ m[n] \in Header /\ joined[n] = m[n]
    BY <1>1, <1>4, <1>7, Fields DEF Link
  <2>2. [m[n] EXCEPT !.prev = a] \in Header
    BY <2>1, <1>1 DEF Header, Link
  <2>3. w = [joined EXCEPT ![n] = [m[n] EXCEPT !.prev = a]]
    <3> HIDE DEF joined, big
    <3> QED BY <1>5, <1>7, <2>1, <1>4 DEF Memory
  <2> HIDE DEF joined, w, n, big
  <2>4. w \in Memory /\ w[n] = [m[n] EXCEPT !.prev = a] /\ \A x \in Address : x # n => w[x] = joined[x]
    BY <2>1, <2>2, <2>3, <1>4 DEF Memory
  <2> QED BY <1>4, <2>4, <1>1 DEF Joined, n, w, big
<1> QED BY <1>6, <1>7

-----------------------------------------------------------------------------
(* Memory that keeps the headers of the blocks keeps all that is said of   *)
(* them, whatever else is written.                                         *)
LEMMA Framed ==
  ASSUME NEW m \in Memory, NEW w \in Memory, NEW bs, NEW cs, NEW h,
         Shape(m, bs, cs, h), \A x \in bs : w[x] = m[x]
  PROVE  /\ Shape(w, bs, cs, h)
         /\ \A x \in bs : Coal(m, x) <=> Coal(w, x)
         /\ \A lv : Held(m, bs, lv) => Held(w, bs, lv)
<1>1. \A x \in bs : m[x].next # Null => m[x].next \in bs
  BY DEF Shape, Chained
<1>2. Laid(w, bs, cs)
  BY DEF Shape, Laid, Inside, End
<1>3. Chained(w, bs) /\ Headed(w, bs, h)
  BY <1>1 DEF Shape, Chained, Headed
<1>4. \A x \in bs : Coal(m, x) <=> Coal(w, x)
  BY <1>1 DEF Coal, Touches
<1>5. \A lv : Held(m, bs, lv) => Held(w, bs, lv)
  BY DEF Held
<1> QED BY <1>2, <1>3, <1>4, <1>5 DEF Shape

(* Every address of a block is one of the window.                          *)
LEMMA BlockInWindow ==
  ASSUME NEW m, NEW bs, NEW cs, NEW h, Shape(m, bs, cs, h),
         NEW limit \in Nat, Chunked(cs, limit), limit <= HeapEnd, NEW b \in bs
  PROVE  /\ b \in Nat /\ b > 0 /\ End(m, b) \in Nat /\ b < End(m, b) /\ End(m, b) <= limit
         /\ End(m, b) # limit
         /\ \A x \in Int : b <= x /\ x < End(m, b) => x \in Address /\ x < limit
<1>1. PICK c \in cs : c.base <= b /\ End(m, b) <= c.base + c.bytes
  BY DEF Shape, Laid, Inside
<1>2. c.base \in Nat /\ c.bytes \in Nat /\ c.base + c.bytes + PageSize <= limit
  BY DEF Chunked, Chunk
<1>3. b \in Nat /\ b > 0 /\ m[b].size \in Nat
  BY Fields, Consts DEF Shape
<1>4. End(m, b) \in Nat /\ b < End(m, b)
  BY <1>3, Consts DEF End
<1>5. ASSUME NEW x \in Int, b <= x, x < End(m, b)
      PROVE  x \in Address /\ x < limit
  BY <1>1, <1>2, <1>3, <1>4, <1>5, ChunkInWindow
<1> QED BY <1>1, <1>2, <1>3, <1>4, <1>5, Consts

(* What stays, and what is new, once block b has been cut at r.            *)
CutKeeps(m, w, bs, cs, h, b, bytes, r) ==
  /\ r \in Address /\ r \notin bs
  /\ w[b].size = bytes /\ w[r].free
  /\ \A x \in bs : w[x].free = m[x].free /\ (x # b => w[x].size = m[x].size)
  /\ Shape(w, bs \cup {r}, cs, h)
  /\ \A x \in bs \cup {r} : x # b => Coal(w, x)
LEMMA SplitShape ==
  ASSUME NEW m \in Memory, NEW bs, NEW cs, NEW h, Shape(m, bs, cs, h),
         NEW limit \in Nat, Chunked(cs, limit), limit <= HeapEnd,
         NEW b \in bs, NEW bytes \in Nat, Splits(m, b, bytes),
         m[b].free, \A x \in bs : Coal(m, x)
  PROVE  CutKeeps(m, Split(m, b, bytes), bs, cs, h, b, bytes, b + Hdr + bytes)
<1> DEFINE w == Split(m, b, bytes)
           r == b + Hdr + bytes
           n == m[b].next
           bt == bs \cup {r}
<1>1. /\ \A x \in bs : x \in Address /\ x \in Nat /\ x > 0 /\ m[x] \in Header
      /\ \A x \in bs : m[x].size \in Nat /\ m[x].next \in Link /\ m[x].magic
      /\ \A x, y \in bs : x < y => End(m, x) <= y
      /\ \A x \in bs : m[x].next # Null =>
           m[x].next \in bs /\ x < m[x].next /\ m[m[x].next].prev = x
      /\ Null = 0 /\ Hdr = 1 /\ MinSplit \in Nat
  BY Consts, Fields DEF Shape, Laid, Chained
<1>2. r \in Nat /\ b < r /\ r < End(m, b) /\ r \in Address
  BY <1>1, BlockInWindow DEF Splits, End
<1>3. r \notin bs
  <2>1. r \in bs => End(m, b) <= r
    BY <1>1, <1>2
  <2>2. End(m, b) \in Nat
    BY <1>1 DEF End
  <2> QED BY <2>1, <2>2, <1>2
<1>4. n # b /\ n # r /\ n \in Link /\ (n # Null => n \in bs /\ End(m, b) <= n /\ m[n].prev = b)
  BY <1>1, <1>2, <1>3
<1>5. /\ w \in Memory
      /\ \A x \in Address : x # b /\ x # r /\ x # n => w[x] = m[x]
      /\ w[b] = [m[b] EXCEPT !.next = r, !.size = bytes]
      /\ w[r] = [magic |-> TRUE, size |-> m[b].size - bytes - Hdr, free |-> TRUE,
                 next |-> n, prev |-> b]
      /\ n # Null => w[n] = [m[n] EXCEPT !.prev = r]
  <2>1. b \in Address /\ r \in Address /\ n # b /\ n # r
    BY <1>1, <1>2, <1>4
  <2>2. CutAt(m, w, b, bytes, r)
    BY <2>1, SplitFields
  <2> QED BY <2>2 DEF CutAt
<1>b. m[b] \in Header /\ (n # Null => m[n] \in Header)
  BY <1>1, <1>4
<1> HIDE DEF w, r, n
<1>6. /\ w[b].magic = m[b].magic /\ w[b].free = m[b].free /\ w[b].size = bytes
      /\ w[b].next = r /\ w[b].prev = m[b].prev
  BY <1>b, <1>5 DEF Header
<1>7. /\ w[r].magic /\ w[r].size = m[b].size - bytes - Hdr /\ w[r].free
      /\ w[r].next = n /\ w[r].prev = b
  BY <1>5
<1>8. n # Null => /\ w[n].magic = m[n].magic /\ w[n].free = m[n].free /\ w[n].size = m[n].size
                  /\ w[n].next = m[n].next /\ w[n].prev = r
  BY <1>b, <1>5 DEF Header
<1>9. \A x \in bs : /\ w[x].magic = m[x].magic /\ w[x].free = m[x].free
                    /\ x # b => w[x].size = m[x].size /\ w[x].next = m[x].next
                    /\ x # n => w[x].prev = m[x].prev
  <2> TAKE x \in bs
  <2>1. CASE x = b
    BY <2>1, <1>6
  <2>2. CASE x = n
    <3>1. n # Null
      BY <2>2, <1>1
    <3> QED BY <2>2, <3>1, <1>8
  <2>3. CASE x # b /\ x # n
    <3>1. x \in Address /\ x # r
      BY <1>1, <1>3
    <3> QED BY <2>3, <3>1, <1>5
  <2> QED BY <2>1, <2>2, <2>3
<1>10. /\ End(w, b) = r /\ End(w, r) = End(m, b)
       /\ \A x \in bs : x # b => End(w, x) = End(m, x)
  BY <1>1, <1>6, <1>7, <1>9 DEF End, r
<1>11. Laid(w, bt, cs)
  <2>1. ASSUME NEW x \in bt PROVE w[x].magic /\ Inside(w, cs, x)
    <3>1. \A y \in bs : \E c \in cs : c.base <= y /\ End(m, y) <= c.base + c.bytes
      BY DEF Shape, Laid, Inside
    <3>2. \A c \in cs : c.base \in Nat /\ c.bytes \in Nat
      BY DEF Chunked, Chunk
    <3>3. CASE x \in bs /\ x # b
      BY <3>3, <3>1, <1>1, <1>9, <1>10 DEF Inside
    <3>4. CASE x = b \/ x = r
      <4>1. PICK c \in cs : c.base <= b /\ End(m, b) <= c.base + c.bytes
        BY <3>1
      <4>2. End(m, b) \in Nat
        BY <1>1 DEF End
      <4>3. c.base <= x /\ End(w, x) <= c.base + c.bytes
        BY <4>1, <4>2, <3>2, <3>4, <1>1, <1>2, <1>10
      <4> QED BY <4>3, <3>4, <1>1, <1>6, <1>7 DEF Inside
    <3> QED BY <3>3, <3>4
  <2>2. ASSUME NEW x \in bt, NEW y \in bt, x < y PROVE End(w, x) <= y
    <3>1. End(m, b) \in Nat /\ \A z \in bs : z \in Nat
      BY <1>1 DEF End
    <3>2. CASE x \in bs /\ y \in bs
      <4>1. CASE x # b
        BY <3>2, <4>1, <2>2, <1>1, <1>10
      <4>2. CASE x = b
        BY <3>1, <3>2, <4>2, <2>2, <1>1, <1>2, <1>10
      <4> QED BY <4>1, <4>2
    <3>3. CASE x \in bs /\ y = r
      <4>1. x < b => End(m, x) <= b
        BY <3>3, <1>1
      <4>2. ~(b < x)
        BY <3>1, <3>3, <2>2, <1>1, <1>2
      <4>3. End(m, x) \in Nat
        BY <3>3, <1>1 DEF End
      <4> QED BY <3>1, <3>3, <4>1, <4>2, <4>3, <2>2, <1>1, <1>2, <1>10
    <3>4. CASE x = r /\ y \in bs
      <4>1. b < y
        BY <3>1, <3>4, <2>2, <1>2
      <4> QED BY <3>4, <4>1, <1>1, <1>10
    <3>5. CASE x = r /\ y = r
      BY <3>5, <2>2, <1>2
    <3> QED BY <3>2, <3>3, <3>4, <3>5
  <2> QED BY <2>1, <2>2 DEF Laid
<1>12. Chained(w, bt)
  <2> SUFFICES ASSUME NEW x \in bt, w[x].next # Null
               PROVE  w[x].next \in bt /\ x < w[x].next /\ w[w[x].next].prev = x
    BY DEF Chained
  <2>1. CASE x = r
    BY <2>1, <1>1, <1>2, <1>4, <1>7, <1>8, BlockInWindow
  <2>2. CASE x = b
    BY <2>2, <1>2, <1>6, <1>7
  <2>3. CASE x \in bs /\ x # b
    <3>1. w[x].next = m[x].next /\ m[x].next # n
      BY <2>3, <1>1, <1>4, <1>9
    <3> QED BY <2>3, <3>1, <1>1, <1>9
  <2> QED BY <2>1, <2>2, <2>3
<1>13. Headed(w, bt, h)
  <2>1. h # Null => h \in bs /\ m[h].prev = Null
    BY DEF Shape, Headed
  <2>2. h # Null => h # n
    BY <2>1, <1>1, <1>4
  <2> QED BY <2>1, <2>2, <1>9 DEF Headed
<1>14. ASSUME NEW x \in bt, x # b PROVE Coal(w, x)
  <2>1. \A y \in bs : Coal(m, y)
    OBVIOUS
  <2>2. CASE x = r
    <3>1. n # Null => (w[n].free <=> m[n].free)
      BY <1>8
    <3>2. n # Null /\ m[n].free => End(m, b) # n
      BY <2>1, <1>1 DEF Coal, Touches, End, n
    <3> QED BY <2>2, <3>1, <3>2, <1>7, <1>10 DEF Coal, Touches, End
  <2>3. CASE x \in bs
    <3>1. w[x].next = m[x].next /\ w[x].size = m[x].size /\ w[x].free = m[x].free
      BY <2>3, <1>14, <1>9
    <3>2. m[x].next # Null => w[m[x].next].free = m[m[x].next].free
      BY <2>3, <1>1, <1>9
    <3> QED BY <2>1, <2>3, <3>1, <3>2 DEF Coal, Touches
  <2> QED BY <2>2, <2>3
<1>15. Shape(w, bt, cs, h)
  BY <1>2, <1>5, <1>11, <1>12, <1>13 DEF Shape
<1> QED BY <1>2, <1>3, <1>6, <1>7, <1>9, <1>14, <1>15 DEF CutKeeps, w, r

(* Two free blocks that touch become one, the second naming the first as   *)
(* its Prev; whether the first names the second as its Next is no matter.  *)
AbsorbKeeps(m, w, bs, cs, h, a, b) ==
  /\ Shape(w, bs \ {b}, cs, h)
  /\ w[a].prev = m[a].prev
  /\ \A x \in bs \ {b} : w[x].free = m[x].free /\ (x # a => w[x].size = m[x].size)
  /\ \A x \in bs \ {b} : x # a => m[x].next # b /\ w[x].next = m[x].next
  /\ \A x \in bs \ {b} : x # a => (Coal(m, x) => Coal(w, x))
  /\ Coal(m, b) => Coal(w, a)
  /\ \A p \in Address : FlagsKept(m, w, p)
LEMMA AbsorbShape ==
  ASSUME NEW m \in Memory, NEW bs, NEW cs, NEW h, Shape(m, bs, cs, h),
         NEW limit \in Nat, Chunked(cs, limit), limit <= HeapEnd,
         NEW a \in bs, NEW b \in bs, Touches(m, a, b), m[b].prev = a, m[b].free
  PROVE  AbsorbKeeps(m, Absorb(m, a, b), bs, cs, h, a, b)
<1> DEFINE w == Absorb(m, a, b)
           n == m[b].next
           bt == bs \ {b}
<1>1. /\ \A x \in bs : x \in Address /\ x \in Nat /\ x > 0 /\ m[x] \in Header
      /\ \A x \in bs : m[x].size \in Nat /\ m[x].next \in Link /\ m[x].magic
      /\ \A x, y \in bs : x < y => End(m, x) <= y
      /\ \A x \in bs : m[x].next # Null =>
           m[x].next \in bs /\ x < m[x].next /\ m[m[x].next].prev = x
      /\ Null = 0 /\ Hdr = 1
      /\ HeapEnd \in Nat
  BY Consts, Fields DEF Shape, Laid, Chained
<1>2. End(m, a) = b /\ a < b /\ End(m, b) \in Nat /\ End(m, b) <= limit
  <2>1. End(m, a) = b
    BY DEF Touches, End
  <2> QED BY <2>1, BlockInWindow
<1>3. n # a /\ n # b /\ (n # Null => n \in bs /\ b < n /\ m[n].prev = b)
  <2>1. n # Null => n \in bs /\ b < n /\ m[n].prev = b
    BY <1>1
  <2>2. a \in Nat /\ b \in Nat /\ a # Null /\ b # Null
    BY <1>1
  <2> HIDE DEF n
  <2> QED BY <2>1, <2>2, <1>2
<1>4. m[a].size + Hdr + m[b].size <= HeapEnd /\ a + Hdr + m[a].size + Hdr + m[b].size = End(m, b)
  <2>1. /\ a \in Nat /\ b \in Nat /\ m[a].size \in Nat /\ m[b].size \in Nat
        /\ a + Hdr + m[a].size = b /\ b + Hdr + m[b].size = End(m, b)
    BY <1>1 DEF Touches, End
  <2> QED BY <2>1, <1>1, <1>2
<1>5. Joined(m, w, a, b)
  <2>1. a \in Address /\ b \in Address /\ a # b /\ m[b].next # a
    BY <1>1, <1>2, <1>3
  <2> QED BY <2>1, <1>4, AbsorbFields
<1>6. m[a] \in Header /\ (n # Null => m[n] \in Header)
  BY <1>1, <1>3
<1> HIDE DEF w, n
<1>7. /\ w[a].magic = m[a].magic /\ w[a].free = m[a].free /\ w[a].prev = m[a].prev
      /\ w[a].next = n /\ w[a].size = m[a].size + Hdr + m[b].size
  BY <1>5, <1>6 DEF Joined, Header, n
<1>8. n # Null => /\ w[n].magic = m[n].magic /\ w[n].free = m[n].free /\ w[n].size = m[n].size
                  /\ w[n].next = m[n].next /\ w[n].prev = a
  BY <1>5, <1>6 DEF Joined, Header, n
<1>9. \A x \in bt : /\ w[x].magic = m[x].magic /\ w[x].free = m[x].free
                    /\ x # a => w[x].size = m[x].size /\ w[x].next = m[x].next
                    /\ x # n => w[x].prev = m[x].prev
  <2> TAKE x \in bt
  <2>1. CASE x = a
    BY <2>1, <1>7
  <2>2. CASE x = n
    <3>1. n # Null
      BY <2>2, <1>1
    <3> QED BY <2>2, <3>1, <1>8
  <2>3. CASE x # a /\ x # n
    <3>1. x \in Address
      BY <1>1
    <3> QED BY <2>3, <3>1, <1>5 DEF Joined, n
  <2> QED BY <2>1, <2>2, <2>3
<1>10. End(w, a) = End(m, b) /\ \A x \in bt : x # a => End(w, x) = End(m, x)
  <2>1. End(w, a) = a + Hdr + (m[a].size + Hdr + m[b].size)
    BY <1>7 DEF End
  <2>2. a \in Nat /\ m[a].size \in Nat /\ m[b].size \in Nat /\ Hdr = 1
    BY <1>1
  <2>3. \A x \in bt : x # a => End(w, x) = End(m, x)
    BY <1>9 DEF End
  <2> QED BY <2>1, <2>2, <2>3, <1>4
<1>11. a \in bt
  BY <1>1, <1>2
<1>12. Inside(w, cs, a)
  <2>1. PICK c \in cs : c.base <= a /\ End(m, a) <= c.base + c.bytes
    BY DEF Shape, Laid, Inside
  <2>2. PICK d \in cs : d.base <= b /\ End(m, b) <= d.base + d.bytes
    BY DEF Shape, Laid, Inside
  <2>3. c.base \in Nat /\ c.bytes \in Nat /\ d.base \in Nat /\ d.bytes \in Nat
    BY DEF Chunked, Chunk
  <2>4. c = d \/ c.base + c.bytes < d.base \/ d.base + d.bytes < c.base
    BY DEF Chunked
  <2>5. a \in Nat /\ b \in Nat /\ b < End(m, b)
    BY <1>1, BlockInWindow
  <2>6. c = d
    BY <2>1, <2>2, <2>3, <2>4, <2>5, <1>2
  <2> QED BY <2>1, <2>2, <2>6, <1>10 DEF Inside
<1>13. Laid(w, bt, cs)
  <2>1. ASSUME NEW x \in bt PROVE w[x].magic /\ Inside(w, cs, x)
    <3>1. x # a => Inside(w, cs, x)
      BY <1>10 DEF Shape, Laid, Inside
    <3> QED BY <3>1, <1>1, <1>9, <1>12
  <2>2. ASSUME NEW x \in bt, NEW y \in bt, x < y PROVE End(w, x) <= y
    <3>1. CASE x = a
      <4>1. b <= y
        BY <3>1, <2>2, <1>1, <1>2
      <4>2. b \in Nat /\ y \in Nat /\ y # b
        BY <1>1
      <4>3. b < y
        BY <4>1, <4>2
      <4> QED BY <3>1, <4>3, <1>1, <1>10
    <3>2. CASE x # a
      BY <3>2, <2>2, <1>1, <1>10
    <3> QED BY <3>1, <3>2
  <2> QED BY <2>1, <2>2 DEF Laid
<1>14. ASSUME NEW x \in bt, x # a
       PROVE  /\ m[x].next # b /\ w[x].next = m[x].next
              /\ m[x].next # Null => m[x].next \in bt /\ m[x].next # n
  <2>1. m[x].next # b
    BY <1>14, <1>1
  <2>2. m[x].next # Null => m[x].next # n
    BY <1>1, <1>3
  <2> QED BY <2>1, <2>2, <1>1, <1>9, <1>14
<1>15. Chained(w, bt)
  <2> SUFFICES ASSUME NEW x \in bt, w[x].next # Null
               PROVE  w[x].next \in bt /\ x < w[x].next /\ w[w[x].next].prev = x
    BY DEF Chained
  <2>1. CASE x = a
    <3>1. w[x].next = n /\ n # Null /\ n \in bt /\ b < n
      BY <2>1, <1>3, <1>7
    <3>2. a < n
      BY <3>1, <1>1, <1>2
    <3> QED BY <2>1, <3>1, <3>2, <1>8
  <2>2. CASE x # a
    <3>1. w[x].next = m[x].next /\ m[x].next \in bt /\ m[x].next # n
      BY <2>2, <1>14
    <3> QED BY <3>1, <1>1, <1>9
  <2> QED BY <2>1, <2>2
<1>16. Headed(w, bt, h)
  <2>1. h # Null => h \in bs /\ m[h].prev = Null
    BY DEF Shape, Headed
  <2>2. h # Null => h # n /\ h # b
    BY <2>1, <1>1, <1>3
  <2> QED BY <2>1, <2>2, <1>9 DEF Headed
<1>17. ASSUME NEW x \in bt, x # a, Coal(m, x) PROVE Coal(w, x)
  <2>1. w[x].next = m[x].next /\ w[x].size = m[x].size /\ w[x].free = m[x].free
    BY <1>17, <1>9
  <2>2. m[x].next # Null => w[m[x].next].free = m[m[x].next].free
    BY <1>17, <1>14, <1>9
  <2> QED BY <1>17, <2>1, <2>2 DEF Coal, Touches
<1>18. Coal(m, b) => Coal(w, a)
  <2>1. n # Null => (w[n].free <=> m[n].free)
    BY <1>8
  <2> QED BY <2>1, <1>7, <1>10 DEF Coal, Touches, End, n
<1>20. Shape(w, bt, cs, h)
  BY <1>1, <1>5, <1>13, <1>15, <1>16 DEF Shape, Joined
<1>21. ASSUME NEW p \in Address PROVE FlagsKept(m, w, p)
  <2>1. CASE p = a
    BY <2>1, <1>7 DEF FlagsKept
  <2>2. CASE p = n
    <3>1. n # Null
      BY <2>2, Consts
    <3> QED BY <2>2, <3>1, <1>8 DEF FlagsKept
  <2>3. CASE p # a /\ p # n
    BY <2>3, <1>5 DEF FlagsKept, Joined, n
  <2> QED BY <2>1, <2>2, <2>3
<1> QED BY <1>7, <1>9, <1>14, <1>17, <1>18, <1>20, <1>21 DEF AbsorbKeeps, w

(* A block that is marked in use, or free.                                 *)
Marked(m, b, f) == [m EXCEPT ![b].free = f]
MarkKeeps(m, w, bs, cs, h, b, f) ==
  /\ Shape(w, bs, cs, h)
  /\ w[b].free = f
  /\ \A x \in Address : x # b => w[x] = m[x]
  /\ \A x \in bs : w[x].size = m[x].size /\ w[x].next = m[x].next /\ w[x].prev = m[x].prev
  /\ \A x \in bs : x # b /\ m[x].next # b /\ Coal(m, x) => Coal(w, x)
  /\ ~f => \A x \in bs : x = b \/ Coal(m, x) => Coal(w, x)
LEMMA FlagShape ==
  ASSUME NEW m \in Memory, NEW bs, NEW cs, NEW h, Shape(m, bs, cs, h),
         NEW b \in bs, NEW f \in BOOLEAN
  PROVE  MarkKeeps(m, Marked(m, b, f), bs, cs, h, b, f)
<1> DEFINE w == Marked(m, b, f)
<1>1. b \in Address /\ m[b] \in Header /\ \A x \in bs : x \in Address
  BY Fields DEF Shape
<1>2. [m[b] EXCEPT !.free = f] \in Header
  BY <1>1 DEF Header
<1>3. w = [m EXCEPT ![b] = [m[b] EXCEPT !.free = f]]
  BY <1>1 DEF Memory, Marked
<1>4. w \in Memory /\ w[b] = [m[b] EXCEPT !.free = f] /\ \A x \in Address : x # b => w[x] = m[x]
  <2> HIDE DEF w
  <2> QED BY <1>1, <1>2, <1>3 DEF Memory
<1> HIDE DEF w
<1>5. /\ w[b].free = f /\ w[b].magic = m[b].magic /\ w[b].size = m[b].size
      /\ w[b].next = m[b].next /\ w[b].prev = m[b].prev
  BY <1>1, <1>4 DEF Header
<1>6. \A x \in bs : /\ w[x].size = m[x].size /\ w[x].next = m[x].next /\ w[x].prev = m[x].prev
                    /\ w[x].magic = m[x].magic
                    /\ x # b => w[x].free = m[x].free
  BY <1>1, <1>4, <1>5
<1>7. \A x \in bs : m[x].next # Null => m[x].next \in bs
  BY DEF Shape, Chained
<1>8. Laid(w, bs, cs)
  <2>1. \A x \in bs : End(w, x) = End(m, x)
    BY <1>6 DEF End
  <2>2. \A x \in bs : w[x].magic = m[x].magic
    BY <1>6
  <2> QED BY <2>1, <2>2 DEF Shape, Laid, Inside
<1>9. Chained(w, bs) /\ Headed(w, bs, h)
  BY <1>6, <1>7 DEF Shape, Chained, Headed
<1>10. ASSUME NEW x \in bs, x # b, m[x].next # b, Coal(m, x)
       PROVE  Coal(w, x)
  <2>1. w[x].free = m[x].free /\ w[x].size = m[x].size /\ w[x].next = m[x].next
    BY <1>10, <1>6
  <2>2. m[x].next # Null => w[m[x].next].free = m[m[x].next].free
    BY <1>10, <1>6, <1>7
  <2> QED BY <1>10, <2>1, <2>2 DEF Coal, Touches
<1>11. ASSUME ~f, NEW x \in bs, x = b \/ Coal(m, x)
       PROVE  Coal(w, x)
  <2>1. CASE x = b \/ m[x].next = b
    <3>1. ~w[b].free /\ w[x].next = m[x].next
      BY <1>5, <1>6, <1>11
    <3> QED BY <2>1, <3>1 DEF Coal
  <2>2. CASE x # b /\ m[x].next # b
    BY <2>2, <1>10, <1>11
  <2> QED BY <2>1, <2>2
<1> QED BY <1>4, <1>5, <1>6, <1>8, <1>9, <1>10, <1>11 DEF MarkKeeps, w, Shape

(* A free block that is large enough goes to a caller.                     *)
HandOutKeeps(m, w, bs, bt, cs, h, b, bytes) ==
  /\ Shape(w, bt, cs, h)
  /\ \A x \in bt : Coal(w, x)
  /\ ~w[b].free /\ w[b].size >= bytes
  /\ \A x \in bs : x # b => w[x].free = m[x].free /\ w[x].size = m[x].size
AfterCut(m, bs, b, bytes) == bs \cup (IF Splits(m, b, bytes) THEN {b + Hdr + bytes} ELSE {})
LEMMA HandOutShape ==
  ASSUME NEW m \in Memory, NEW bs, NEW cs, NEW h, Shape(m, bs, cs, h),
         NEW limit \in Nat, Chunked(cs, limit), limit <= HeapEnd,
         NEW b \in bs, NEW bytes \in Nat, m[b].free, m[b].size >= bytes,
         \A x \in bs : Coal(m, x), NEW zeroed \in BOOLEAN
  PROVE  HandOutKeeps(m, HandOut(m, b, bytes, zeroed), bs, AfterCut(m, bs, b, bytes),
                      cs, h, b, bytes)
<1> DEFINE s == Split(m, b, bytes)
           bt == AfterCut(m, bs, b, bytes)
           taken == Marked(s, b, FALSE)
           w == HandOut(m, b, bytes, zeroed)
<1>1. \A x \in bs : x \in Address /\ x \in Nat /\ m[x].size \in Nat
  BY Consts, Fields DEF Shape
<1>2. /\ Shape(s, bt, cs, h) /\ s[b].size >= bytes
      /\ \A x \in bt : x # b => Coal(s, x)
      /\ \A x \in bs : x # b => s[x].free = m[x].free /\ s[x].size = m[x].size
  <2>1. CASE Splits(m, b, bytes)
    <3>1. bt = bs \cup {b + Hdr + bytes}
      BY <2>1 DEF AfterCut
    <3>2. /\ s[b].size = bytes
          /\ Shape(s, bs \cup {b + Hdr + bytes}, cs, h)
          /\ \A x \in bs \cup {b + Hdr + bytes} : x # b => Coal(s, x)
          /\ \A x \in bs : s[x].free = m[x].free /\ (x # b => s[x].size = m[x].size)
      <4>1. CutKeeps(m, s, bs, cs, h, b, bytes, b + Hdr + bytes)
        BY <2>1, SplitShape
      <4> QED BY <4>1 DEF CutKeeps
    <3> HIDE DEF s, bt
    <3> QED BY <3>1, <3>2
  <2>2. CASE ~Splits(m, b, bytes)
    <3>1. s = m /\ bt = bs
      BY <2>2 DEF Split, AfterCut
    <3> HIDE DEF s, bt
    <3> QED BY <3>1
  <2> QED BY <2>1, <2>2
<1>3. b \in bt /\ \A x \in bs : x \in bt
  BY DEF AfterCut
<1>w. w = IF zeroed THEN [a \in Address |-> IF a \in (b + Hdr) .. (b + Hdr + bytes - 1)
                                            THEN Zeroes ELSE taken[a]] ELSE taken
  BY DEF HandOut, Payload, Marked
<1> HIDE DEF s, bt, w
<1>4. s \in Memory
  BY <1>2 DEF Shape
<1>5. /\ Shape(taken, bt, cs, h) /\ taken[b].free = FALSE
      /\ \A x \in Address : x # b => taken[x] = s[x]
      /\ \A x \in bt : taken[x].size = s[x].size
      /\ \A x \in bt : x = b \/ Coal(s, x) => Coal(taken, x)
  <2>1. Shape(s, bt, cs, h) /\ b \in bt /\ FALSE \in BOOLEAN
    BY <1>2, <1>3
  <2>2. MarkKeeps(s, taken, bt, cs, h, b, FALSE)
    BY <1>4, <2>1, FlagShape
  <2> HIDE DEF taken
  <2> QED BY <2>2 DEF MarkKeeps
<1> HIDE DEF taken
<1>6. taken \in Memory
  BY <1>5 DEF Shape
<1>7. w \in Memory /\ \A x \in bt : w[x] = taken[x]
  <2>1. CASE ~zeroed
    BY <2>1, <1>6, <1>w
  <2>2. CASE zeroed
    <3>1. Zeroes \in Header
      BY Consts DEF Zeroes, Header, Link
    <3>2. w = [a \in Address |-> IF a \in (b + Hdr) .. (b + Hdr + bytes - 1)
                                 THEN Zeroes ELSE taken[a]]
      BY <2>2, <1>w
    <3>3. w \in Memory
      BY <3>1, <3>2, <1>6 DEF Memory
    <3>4. ASSUME NEW x \in bt PROVE x \in Address /\ x \notin (b + Hdr) .. (b + Hdr + bytes - 1)
      <4>1. x \in Address /\ x \in Nat /\ b \in Nat
        BY <1>1, <1>2, Consts DEF Shape
      <4>2. b < x => End(s, b) <= x
        BY <1>2, <1>3 DEF Shape, Laid
      <4>3. b + Hdr + bytes <= End(s, b)
        BY <4>1, <1>2, <1>3, <1>4, Fields, Consts DEF End, Shape
      <4>4. End(s, b) \in Nat
        BY <4>1, <1>2, <1>3, <1>4, Fields, Consts DEF End, Shape
      <4> QED BY <4>1, <4>2, <4>3, <4>4, Consts
    <3> QED BY <3>2, <3>3, <3>4
  <2> QED BY <2>1, <2>2
<1>8. Shape(w, bt, cs, h) /\ \A x \in bt : Coal(w, x)
  BY <1>2, <1>5, <1>6, <1>7, Framed
<1>9. ~w[b].free /\ w[b].size >= bytes
  BY <1>2, <1>3, <1>5, <1>7
<1>10. \A x \in bs : x # b => w[x].free = m[x].free /\ w[x].size = m[x].size
  BY <1>1, <1>2, <1>3, <1>5, <1>7
<1> QED BY <1>8, <1>9, <1>10 DEF HandOutKeeps, w, bt

(* A chunk that is appended behind a tail which is a block.                *)
AppendKeeps(w, bt, ct, hd, limit) ==
  /\ Chunked(ct, limit) /\ limit \in Nat
  /\ Shape(w, bt, ct, hd)
  /\ \A x \in bt : Coal(w, x)
  /\ heapNext \in Address /\ heapNext \notin blocks /\ w[heapNext].free
  /\ \A x \in blocks : w[x].free = mem[x].free /\ w[x].size = mem[x].size
  /\ \A p \in Address : p = heapNext \/ FlagsKept(mem, w, p)
LEMMA AppendShape ==
  ASSUME heapNext \in Nat, heapNext >= HeapBase, Chunked(chunks, heapNext),
         Shape(mem, blocks, chunks, head), tail \in blocks \cup {Null},
         \A x \in blocks : Coal(mem, x),
         NEW bytes \in Nat, RoomFor(bytes), NextCursor(bytes) = heapNext + bytes + PageSize
  PROVE  AppendKeeps(AppendChunk(heapNext, bytes), blocks \cup {heapNext},
                     chunks \cup {[base |-> heapNext, bytes |-> bytes]},
                     IF tail # Null THEN head ELSE heapNext, NextCursor(bytes))
<1> DEFINE v == heapNext
           w == AppendChunk(heapNext, bytes)
           bt == blocks \cup {heapNext}
           new == [base |-> heapNext, bytes |-> bytes]
           ct == chunks \cup {new}
           hd == IF tail # Null THEN head ELSE heapNext
           block == [magic |-> TRUE, size |-> bytes - Hdr, free |-> TRUE,
                     next |-> Null, prev |-> tail]
           fresh == [mem EXCEPT ![v] = block]
<1>0. /\ PageSize \in Nat /\ PageSize > 0 /\ HeapEnd \in Nat /\ HeapBase \in Nat /\ HeapBase > 0
      /\ Null = 0 /\ Hdr = 1 /\ v \in Nat /\ v >= HeapBase /\ mem \in Memory
      /\ bytes > 0 /\ v + bytes + PageSize < HeapEnd /\ NextCursor(bytes) = v + bytes + PageSize
  BY Consts DEF RoomFor, Shape
<1>1. v \in Address /\ v # Null
  BY <1>0, Consts
<1>2. /\ \A x \in blocks : x \in Address /\ x \in Nat /\ x # Null /\ x < v /\ End(mem, x) < v
      /\ \A x \in blocks : mem[x] \in Header
  <2>1. v <= HeapEnd
    BY <1>0
  <2>2. ASSUME NEW x \in blocks PROVE x \in Nat /\ x # Null /\ x < v /\ End(mem, x) < v
    <3>1. x \in Nat /\ x > 0 /\ End(mem, x) \in Nat /\ x < End(mem, x) /\ End(mem, x) <= v /\ End(mem, x) # v
      BY <2>1, <1>0, BlockInWindow
    <3> QED BY <3>1, <1>0
  <2> QED BY <2>2, Fields DEF Shape
<1>3. v \notin blocks
  BY <1>0, <1>2
<1>4. Chunked(ct, NextCursor(bytes)) /\ NextCursor(bytes) \in Nat
  <2>1. new \in Chunk /\ new.base = v /\ new.bytes = bytes
    BY <1>0 DEF Chunk
  <2>2. \A c \in chunks : /\ c.base \in Nat /\ c.bytes \in Nat /\ c.base >= HeapBase /\ c.bytes > 0
                          /\ c.base + c.bytes + PageSize <= v
    BY DEF Chunked, Chunk
  <2>3. \A c \in chunks : c.base + c.bytes < v /\ c.base + c.bytes + PageSize <= v + bytes + PageSize
    BY <2>2, <1>0
  <2> HIDE DEF new
  <2> QED BY <2>1, <2>2, <2>3, <1>0 DEF Chunked
<1>5. block \in Header
  <2>1. bytes - Hdr \in Nat /\ bytes - Hdr <= HeapEnd
    BY <1>0
  <2>2. tail \in Link /\ Null \in Link
    BY <1>2 DEF Link
  <2> QED BY <2>1, <2>2, HeaderMade
<1>6. fresh \in Memory /\ fresh[v] = block /\ \A x \in Address : x # v => fresh[x] = mem[x]
  <2> HIDE DEF block
  <2> QED BY <1>0, <1>1, <1>5 DEF Memory
<1>w. w = IF tail # Null THEN [fresh EXCEPT ![tail].next = v] ELSE fresh
  BY DEF AppendChunk
<1>7. /\ w \in Memory /\ w[v] = block
      /\ \A x \in Address : x # v /\ x # tail => w[x] = mem[x]
      /\ tail # Null => w[tail] = [mem[tail] EXCEPT !.next = v]
  <2>1. CASE tail = Null
    <3> HIDE DEF fresh, w, block
    <3> QED BY <2>1, <1>6, <1>w
  <2>2. CASE tail # Null
    <3>1. tail \in Address /\ mem[tail] \in Header /\ tail # v /\ fresh[tail] = mem[tail]
      BY <2>2, <1>2, <1>3, <1>6
    <3>2. [mem[tail] EXCEPT !.next = v] \in Header
      BY <3>1, <1>1 DEF Header, Link
    <3>3. w = [fresh EXCEPT ![tail] = [mem[tail] EXCEPT !.next = v]]
      <4> HIDE DEF fresh
      <4> QED BY <2>2, <1>w, <3>1, <1>6 DEF Memory
    <3> HIDE DEF fresh, w, block
    <3>4. w \in Memory /\ w[tail] = [mem[tail] EXCEPT !.next = v] /\ \A x \in Address : x # tail => w[x] = fresh[x]
      BY <3>1, <3>2, <3>3, <1>6 DEF Memory
    <3> QED BY <3>1, <3>4, <1>1, <1>6
  <2> QED BY <2>1, <2>2
<1>8. w[v].magic /\ w[v].size = bytes - Hdr /\ w[v].free /\ w[v].next = Null /\ w[v].prev = tail
  BY <1>7
<1> HIDE DEF w, bt, new, ct, hd, block, fresh
<1>9. /\ \A x \in blocks : /\ w[x].magic = mem[x].magic /\ w[x].size = mem[x].size
                           /\ w[x].free = mem[x].free /\ w[x].prev = mem[x].prev
      /\ \A x \in blocks : x # tail => w[x].next = mem[x].next
      /\ tail # Null => w[tail].next = v
  <2>1. tail # Null => /\ w[tail].magic = mem[tail].magic /\ w[tail].size = mem[tail].size
                       /\ w[tail].free = mem[tail].free /\ w[tail].prev = mem[tail].prev
                       /\ w[tail].next = v
    <3>1. tail # Null => mem[tail] \in Header
      BY <1>2
    <3> QED BY <3>1, <1>7 DEF Header
  <2>2. \A x \in blocks : x # tail => w[x] = mem[x]
    BY <1>2, <1>3, <1>7
  <2>3. \A x \in blocks : x # Null
    BY <1>2
  <2> QED BY <2>1, <2>2, <2>3
<1>10. End(w, v) = v + bytes /\ \A x \in blocks : End(w, x) = End(mem, x)
  BY <1>0, <1>8, <1>9 DEF End
<1>11. Laid(w, bt, ct)
  <2>1. ASSUME NEW x \in bt PROVE w[x].magic /\ Inside(w, ct, x)
    <3>1. CASE x = v
      <4>1. new \in ct /\ new.base = v /\ new.bytes = bytes
        BY DEF ct, new
      <4> QED BY <3>1, <4>1, <1>0, <1>8, <1>10 DEF Inside
    <3>2. CASE x \in blocks
      <4>1. PICK c \in chunks : c.base <= x /\ End(mem, x) <= c.base + c.bytes
        BY <3>2 DEF Shape, Laid, Inside
      <4>2. mem[x].magic
        BY <3>2 DEF Shape, Laid
      <4> QED BY <3>2, <4>1, <4>2, <1>9, <1>10 DEF Inside, ct
    <3> QED BY <3>1, <3>2 DEF bt
  <2>2. ASSUME NEW x \in bt, NEW y \in bt, x < y PROVE End(w, x) <= y
    <3>1. x # v
      BY <2>2, <1>0, <1>2 DEF bt
    <3>2. End(mem, x) \in Nat
      BY <3>1, <1>2, <1>0, Fields DEF bt, End
    <3>3. y \in blocks => End(mem, x) <= y
      BY <2>2, <3>1 DEF Shape, Laid, bt
    <3> QED BY <3>1, <3>2, <3>3, <1>2, <1>10, <1>0 DEF bt
  <2> QED BY <2>1, <2>2 DEF Laid
<1>12. \A x \in blocks : mem[x].next # Null =>
         mem[x].next \in blocks /\ x < mem[x].next /\ mem[mem[x].next].prev = x
  BY DEF Shape, Chained
<1>13. Chained(w, bt)
  <2> SUFFICES ASSUME NEW x \in bt, w[x].next # Null
               PROVE  w[x].next \in bt /\ x < w[x].next /\ w[w[x].next].prev = x
    BY DEF Chained
  <2>1. x # v
    BY <1>8
  <2>2. CASE x = tail
    BY <2>1, <2>2, <1>2, <1>8, <1>9 DEF bt
  <2>3. CASE x # tail
    BY <2>1, <2>3, <1>9, <1>12 DEF bt
  <2> QED BY <2>2, <2>3
<1>14. Headed(w, bt, hd)
  BY <1>8, <1>9 DEF Shape, Headed, hd, bt
<1>15. ASSUME NEW x \in bt PROVE Coal(w, x)
  <2>1. CASE x = v
    BY <2>1, <1>8 DEF Coal
  <2>2. CASE x \in blocks /\ x = tail
    <3>1. w[x].next = v /\ End(w, x) < v /\ End(w, x) \in Nat
      BY <2>2, <1>2, <1>9, <1>10, <1>0, Fields DEF End
    <3> QED BY <3>1, <1>0 DEF Coal, Touches, End
  <2>3. CASE x \in blocks /\ x # tail
    BY <2>3, <1>9, <1>12 DEF Coal, Touches
  <2> QED BY <2>1, <2>2, <2>3 DEF bt
<1>16. Shape(w, bt, ct, hd)
  BY <1>1, <1>2, <1>7, <1>11, <1>13, <1>14 DEF Shape, bt
<1>17. ASSUME NEW p \in Address, p # v PROVE FlagsKept(mem, w, p)
  <2>1. CASE p = tail
    <3>1. tail \in blocks
      BY <2>1, <1>17, Consts
    <3> QED BY <2>1, <3>1, <1>9 DEF FlagsKept
  <2>2. CASE p # tail
    BY <2>2, <1>17, <1>7 DEF FlagsKept
  <2> QED BY <2>1, <2>2
<1> QED BY <1>1, <1>3, <1>4, <1>8, <1>9, <1>15, <1>16, <1>17 DEF AppendKeeps, w, bt, ct, new, hd

-----------------------------------------------------------------------------
(* Walks along Next.  A walk stops at Null and in `stop'; where it comes   *)
(* from a is the least set that holds a and follows the links.             *)
Follows(m, stop, S) ==
  S \subseteq Link /\ \A x \in S : x # Null /\ x \notin stop => m[x].next \in S
Reach(m, stop, a) ==
  {x \in Link : \A S \in SUBSET Link : Follows(m, stop, S) /\ a \in S => x \in S}

LEMMA ReachUnfold ==
  ASSUME NEW m \in Memory, NEW stop, NEW a \in Link
  PROVE  /\ a = Null \/ a \in stop => Reach(m, stop, a) = {a}
         /\ a # Null /\ a \notin stop => Reach(m, stop, a) = {a} \cup Reach(m, stop, m[a].next)
<1>1. ASSUME a = Null \/ a \in stop PROVE Reach(m, stop, a) = {a}
  <2>1. Follows(m, stop, {a}) /\ {a} \in SUBSET Link
    BY <1>1 DEF Follows
  <2> QED BY <2>1 DEF Reach
<1>2. ASSUME a # Null, a \notin stop
      PROVE  Reach(m, stop, a) = {a} \cup Reach(m, stop, m[a].next)
  <2> DEFINE n == m[a].next
             R == {a} \cup Reach(m, stop, n)
  <2>1. a \in Address /\ n \in Link
    BY <1>2, Fields DEF Link
  <2> HIDE DEF n
  <2>2. n \in Reach(m, stop, n)
    BY <2>1 DEF Reach
  <2>3. Follows(m, stop, R) /\ R \in SUBSET Link
    <3>1. R \in SUBSET Link
      BY <2>1 DEF Reach
    <3>2. ASSUME NEW x \in R, x # Null, x \notin stop PROVE m[x].next \in R
      <4>1. CASE x = a
        BY <4>1, <2>2 DEF n
      <4>2. CASE x \in Reach(m, stop, n)
        <5>1. m[x].next \in Link
          <6>1. x \in Address
            BY <4>2, <3>2 DEF Reach, Link
          <6> QED BY <6>1, Fields
        <5>2. ASSUME NEW S \in SUBSET Link, Follows(m, stop, S), n \in S PROVE m[x].next \in S
          BY <5>2, <4>2, <3>2 DEF Reach, Follows
        <5> QED BY <5>1, <5>2 DEF Reach
      <4> QED BY <4>1, <4>2
    <3> QED BY <3>1, <3>2 DEF Follows
  <2>4. Reach(m, stop, a) \subseteq R
    BY <2>3 DEF Reach
  <2>5. ASSUME NEW x \in R PROVE x \in Reach(m, stop, a)
    <3>1. ASSUME NEW S \in SUBSET Link, Follows(m, stop, S), a \in S PROVE x \in S
      <4>1. n \in S
        BY <3>1, <1>2 DEF Follows, n
      <4> QED BY <3>1, <4>1, <2>5 DEF Reach
    <3>2. x \in Link
      BY DEF Reach
    <3> QED BY <3>1, <3>2 DEF Reach
  <2> QED BY <2>4, <2>5 DEF n
<1> QED BY <1>1, <1>2

(* What holds of Null, and of a block when it holds of its successor,      *)
(* holds of every block: the list ascends inside a window.                 *)
LEMMA UpTheList ==
  ASSUME NEW m, NEW bs, NEW cs, NEW h, Shape(m, bs, cs, h), NEW Good,
         Null \in Good,
         \A b \in bs : m[b].next \in Good => b \in Good
  PROVE  bs \subseteq Good
<1> SUFFICES ASSUME NEW z \in bs, z \notin Good PROVE FALSE
  OBVIOUS
<1> DEFINE Bad == {k \in Nat : \E b \in bs : b \notin Good /\ k = HeapEnd - b}
           Lt == OpToRel(<, Nat)
<1>1. \A b \in bs : b \in Nat /\ HeapEnd - b \in Nat
  BY Consts DEF Shape
<1>2. HeapEnd - z \in Bad
  BY <1>1
<1>3. PICK k \in Bad : \A j \in Nat : j < k => j \notin Bad
  <2>1. IsWellFoundedOn(Lt, Nat)
    BY NatLessThanWellFounded
  <2>2. \E j \in Bad : \A i \in Nat : <<i, j>> \in Lt => i \notin Bad
    <3> HIDE DEF Lt
    <3>1. Bad \subseteq Nat
      OBVIOUS
    <3> HIDE DEF Bad
    <3> QED BY <2>1, <1>2, <3>1, WFMin
  <2>3. Bad \subseteq Nat
    OBVIOUS
  <2> HIDE DEF Bad
  <2> QED BY <2>2, <2>3 DEF OpToRel
<1>4. PICK b \in bs : b \notin Good /\ k = HeapEnd - b
  OBVIOUS
<1>5. m[b].next \in bs /\ b < m[b].next /\ m[b].next \notin Good
  BY <1>4 DEF Shape, Chained
<1>6. HeapEnd - m[b].next \in Nat /\ HeapEnd - m[b].next < k
  BY <1>1, <1>4, <1>5, Consts
<1>7. HeapEnd - m[b].next \in Bad
  BY <1>5, <1>6
<1> QED BY <1>3, <1>6, <1>7

(* HeapFindFit answers with a free block that is large enough, or none.    *)
LEMMA FitFound ==
  ASSUME NEW m, NEW bs, NEW cs, NEW h, Shape(m, bs, cs, h),
         NEW first \in bs \cup {Null}, NEW bytes
  PROVE  FirstFit(m, first, bytes) \in {Null} \cup {b \in bs : m[b].free /\ m[b].size >= bytes}
<1> DEFINE F == {x \in Address : m[x].free /\ m[x].size >= bytes}
           Body(f) == [a \in Link |-> IF a = Null THEN Null
                                      ELSE IF m[a].free /\ m[a].size >= bytes THEN a
                                      ELSE f[m[a].next]]
           walk == CHOOSE f : f = Body(f)
           Met(a) == Reach(m, F, a) \cap F
           g == [a \in Link |-> IF Met(a) = {} THEN Null ELSE CHOOSE x : x \in Met(a)]
<1>1. m \in Memory /\ bs \subseteq Address /\ Null \in Link /\ Null \notin Address
  BY Consts DEF Shape, Link
<1>2. g = Body(g)
  <2>1. ASSUME NEW a \in Link
        PROVE  g[a] = IF a = Null THEN Null ELSE IF a \in F THEN a ELSE g[m[a].next]
    <3>1. CASE a = Null
      <4>1. Met(a) = {}
        BY <3>1, <1>1, ReachUnfold
      <4> QED BY <3>1, <4>1
    <3>2. CASE a # Null /\ a \in F
      <4>1. Met(a) = {a}
        <5> HIDE DEF F
        <5> QED BY <3>2, <1>1, ReachUnfold
      <4> HIDE DEF F, Met
      <4> QED BY <3>2, <4>1
    <3>3. CASE a # Null /\ a \notin F
      <4>1. m[a].next \in Link
        BY <3>3, <1>1, Fields DEF Link
      <4>2. Met(a) = Met(m[a].next)
        <5> HIDE DEF F
        <5> QED BY <3>3, <1>1, ReachUnfold
      <4> HIDE DEF F, Met
      <4> QED BY <3>3, <4>1, <4>2
    <3> QED BY <3>1, <3>2, <3>3
  <2>2. \A a \in Link : a # Null => (a \in F <=> m[a].free /\ m[a].size >= bytes)
    BY DEF Link
  <2>3. DOMAIN g = Link /\ g = [a \in Link |-> g[a]]
    OBVIOUS
  <2> HIDE DEF g, F
  <2> QED BY <2>1, <2>2, <2>3
<1>3. walk = Body(walk)
  <2> HIDE DEF g, Body
  <2> QED BY <1>2
<1>4. FirstFit(m, first, bytes) = walk[first]
  BY DEF FirstFit
<1> HIDE DEF walk
<1>5. \A a \in Link : walk[a] = IF a = Null THEN Null
                                ELSE IF m[a].free /\ m[a].size >= bytes THEN a
                                ELSE walk[m[a].next]
  <2>1. \A a \in Link : Body(walk)[a] = IF a = Null THEN Null
                                ELSE IF m[a].free /\ m[a].size >= bytes THEN a
                                ELSE walk[m[a].next]
    OBVIOUS
  <2> HIDE DEF Body
  <2> QED BY <1>3, <2>1
<1> HIDE DEF Body
<1> DEFINE Good == {a \in Link : walk[a] = Null \/ (walk[a] \in bs /\ m[walk[a]].free
                                                                 /\ m[walk[a]].size >= bytes)}
<1>6. Null \in Good
  BY <1>1, <1>5
<1>7. ASSUME NEW b \in bs, m[b].next \in Good PROVE b \in Good
  <2>1. b \in Link /\ b # Null
    BY <1>1 DEF Link
  <2>2. walk[b] = IF m[b].free /\ m[b].size >= bytes THEN b ELSE walk[m[b].next]
    BY <2>1, <1>5
  <2> QED BY <2>1, <2>2, <1>7
<1>8. bs \subseteq Good
  <2> HIDE DEF Good
  <2> QED BY <1>6, <1>7, UpTheList
<1>9. first \in Good
  BY <1>6, <1>8
<1> QED BY <1>4, <1>9

(* The list holds blocks only.                                             *)
LEMMA ListedAreBlocks ==
  ASSUME Shape(mem, blocks, chunks, head)
  PROVE  Listed \subseteq blocks
<1> DEFINE Body(f) == [a \in Link |-> IF a = Null THEN {} ELSE {a} \cup f[mem[a].next]]
           from == CHOOSE f : f = Body(f)
           g == [a \in Link |-> Reach(mem, {}, a) \ {Null}]
<1>1. mem \in Memory /\ blocks \subseteq Address /\ Null \in Link /\ Null \notin Address
  BY Consts DEF Shape, Link
<1>2. g = Body(g)
  <2>1. ASSUME NEW a \in Link
        PROVE  g[a] = IF a = Null THEN {} ELSE {a} \cup g[mem[a].next]
    <3>1. CASE a = Null
      BY <3>1, <1>1, ReachUnfold
    <3>2. CASE a # Null
      <4>1. mem[a].next \in Link
        BY <3>2, <1>1, Fields DEF Link
      <4>2. Reach(mem, {}, a) = {a} \cup Reach(mem, {}, mem[a].next)
        BY <3>2, <1>1, ReachUnfold
      <4> QED BY <3>2, <4>1, <4>2
    <3> QED BY <3>1, <3>2
  <2>2. g = [a \in Link |-> g[a]]
    OBVIOUS
  <2> HIDE DEF g
  <2> QED BY <2>1, <2>2
<1>3. from = Body(from)
  <2> HIDE DEF g, Body
  <2> QED BY <1>2
<1>4. Listed = from[head]
  BY DEF Listed
<1> HIDE DEF from
<1>5. \A a \in Link : from[a] = IF a = Null THEN {} ELSE {a} \cup from[mem[a].next]
  <2>1. \A a \in Link : Body(from)[a] = IF a = Null THEN {} ELSE {a} \cup from[mem[a].next]
    OBVIOUS
  <2> HIDE DEF Body
  <2> QED BY <1>3, <2>1
<1> HIDE DEF Body
<1> DEFINE Good == {a \in Link : from[a] \subseteq blocks}
<1>6. Null \in Good
  BY <1>1, <1>5
<1>7. ASSUME NEW b \in blocks, mem[b].next \in Good PROVE b \in Good
  <2>1. b \in Link /\ b # Null /\ mem[b].next \in Link
    BY <1>1, <1>7 DEF Link
  <2>2. from[b] = {b} \cup from[mem[b].next]
    BY <1>5, <2>1
  <2>3. from[mem[b].next] \subseteq blocks
    BY <1>7
  <2>4. from[b] \subseteq blocks
    BY <2>2, <2>3
  <2> QED BY <2>1, <2>4
<1>8. blocks \subseteq Good
  <2> HIDE DEF Good
  <2> QED BY <1>6, <1>7, UpTheList
<1> QED BY <1>4, <1>6, <1>8 DEF Shape, Headed

-----------------------------------------------------------------------------
(* The inductive invariant.  Each property needs the rest: blocks stay     *)
(* apart because only free ones are cut and only touching ones joined,     *)
(* Next is safe to follow because it ascends among blocks, and neither     *)
(* holds if an allocation's block could be free or shared.                 *)
Kept(m, bs, cs, h, limit, lv, st) ==
  /\ Chunked(cs, limit) /\ limit \in Nat /\ HeapBase <= limit /\ limit <= HeapEnd
  /\ Shape(m, bs, cs, h)
  /\ \A x \in bs : Coal(m, x)
  /\ Held(m, bs, lv)
  /\ Spent(m, lv, st) /\ st \subseteq Address
HeapInv ==
  /\ ready \in BOOLEAN /\ strayed \in BOOLEAN /\ sunk \in BOOLEAN
  /\ Sound => Kept(mem, blocks, chunks, head, heapNext, live, stale) /\ tail \in Link

LEMMA InitInv == Init => HeapInv
<1> SUFFICES ASSUME Init PROVE HeapInv
  OBVIOUS
<1>1. mem \in Memory
  <2>1. Zeroes \in Header
    BY Consts DEF Zeroes, Header, Link
  <2> QED BY <2>1 DEF Init, Memory
<1>2. Chunked(chunks, heapNext)
  BY DEF Init, Chunked
<1>3. Shape(mem, blocks, chunks, head)
  BY <1>1 DEF Init, Shape, Laid, Chained, Headed
<1>4. Held(mem, blocks, live) /\ Spent(mem, live, stale)
  BY DEF Init, Held, Spent
<1>5. heapNext \in Nat /\ HeapBase <= heapNext /\ heapNext <= HeapEnd /\ tail \in Link
  BY HeapAssumption DEF Init, Link
<1> QED BY <1>2, <1>3, <1>4, <1>5 DEF Init, HeapInv, Kept, Sound

(* A free block that fits goes to a caller.                                *)
LEMMA GiveKeeps ==
  ASSUME NEW m, NEW bs, NEW cs, NEW h, NEW limit,
         Kept(m, bs, cs, h, limit, live, stale),
         NEW b \in bs, NEW bytes \in Nat \ {0}, m[b].free, m[b].size >= bytes,
         NEW zeroed \in BOOLEAN, GiveTo(m, bs, b, bytes, zeroed)
  PROVE  Kept(mem', blocks', cs, h, limit, live', stale')
<1> DEFINE grant == [block |-> b, bytes |-> bytes]
<1>1. /\ m \in Memory /\ Shape(m, bs, cs, h) /\ Chunked(cs, limit) /\ limit \in Nat
      /\ limit <= HeapEnd /\ HeapBase <= limit
      /\ Held(m, bs, live) /\ Spent(m, live, stale) /\ stale \subseteq Address
      /\ \A x \in bs : Coal(m, x)
  BY DEF Kept, Shape
<1>2. /\ mem' = HandOut(m, b, bytes, zeroed)
      /\ blocks' = AfterCut(m, bs, b, bytes)
      /\ live' = live \cup {grant}
      /\ stale' = {p \in stale : p \notin Footprint(grant) /\ mem'[p] = m[p]}
  BY DEF GiveTo, AfterCut
<1>3. HandOutKeeps(m, mem', bs, blocks', cs, h, b, bytes)
  BY <1>1, <1>2, HandOutShape
<1>4. bs \subseteq blocks' /\ b \in Nat
  BY <1>1, <1>2, Consts DEF AfterCut, Shape
<1>5. grant \in Grant /\ grant.block = b /\ grant.bytes = bytes
  BY <1>4 DEF Grant
<1> HIDE DEF grant
<1>6. Held(mem', blocks', live')
  <2>1. ASSUME NEW a \in live PROVE /\ a.block \in bs /\ a.block # b
                                    /\ mem'[a.block].free = m[a.block].free
                                    /\ mem'[a.block].size = m[a.block].size
    <3>1. a.block \in bs /\ ~m[a.block].free
      BY <1>1 DEF Held
    <3> QED BY <3>1, <1>3 DEF HandOutKeeps
  <2>2. /\ b \in blocks' /\ ~mem'[b].free /\ mem'[b].size >= bytes
    BY <1>3, <1>4 DEF HandOutKeeps
  <2>3. live' \subseteq Grant
    BY <1>1, <1>2, <1>5 DEF Held
  <2>4. ASSUME NEW a \in live' PROVE a.block \in blocks' /\ ~mem'[a.block].free /\ mem'[a.block].size >= a.bytes
    <3>1. CASE a \in live
      BY <3>1, <2>1, <1>1, <1>4 DEF Held
    <3>2. CASE a = grant
      BY <3>2, <2>2, <1>5
    <3> QED BY <3>1, <3>2, <1>2
  <2>5. \A a, c \in live' : a.block = c.block => a = c
    BY <2>1, <1>1, <1>2, <1>5 DEF Held
  <2> QED BY <2>3, <2>4, <2>5 DEF Held
<1>7. Spent(mem', live', stale')
  BY <1>1, <1>2 DEF Spent
<1> QED BY <1>1, <1>2, <1>3, <1>6, <1>7 DEF Kept, HandOutKeeps

-----------------------------------------------------------------------------
(* A new chunk behind a tail that is a block.                              *)
LEMMA ChunkBytesTyped ==
  ASSUME NEW min \in Nat
  PROVE  ChunkBytes(min) \in Nat
<1>1. Word \in Nat /\ Word > 0 /\ PageSize \in Nat /\ PageSize > 0 /\ MinChunk \in Nat /\ Hdr \in Nat
  BY HeapAssumption DEF Hdr
<1>2. (min + Hdr) % Word \in Nat
  BY <1>1
<1>3. ASSUME NEW n \in Nat PROVE PageAlignUp(n) \in Nat
  <2>1. n + PageSize - 1 \in Nat
    BY <1>1
  <2>2. (n + PageSize - 1) % Word \in Nat
    BY <2>1, <1>1
  <2>3. ASSUME NEW k \in Nat PROVE k \div PageSize \in Nat
    BY <1>1
  <2>4. ASSUME NEW k \in Nat PROVE k * PageSize \in Nat
    BY <1>1
  <2> QED BY <2>2, <2>3, <2>4 DEF PageAlignUp
<1> QED BY <1>1, <1>2, <1>3 DEF ChunkBytes

(* What the frames can back does not wrap the cursor.                      *)
LEMMA PlainCursor ==
  ASSUME heapNext \in Nat, heapNext <= HeapEnd, NEW bytes \in Nat,
         HeapEnd + bytes + PageSize < Word
  PROVE  NextCursor(bytes) = heapNext + bytes + PageSize
<1>1. \A n \in Nat : n < Word => n % Word = n
  BY HeapAssumption
<1>2. /\ bytes + PageSize \in Nat /\ bytes + PageSize < Word
      /\ heapNext + (bytes + PageSize) \in Nat /\ heapNext + (bytes + PageSize) < Word
  BY Consts
<1>3. (bytes + PageSize) % Word = bytes + PageSize
  BY <1>1, <1>2
<1>4. (heapNext + (bytes + PageSize)) % Word = heapNext + (bytes + PageSize)
  BY <1>1, <1>2
<1> QED BY <1>3, <1>4, Consts DEF NextCursor, Span

LEMMA CursorTyped ==
  ASSUME heapNext \in Nat, NEW bytes \in Nat
  PROVE  NextCursor(bytes) \in Nat
<1>1. \A n \in Nat : n % Word \in Nat
  BY HeapAssumption
<1>2. (bytes + PageSize) % Word \in Nat
  BY <1>1, Consts
<1> QED BY <1>1, <1>2 DEF NextCursor, Span

LEMMA GrowKeeps ==
  ASSUME HeapInv, Sound', NEW min \in Nat, HeapExpand(min)
  PROVE  /\ Kept(AppendChunk(heapNext, ChunkBytes(min)), blocks \cup {heapNext}, chunks', head',
                 heapNext', live, stale)
         /\ tail' \in Link
<1> DEFINE bytes == ChunkBytes(min)
           grown == AppendChunk(heapNext, bytes)
           among == blocks \cup {heapNext}
<1>1. bytes \in Nat /\ RoomFor(bytes) /\ bytes <= Backing /\ heapNext' = NextCursor(bytes)
      /\ chunks' = chunks \cup {[base |-> heapNext, bytes |-> bytes]}
      /\ tail' = heapNext /\ head' = IF tail # Null THEN head ELSE heapNext
  BY ChunkBytesTyped DEF HeapExpand
<1>2. Sound /\ tail \in blocks \cup {Null}
  BY DEF HeapInv, HeapExpand, Sound
<1>3. Kept(mem, blocks, chunks, head, heapNext, live, stale)
  BY <1>2 DEF HeapInv
<1> HIDE DEF bytes
<1>n. NextCursor(bytes) = heapNext + bytes + PageSize
  <2>1. heapNext \in Nat /\ heapNext <= HeapEnd /\ HeapEnd + bytes + PageSize < Word
    BY <1>1, <1>3, Consts DEF Kept
  <2> QED BY <2>1, <1>1, PlainCursor
<1>4. AppendKeeps(grown, among, chunks', head', heapNext')
  <2>1. /\ heapNext \in Nat /\ heapNext >= HeapBase /\ Chunked(chunks, heapNext)
        /\ Shape(mem, blocks, chunks, head) /\ \A x \in blocks : Coal(mem, x)
    BY <1>3, Consts DEF Kept
  <2> QED BY <2>1, <1>1, <1>2, <1>n, AppendShape
<1> HIDE DEF grown
<1>5. Held(grown, among, live)
  <2>1. \A x \in blocks : grown[x].free = mem[x].free /\ grown[x].size = mem[x].size
    BY <1>4 DEF AppendKeeps
  <2> QED BY <2>1, <1>3 DEF Kept, Held
<1>6. Spent(grown, live, stale)
  <2>1. \A p \in Address : p = heapNext \/ FlagsKept(mem, grown, p)
    BY <1>4 DEF AppendKeeps
  <2>2. grown[heapNext].free
    BY <1>4 DEF AppendKeeps
  <2>3. stale \subseteq Address /\ Spent(mem, live, stale)
    BY <1>3 DEF Kept
  <2> QED BY <2>1, <2>2, <2>3 DEF Spent, FlagsKept
<1>7. heapNext' \in Nat /\ HeapBase <= heapNext' /\ heapNext' <= HeapEnd
  <2>1. heapNext \in Nat /\ HeapBase <= heapNext
    BY <1>3 DEF Kept
  <2> QED BY <2>1, <1>1, <1>n, Consts DEF RoomFor
<1>8. tail' \in Link
  BY <1>1, <1>4 DEF AppendKeeps, Link
<1>9. stale \subseteq Address
  BY <1>3 DEF Kept
<1>10. Kept(grown, among, chunks', head', heapNext', live, stale)
  BY <1>4, <1>5, <1>6, <1>7, <1>9 DEF Kept, AppendKeeps
<1> QED BY <1>8, <1>10 DEF grown, among, bytes

(* The cursor moves up though no chunk came of it.                         *)
LEMMA CursorKeeps ==
  ASSUME NEW m, NEW bs, NEW cs, NEW h, NEW limit, NEW lv, NEW st,
         Kept(m, bs, cs, h, limit, lv, st),
         NEW up \in Nat, limit <= up, up <= HeapEnd
  PROVE  Kept(m, bs, cs, h, up, lv, st)
<1>1. limit \in Nat /\ HeapBase <= limit /\ Chunked(cs, limit)
  BY DEF Kept
<1>2. Chunked(cs, up)
  <2>1. \A c \in cs : c.base \in Nat /\ c.bytes \in Nat /\ c.base + c.bytes + PageSize <= limit
    BY <1>1 DEF Chunked, Chunk
  <2>2. \A c \in cs : c.base + c.bytes + PageSize <= up
    BY <2>1, <1>1, Consts
  <2> QED BY <2>2, <1>1 DEF Chunked
<1> QED BY <1>1, <1>2, Consts DEF Kept

-----------------------------------------------------------------------------
(* ExFreePool on the block of an allocation: it is marked free, takes over *)
(* the next block, and is taken over by the one before.                    *)
Freed(m, bs, cs, h, b) ==
  /\ Shape(m, bs, cs, h) /\ b \in bs /\ m[b].free /\ Coal(m, b)
  /\ \A x \in bs : x # b /\ m[x].next # b => Coal(m, x)
NextGone(m, b) == IF JoinsNext(m, b) THEN {m[b].next} ELSE {}
WithNext(m, b) == IF JoinsNext(m, b) THEN Absorb(m, b, m[b].next) ELSE m
Undisturbed(m, w, bs, b) ==
  /\ \A x \in bs : ~m[x].free /\ x # b => ~w[x].free /\ w[x].size = m[x].size
  /\ \A p \in Address : p # b => FlagsKept(m, w, p)
  /\ w[b].free /\ w[b].magic = m[b].magic

Forwarded(m, f, bs, cs, h, b) ==
  /\ Freed(WithNext(f, b), bs \ NextGone(f, b), cs, h, b)
  /\ Undisturbed(m, WithNext(f, b), bs \ NextGone(f, b), b)
  /\ \A x \in NextGone(f, b) : x \in bs /\ b < x /\ m[x].free

LEMMA ForwardKeeps ==
  ASSUME NEW m, NEW bs, NEW cs, NEW h, NEW limit, Shape(m, bs, cs, h),
         limit \in Nat, Chunked(cs, limit), limit <= HeapEnd,
         \A x \in bs : Coal(m, x), NEW b \in bs
  PROVE  Forwarded(m, Marked(m, b, TRUE), bs, cs, h, b)
<1> DEFINE f == Marked(m, b, TRUE)
           n == f[b].next
           gone == NextGone(f, b)
           fwd == WithNext(f, b)
<1>1. m \in Memory /\ bs \subseteq Address /\ b \in Address
  BY DEF Shape
<1>2. MarkKeeps(m, f, bs, cs, h, b, TRUE)
  BY <1>1, FlagShape
<1>3. f[b].magic = m[b].magic
  <2>1. m[b] \in Header
    BY <1>1, Fields
  <2>2. f[b] = [m[b] EXCEPT !.free = TRUE]
    BY <1>1 DEF Marked, Memory
  <2> HIDE DEF f
  <2> QED BY <2>1, <2>2 DEF Header
<1> HIDE DEF f
<1>4. /\ Shape(f, bs, cs, h) /\ f[b].free /\ f \in Memory
      /\ \A x \in Address : x # b => f[x] = m[x]
      /\ \A x \in bs : f[x].next = m[x].next /\ f[x].prev = m[x].prev
      /\ \A x \in bs : x # b /\ m[x].next # b => Coal(f, x)
  <2>1. \A x \in bs : Coal(m, x)
    OBVIOUS
  <2> QED BY <1>2, <2>1 DEF MarkKeeps, Shape
<1>5. Undisturbed(m, f, bs, b)
  BY <1>1, <1>3, <1>4 DEF Undisturbed, FlagsKept
<1>6. CASE JoinsNext(f, b)
  <2>1. gone = {n} /\ fwd = Absorb(f, b, n)
    BY <1>6 DEF NextGone, WithNext
  <2>2. n \in bs /\ b < n /\ f[n].prev = b /\ f[n].free /\ Touches(f, b, n)
    BY <1>4, <1>6 DEF Shape, Chained, JoinsNext
  <2>3. b \in Nat /\ n \in Nat /\ b # n
    BY <2>2, <1>1, Consts
  <2> HIDE DEF n, gone, fwd
  <2>4. AbsorbKeeps(f, fwd, bs, cs, h, b, n)
    BY <2>1, <2>2, <1>4, AbsorbShape
  <2>5. Coal(f, n)
    <3>1. m[n].next # b
      <4>1. f[n].next = m[n].next /\ (f[n].next # Null => n < f[n].next /\ f[n].next \in bs)
        BY <2>2, <1>4 DEF Shape, Chained
      <4>2. b # Null /\ f[n].next \in bs => f[n].next \in Nat
        BY <1>1, Consts
      <4>3. b # Null
        BY <1>1, Consts
      <4> QED BY <4>1, <4>2, <4>3, <2>2, <2>3
    <3> QED BY <3>1, <2>2, <2>3, <1>4
  <2>6. Freed(fwd, bs \ {n}, cs, h, b)
    <3>1. b \in bs \ {n}
      BY <2>3
    <3>2. ASSUME NEW x \in bs \ {n}, x # b, fwd[x].next # b PROVE Coal(fwd, x)
      <4>1. f[x].next # b
        BY <3>2, <2>4 DEF AbsorbKeeps
      <4> QED BY <3>2, <4>1, <2>4, <1>4 DEF AbsorbKeeps
    <3> QED BY <3>1, <3>2, <2>4, <2>5, <1>4 DEF Freed, AbsorbKeeps
  <2>7. Undisturbed(m, fwd, bs \ {n}, b)
    BY <1>1, <1>5, <2>3, <2>4 DEF Undisturbed, AbsorbKeeps, FlagsKept
  <2>8. m[n].free
    BY <2>2, <2>3, <1>1, <1>4
  <2> QED BY <2>1, <2>2, <2>6, <2>7, <2>8 DEF Forwarded, f, fwd, gone
<1>7. CASE ~JoinsNext(f, b)
  <2>1. gone = {} /\ fwd = f
    BY <1>7 DEF NextGone, WithNext
  <2>2. Coal(f, b)
    BY <1>7 DEF Coal, JoinsNext
  <2>3. bs \ gone = bs
    BY <2>1
  <2>4. Freed(f, bs, cs, h, b)
    BY <2>2, <1>4 DEF Freed
  <2> HIDE DEF fwd, gone
  <2> QED BY <2>1, <2>3, <2>4, <1>4, <1>5 DEF Forwarded, f, fwd, gone
<1> QED BY <1>6, <1>7

LEMMA BackwardKeeps ==
  ASSUME NEW m, NEW bs, NEW cs, NEW h, NEW limit, NEW b, Freed(m, bs, cs, h, b),
         limit \in Nat, Chunked(cs, limit), limit <= HeapEnd,
         JoinsPrev(m, b), m[b].prev \in bs
  PROVE  /\ Shape(Absorb(m, m[b].prev, b), bs \ {b}, cs, h)
         /\ \A x \in bs \ {b} : Coal(Absorb(m, m[b].prev, b), x)
         /\ Undisturbed(m, Absorb(m, m[b].prev, b), bs \ {b}, b)
<1> DEFINE q == m[b].prev
           w == Absorb(m, q, b)
<1>1. Touches(m, q, b) /\ m[q].free /\ b \in bs /\ Shape(m, bs, cs, h) /\ m \in Memory
      /\ q \in bs /\ m[b].free
  BY DEF JoinsPrev, Freed, Shape
<1>2. AbsorbKeeps(m, w, bs, cs, h, q, b)
  BY <1>1, AbsorbShape
<1> HIDE DEF w, q
<1>3. ASSUME NEW x \in bs \ {b} PROVE Coal(w, x)
  BY <1>2 DEF AbsorbKeeps, Freed
<1>4. Undisturbed(m, w, bs \ {b}, b)
  <2>1. b \in Address /\ FlagsKept(m, w, b)
    BY <1>1, <1>2 DEF AbsorbKeeps, Shape
  <2>2. \A x \in bs \ {b} : ~m[x].free => x # q
    BY <1>1
  <2> QED BY <1>1, <1>2, <2>1, <2>2 DEF AbsorbKeeps, Undisturbed, FlagsKept
<1> QED BY <1>2, <1>3, <1>4 DEF AbsorbKeeps, w, q

LEMMA BackwardStays ==
  ASSUME NEW m, NEW bs, NEW cs, NEW h, NEW b, Freed(m, bs, cs, h, b), ~JoinsPrev(m, b),
         NEW x \in bs
  PROVE  Coal(m, x)
<1>1. CASE x = b \/ m[x].next # b
  BY <1>1 DEF Freed
<1>2. CASE x # b /\ m[x].next = b
  <2>1. m[b].prev = x /\ x # Null /\ b # Null
    BY <1>2, Consts DEF Freed, Shape, Chained
  <2> QED BY <1>2, <2>1 DEF JoinsPrev, Coal
<1> QED BY <1>1, <1>2

(* ExFreePool as a whole, in these terms.                                  *)
LEMMA CoalescedIs ==
  ASSUME NEW b
  PROVE  LET f == Marked(mem, b, TRUE)
             fwd == WithNext(f, b)
             q == fwd[b].prev
         IN  /\ Coalesced(b).mem = IF JoinsPrev(fwd, b) THEN Absorb(fwd, q, b) ELSE fwd
             /\ Coalesced(b).gone = NextGone(f, b) \cup (IF JoinsPrev(fwd, b) THEN {b} ELSE {})
             /\ Coalesced(b).stray = (q \notin blocks \cup {Null})
             /\ Coalesced(b).tail \in {q, b, tail}
BY DEF Coalesced, Marked, WithNext, NextGone

LEMMA FreeKeeps ==
  ASSUME HeapInv, Sound', NEW a \in live, ExFreePool(a.block),
         live' = live \ {a}, stale' = stale \cup {a.block}
  PROVE  Kept(mem', blocks', chunks, head, heapNext, live', stale') /\ tail' \in Link
<1> DEFINE b == a.block
           f == Marked(mem, b, TRUE)
           fwd == WithNext(f, b)
           gone == NextGone(f, b)
           q == fwd[b].prev
           bs == blocks \ gone
<1>1. /\ Kept(mem, blocks, chunks, head, heapNext, live, stale) /\ tail \in Link
  BY DEF HeapInv, ExFreePool, Sound
<1>2. /\ mem \in Memory /\ Shape(mem, blocks, chunks, head) /\ blocks \subseteq Address
      /\ Chunked(chunks, heapNext) /\ heapNext \in Nat /\ heapNext <= HeapEnd
      /\ Held(mem, blocks, live) /\ Spent(mem, live, stale) /\ stale \subseteq Address
      /\ \A x \in blocks : Coal(mem, x)
  BY <1>1 DEF Kept, Shape
<1>3. b \in blocks /\ ~mem[b].free /\ mem[b].magic /\ b \in Address
  BY <1>2 DEF Held, Shape, Laid
<1>4. /\ mem' = Coalesced(b).mem /\ tail' = Coalesced(b).tail
      /\ blocks' = blocks \ Coalesced(b).gone /\ ~Coalesced(b).stray
  BY <1>3 DEF ExFreePool, Refuses, Sound
<1>5. /\ Coalesced(b).mem = IF JoinsPrev(fwd, b) THEN Absorb(fwd, q, b) ELSE fwd
      /\ Coalesced(b).gone = gone \cup (IF JoinsPrev(fwd, b) THEN {b} ELSE {})
      /\ Coalesced(b).stray = (q \notin blocks \cup {Null})
      /\ Coalesced(b).tail \in {q, b, tail}
  BY CoalescedIs
<1>6. Forwarded(mem, f, blocks, chunks, head, b)
  BY <1>2, <1>3, ForwardKeeps
<1>7. /\ Freed(fwd, bs, chunks, head, b) /\ Undisturbed(mem, fwd, bs, b)
      /\ \A x \in gone : x \in blocks /\ b < x /\ mem[x].free
  BY <1>6 DEF Forwarded
<1> HIDE DEF b, f, fwd, gone, q, bs
<1>8. q \in blocks \cup {Null} /\ tail' \in Link
  BY <1>1, <1>2, <1>3, <1>4, <1>5 DEF Link
<1>9. /\ Shape(mem', blocks', chunks, head) /\ \A x \in blocks' : Coal(mem', x)
      /\ Undisturbed(mem, mem', blocks', b)
      /\ \A x \in blocks : x # b /\ ~mem[x].free => x \in blocks'
  <2>1. CASE JoinsPrev(fwd, b)
    <3>1. mem' = Absorb(fwd, q, b) /\ blocks' = bs \ {b}
      BY <2>1, <1>4, <1>5 DEF bs
    <3>2. q \in bs
      <4>1. fwd \in Memory /\ q # Null /\ Touches(fwd, q, b)
        BY <2>1, <1>7 DEF JoinsPrev, Freed, Shape, q
      <4>2. q \in blocks /\ q \in Address /\ q \in Nat /\ b \in Nat /\ fwd[q].size \in Nat
        BY <4>1, <1>2, <1>3, <1>8, Fields, Consts
      <4>3. ~(b < q)
        BY <4>1, <4>2, Consts DEF Touches
      <4> QED BY <4>2, <4>3, <1>7 DEF bs
    <3>3. /\ Shape(mem', blocks', chunks, head) /\ \A x \in blocks' : Coal(mem', x)
          /\ Undisturbed(fwd, mem', blocks', b)
      BY <3>1, <3>2, <2>1, <1>2, <1>7, BackwardKeeps DEF q
    <3>4. Undisturbed(mem, mem', blocks', b)
      BY <3>1, <3>3, <1>7 DEF Undisturbed, FlagsKept
    <3> QED BY <3>1, <3>3, <3>4, <1>7 DEF bs
  <2>2. CASE ~JoinsPrev(fwd, b)
    <3>1. mem' = fwd /\ blocks' = bs
      BY <2>2, <1>4, <1>5 DEF bs
    <3>2. \A x \in bs : Coal(fwd, x)
      BY <2>2, <1>7, BackwardStays
    <3> QED BY <3>1, <3>2, <1>7 DEF bs, Freed
  <2> QED BY <2>1, <2>2
<1>10. \A c \in live' : c \in live /\ c.block # b
  BY <1>2 DEF Held, b
<1>11. Held(mem', blocks', live')
  <2>1. ASSUME NEW c \in live'
        PROVE  c.block \in blocks' /\ ~mem'[c.block].free /\ mem'[c.block].size >= c.bytes
    <3>1. c.block \in blocks /\ ~mem[c.block].free /\ mem[c.block].size >= c.bytes /\ c.block # b
      BY <1>2, <1>10 DEF Held
    <3>2. c.block \in blocks' /\ ~mem'[c.block].free /\ mem'[c.block].size = mem[c.block].size
      BY <3>1, <1>9 DEF Undisturbed
    <3> QED BY <3>1, <3>2
  <2> QED BY <2>1, <1>2, <1>10 DEF Held
<1>12. Spent(mem', live', stale')
  <2>1. stale' = stale \cup {b}
    BY DEF b
  <2>2. ASSUME NEW p \in stale' PROVE ~mem'[p].magic \/ mem'[p].free
    <3>1. CASE p = b
      BY <3>1, <1>9 DEF Undisturbed
    <3>2. CASE p # b
      BY <3>2, <2>1, <1>2, <1>9 DEF Undisturbed, FlagsKept, Spent
    <3> QED BY <3>1, <3>2
  <2>3. ASSUME NEW p \in stale', NEW c \in live' PROVE p \notin Footprint(c)
    <3>1. CASE p \in stale
      BY <3>1, <1>2, <1>10 DEF Spent
    <3>2. CASE p = b
      <4>1. c.block \in blocks /\ c.block # b /\ mem[c.block].size >= c.bytes
        BY <1>2, <1>10 DEF Held
      <4>2. c.block < b => End(mem, c.block) <= b
        BY <4>1, <1>2, <1>3 DEF Shape, Laid
      <4>3. /\ b \in Nat /\ c.block \in Nat /\ c.bytes \in Nat /\ mem[c.block].size \in Nat /\ Hdr = 1
        BY <4>1, <1>2, <1>3, <1>10, Fields, Consts DEF Held, Grant
      <4>4. End(mem, c.block) = c.block + Hdr + mem[c.block].size
        BY DEF End
      <4> QED BY <3>2, <4>1, <4>2, <4>3, <4>4 DEF Footprint
    <3> QED BY <3>1, <3>2, <2>1
  <2> QED BY <2>2, <2>3 DEF Spent
<1>13. stale' \subseteq Address
  BY <1>2, <1>3 DEF b
<1> QED BY <1>1, <1>2, <1>8, <1>9, <1>11, <1>12, <1>13 DEF Kept

-----------------------------------------------------------------------------
LEMMA NextInv == HeapInv /\ [Next]_vars => HeapInv'
<1> SUFFICES ASSUME HeapInv, [Next]_vars PROVE HeapInv'
  OBVIOUS
<1> DEFINE Good == Kept(mem, blocks, chunks, head, heapNext, live, stale) /\ tail \in Link
<1>0. ready \in BOOLEAN /\ strayed \in BOOLEAN /\ sunk \in BOOLEAN /\ (Sound => Good)
  BY DEF HeapInv
<1>1. /\ ready' \in BOOLEAN /\ strayed' \in BOOLEAN /\ sunk' \in BOOLEAN
      /\ strayed => strayed'
      /\ sunk => sunk'
  <2>0. ready \in BOOLEAN /\ strayed \in BOOLEAN /\ sunk \in BOOLEAN
    BY <1>0
  <2>1. CASE UNCHANGED vars
    BY <2>0, <2>1 DEF vars
  <2>2. CASE Beyond
    BY <2>0, <2>2 DEF Beyond, vars
  <2>3. ASSUME NEW min, HeapExpand(min)
        PROVE  /\ strayed' \in BOOLEAN /\ sunk' \in BOOLEAN
               /\ strayed => strayed'
               /\ sunk => sunk'
    <3>1. strayed' = (strayed \/ tail \notin blocks \cup {Null}) /\ sunk' = sunk
      BY <2>3 DEF HeapExpand
    <3> QED BY <2>0, <3>1
  <2>4. ASSUME NEW min, HeapExpandFails(min) PROVE sunk' \in BOOLEAN /\ strayed' = strayed
    BY <2>4 DEF HeapExpandFails
  <2>5. ASSUME NEW p, ExFreePool(p)
        PROVE  /\ strayed' \in BOOLEAN /\ sunk' \in BOOLEAN /\ ready' = ready
               /\ strayed => strayed'
               /\ sunk => sunk'
    <3>1. CASE Refuses(p)
      BY <2>0, <2>5, <3>1 DEF ExFreePool
    <3>2. CASE ~Refuses(p)
      <4>1. /\ strayed' = (strayed \/ Coalesced(p).stray)
            /\ sunk' = sunk /\ ready' = ready
        BY <2>5, <3>2 DEF ExFreePool
      <4> QED BY <2>0, <4>1
    <3> QED BY <3>1, <3>2
  <2>6. CASE ~sunk /\ Call
    <3>1. CASE ExInitializePool
      <4>1. HeapExpand(MinChunk) /\ ready' = TRUE
        BY <3>1 DEF ExInitializePool
      <4> QED BY <2>3, <4>1
    <3>2. ASSUME NEW bytes \in Requests, NEW zeroed \in BOOLEAN, AllocateFromList(bytes, zeroed)
          PROVE  UNCHANGED <<ready, strayed, sunk>>
      BY <3>2 DEF AllocateFromList
    <3>3. ASSUME NEW bytes \in Requests, NEW zeroed \in BOOLEAN, AllocateAfterGrowth(bytes, zeroed)
          PROVE  /\ strayed' \in BOOLEAN /\ sunk' \in BOOLEAN /\ ready' = ready
                 /\ strayed => strayed'
                 /\ sunk => sunk'
      <4>1. HeapExpand(bytes) /\ ready' = ready
        BY <3>3 DEF AllocateAfterGrowth
      <4> QED BY <2>3, <4>1
    <3>4. ASSUME NEW bytes \in Requests, AllocateFails(bytes)
          PROVE  sunk' \in BOOLEAN /\ strayed' = strayed /\ ready' = ready
      BY <2>4, <3>4 DEF AllocateFails
    <3>5. CASE Free
      <4>1. PICK a \in live : ExFreePool(a.block)
        BY <3>5 DEF Free
      <4> QED BY <2>0, <2>5, <4>1
    <3>6. CASE FreeAgain
      <4>1. PICK p \in stale : ExFreePool(p)
        BY <3>6 DEF FreeAgain
      <4> QED BY <2>0, <2>5, <4>1
    <3>7. CASE Write
      BY <2>0, <3>7 DEF Write
    <3>8. ~sunk
      BY <2>6
    <3>9. CASE \E bytes \in Requests, zeroed \in BOOLEAN : AllocateFromList(bytes, zeroed)
      BY <2>0, <3>2, <3>9
    <3>10. CASE \E bytes \in Requests, zeroed \in BOOLEAN : AllocateAfterGrowth(bytes, zeroed)
      <4>1. PICK bytes \in Requests, zeroed \in BOOLEAN : AllocateAfterGrowth(bytes, zeroed)
        BY <3>10
      <4> QED BY <2>0, <3>3, <4>1
    <3>11. CASE \E bytes \in Requests : AllocateFails(bytes)
      <4>1. PICK bytes \in Requests : AllocateFails(bytes)
        BY <3>11
      <4>2. sunk' \in BOOLEAN /\ strayed' = strayed /\ ready' = ready
        BY <3>4, <4>1
      <4> QED BY <2>0, <3>8, <4>2
    <3>12. \/ ExInitializePool \/ Free \/ FreeAgain \/ Write
           \/ \E bytes \in Requests, zeroed \in BOOLEAN : AllocateFromList(bytes, zeroed)
           \/ \E bytes \in Requests, zeroed \in BOOLEAN : AllocateAfterGrowth(bytes, zeroed)
           \/ \E bytes \in Requests : AllocateFails(bytes)
      BY <2>6 DEF Call
    <3> QED BY <3>1, <3>5, <3>6, <3>7, <3>9, <3>10, <3>11, <3>12
  <2> QED BY <2>1, <2>2, <2>6 DEF Next
<1> SUFFICES ASSUME Sound' PROVE Good'
  BY <1>1 DEF HeapInv
<1>2. Sound /\ Good
  <2> HIDE DEF Good
  <2> QED BY <1>0, <1>1 DEF Sound
<1>f. ASSUME NEW m, NEW bs, NEW cs, NEW h, NEW limit, Kept(m, bs, cs, h, limit, live, stale),
             NEW bytes \in Requests, NEW b, b = FirstFit(m, h, bytes), b # Null
      PROVE  bytes \in Nat \ {0} /\ b \in bs /\ m[b].free /\ m[b].size >= bytes
  <2>1. Shape(m, bs, cs, h) /\ h \in bs \cup {Null}
    BY <1>f DEF Kept, Shape, Headed
  <2>2. FirstFit(m, h, bytes) \in {Null} \cup {x \in bs : m[x].free /\ m[x].size >= bytes}
    BY <2>1, FitFound
  <2>3. bytes \in Nat \ {0}
    BY CallersAssumption, HeapAssumption
  <2> QED BY <2>2, <2>3, <1>f
<1>3. ASSUME ExInitializePool PROVE Good'
  <2>1. MinChunk \in Nat /\ HeapExpand(MinChunk)
    BY <1>3, HeapAssumption DEF ExInitializePool
  <2>2. /\ Kept(AppendChunk(heapNext, ChunkBytes(MinChunk)), blocks \cup {heapNext}, chunks',
                head', heapNext', live, stale)
        /\ tail' \in Link
    BY <2>1, GrowKeeps
  <2> QED BY <2>2, <1>3 DEF ExInitializePool
<1>4. ASSUME NEW bytes \in Requests, NEW zeroed \in BOOLEAN, AllocateFromList(bytes, zeroed)
      PROVE  Good'
  <2> DEFINE b == FirstFit(mem, head, bytes)
  <2>1. b # Null /\ GiveTo(mem, blocks, b, bytes, zeroed)
        /\ UNCHANGED <<head, tail, heapNext, ready, chunks, strayed, sunk>>
    BY <1>4 DEF AllocateFromList
  <2>2. Kept(mem, blocks, chunks, head, heapNext, live, stale)
    BY <1>2
  <2> HIDE DEF b
  <2>3. bytes \in Nat \ {0} /\ b \in blocks /\ mem[b].free /\ mem[b].size >= bytes
    BY <2>1, <2>2, <1>f DEF b
  <2>4. Kept(mem', blocks', chunks, head, heapNext, live', stale')
    BY <2>1, <2>2, <2>3, GiveKeeps
  <2> QED BY <2>1, <2>4, <1>2
<1>5. ASSUME NEW bytes \in Requests, NEW zeroed \in BOOLEAN, AllocateAfterGrowth(bytes, zeroed)
      PROVE  Good'
  <2> DEFINE grown == AppendChunk(heapNext, ChunkBytes(bytes))
             among == blocks \cup {heapNext}
             b == FirstFit(grown, head', bytes)
  <2>1. /\ HeapExpand(bytes)
        /\ IF b # Null THEN GiveTo(grown, among, b, bytes, zeroed)
           ELSE mem' = grown /\ blocks' = among /\ UNCHANGED <<live, stale>>
    BY <1>5 DEF AllocateAfterGrowth
  <2>2. bytes \in Nat
    BY CallersAssumption, HeapAssumption
  <2>3. Kept(grown, among, chunks', head', heapNext', live, stale) /\ tail' \in Link
    BY <2>1, <2>2, GrowKeeps
  <2> HIDE DEF b, grown, among
  <2>4. CASE b # Null
    <3>1. bytes \in Nat \ {0} /\ b \in among /\ grown[b].free /\ grown[b].size >= bytes
      BY <2>3, <2>4, <1>f DEF b
    <3>2. Kept(mem', blocks', chunks', head', heapNext', live', stale')
      BY <3>1, <2>1, <2>3, <2>4, GiveKeeps
    <3> QED BY <3>2, <2>3
  <2>5. CASE b = Null
    BY <2>1, <2>3, <2>5
  <2> QED BY <2>4, <2>5
<1>6. ASSUME NEW bytes \in Requests, AllocateFails(bytes) PROVE Good'
  <2>1. bytes \in Nat
    BY CallersAssumption, HeapAssumption
  <2>2. /\ heapNext' = IF RoomFor(ChunkBytes(bytes)) THEN NextCursor(ChunkBytes(bytes)) ELSE heapNext
        /\ ~(heapNext' < heapNext)
        /\ UNCHANGED <<mem, head, tail, chunks, blocks, strayed, ready, live, stale>>
    BY <1>6 DEF AllocateFails, HeapExpandFails, Sound
  <2>3. heapNext \in Nat /\ heapNext <= HeapEnd
    BY <1>2 DEF Kept
  <2>4. heapNext' \in Nat /\ heapNext <= heapNext' /\ heapNext' <= HeapEnd
    <3>1. ChunkBytes(bytes) \in Nat
      BY <2>1, ChunkBytesTyped
    <3>2. NextCursor(ChunkBytes(bytes)) \in Nat
      BY <2>3, <3>1, CursorTyped
    <3> QED BY <2>2, <2>3, <3>2, Consts DEF RoomFor
  <2>5. Kept(mem, blocks, chunks, head, heapNext', live, stale)
    BY <1>2, <2>4, CursorKeeps
  <2> QED BY <2>2, <2>5, <1>2
<1>7. ASSUME Free PROVE Good'
  <2>1. PICK a \in live : /\ ExFreePool(a.block) /\ live' = live \ {a}
                          /\ stale' = stale \cup {a.block}
    BY <1>7 DEF Free
  <2>2. Kept(mem', blocks', chunks, head, heapNext, live', stale') /\ tail' \in Link
    BY <2>1, FreeKeeps
  <2> QED BY <2>1, <2>2 DEF ExFreePool
<1>8. ASSUME FreeAgain PROVE Good'
  <2>1. PICK p \in stale : ExFreePool(p) /\ UNCHANGED <<live, stale>>
    BY <1>8 DEF FreeAgain
  <2>2. Refuses(p)
    BY <1>2 DEF Kept, Spent, Refuses
  <2> QED BY <2>1, <2>2, <1>2 DEF ExFreePool
<1>9. ASSUME Write PROVE Good'
  <2>1. PICK a \in live, d \in Data :
          /\ d.at \in Payload(a)
          /\ mem' = [mem EXCEPT ![d.at] = d.as]
          /\ UNCHANGED <<head, tail, heapNext, ready, chunks, blocks, strayed, sunk, live, stale>>
    BY <1>9 DEF Write
  <2>2. /\ mem \in Memory /\ Shape(mem, blocks, chunks, head) /\ blocks \subseteq Address
        /\ Held(mem, blocks, live) /\ Spent(mem, live, stale) /\ stale \subseteq Address
        /\ \A x \in blocks : Coal(mem, x)
    BY <1>2 DEF Kept, Shape
  <2>3. d.at \in Address /\ d.as \in Header
    BY CallersAssumption
  <2>4. mem' \in Memory /\ \A x \in Address : x # d.at => mem'[x] = mem[x]
    BY <2>1, <2>2, <2>3 DEF Memory
  <2>5. /\ a.block \in blocks /\ a.block \in Nat /\ a.bytes \in Nat
        /\ mem[a.block].size \in Nat /\ mem[a.block].size >= a.bytes /\ Hdr = 1
    BY <2>2, Fields, Consts DEF Held, Grant
  <2>6. d.at \in Nat /\ a.block < d.at /\ d.at < End(mem, a.block)
        /\ End(mem, a.block) \in Nat /\ d.at \in Footprint(a)
    BY <2>1, <2>3, <2>5, Consts DEF Payload, Footprint, End
  <2>7. d.at \notin blocks
    <3>1. d.at \in blocks => End(mem, a.block) <= d.at
      BY <2>2, <2>5, <2>6 DEF Shape, Laid
    <3> QED BY <3>1, <2>6
  <2>8. \A x \in blocks : mem'[x] = mem[x]
    BY <2>2, <2>4, <2>7
  <2>9. /\ Shape(mem', blocks, chunks, head) /\ \A x \in blocks : Coal(mem', x)
        /\ Held(mem', blocks, live)
    BY <2>2, <2>4, <2>8, Framed
  <2>10. Spent(mem', live, stale)
    BY <2>2, <2>4, <2>6 DEF Spent
  <2> QED BY <2>1, <2>9, <2>10, <1>2 DEF Kept
<1>10. CASE UNCHANGED vars
  BY <1>2, <1>10 DEF vars
<1>11. CASE Beyond
  BY <1>10, <1>11 DEF Beyond
<1> QED BY <1>3, <1>4, <1>5, <1>6, <1>7, <1>8, <1>9, <1>10, <1>11 DEF Next, Call

-----------------------------------------------------------------------------
(* What the invariant gives.                                               *)
LEMMA Lies ==
  ASSUME Kept(mem, blocks, chunks, head, heapNext, live, stale), NEW a \in live
  PROVE  /\ a.block \in blocks /\ a.block \in Nat /\ a.bytes \in Nat
         /\ Footprint(a) \subseteq a.block .. (End(mem, a.block) - 1)
         /\ End(mem, a.block) \in Nat
<1>1. /\ a.block \in blocks /\ a.block \in Nat /\ a.bytes \in Nat
      /\ mem[a.block].size \in Nat /\ mem[a.block].size >= a.bytes /\ Hdr = 1
  BY Fields, Consts DEF Kept, Shape, Held, Grant
<1>2. End(mem, a.block) = a.block + 1 + mem[a.block].size
  BY <1>1 DEF End
<1>3. Footprint(a) = a.block .. (a.block + 1 + a.bytes - 1)
  BY <1>1 DEF Footprint
<1> QED BY <1>1, <1>2, <1>3

LEMMA KeptTyped == HeapInv => TypeOK
<1> SUFFICES ASSUME HeapInv PROVE TypeOK
  OBVIOUS
<1>1. CASE ~Sound
  BY <1>1 DEF HeapInv, TypeOK
<1>2. CASE Sound
  <2>1. Kept(mem, blocks, chunks, head, heapNext, live, stale) /\ tail \in Link
    BY <1>2 DEF HeapInv
  <2>2. /\ Shape(mem, blocks, chunks, head) /\ Chunked(chunks, heapNext) /\ heapNext \in Nat
        /\ heapNext <= HeapEnd /\ HeapBase <= heapNext /\ stale \subseteq Address
    BY <2>1 DEF Kept
  <2>3. ASSUME NEW c \in chunks PROVE Extent(c) \subseteq Address
    <3>1. c.base \in Nat /\ c.bytes \in Nat
      BY <2>2 DEF Chunked, Chunk
    <3> QED BY <2>2, <3>1, ChunkInWindow DEF Extent
  <2>4. ASSUME NEW a \in live PROVE Footprint(a) \subseteq Address
    <3>1. \A x \in Int : a.block <= x /\ x < End(mem, a.block) => x \in Address
      BY <2>1, <2>2, Lies, BlockInWindow
    <3> QED BY <3>1, <2>1, Lies
  <2>5. heapNext \in HeapBase .. HeapEnd /\ mem \in [Address -> Header] /\ blocks \subseteq Address
    BY <2>2, Consts DEF Shape, Memory
  <2>6. head \in Link
    BY <2>2 DEF Shape, Headed, Link
  <2> QED BY <1>2, <2>1, <2>2, <2>3, <2>4, <2>5, <2>6 DEF HeapInv, TypeOK
<1> QED BY <1>1, <1>2 DEF HeapInv

LEMMA BlocksApart ==
  ASSUME Kept(mem, blocks, chunks, head, heapNext, live, stale),
         NEW x \in blocks, NEW y \in blocks, x # y
  PROVE  (x .. (End(mem, x) - 1)) \cap (y .. (End(mem, y) - 1)) = {}
<1>1. x \in Nat /\ y \in Nat /\ End(mem, x) \in Nat /\ End(mem, y) \in Nat
  BY BlockInWindow DEF Kept
<1>2. (x < y => End(mem, x) <= y) /\ (y < x => End(mem, y) <= x)
  BY DEF Kept, Shape, Laid
<1> QED BY <1>1, <1>2

LEMMA KeptDisjoint == HeapInv => LiveDisjoint
<1> SUFFICES ASSUME HeapInv, Sound, NEW a \in live, NEW c \in live, a # c
             PROVE  Footprint(a) \cap Footprint(c) = {}
  BY DEF LiveDisjoint
<1>1. Kept(mem, blocks, chunks, head, heapNext, live, stale)
  BY DEF HeapInv
<1>2. a.block # c.block
  BY <1>1 DEF Kept, Held
<1> QED BY <1>1, <1>2, Lies, BlocksApart

LEMMA KeptInsideChunk == HeapInv => LiveInsideChunk
<1> SUFFICES ASSUME HeapInv, Sound, NEW a \in live
             PROVE  \E c \in chunks : Footprint(a) \subseteq Extent(c)
  BY DEF LiveInsideChunk
<1>1. Kept(mem, blocks, chunks, head, heapNext, live, stale)
  BY DEF HeapInv
<1>2. PICK c \in chunks : c.base <= a.block /\ End(mem, a.block) <= c.base + c.bytes
  BY <1>1, Lies DEF Kept, Shape, Laid, Inside
<1>3. c.base \in Nat /\ c.bytes \in Nat
  BY <1>1 DEF Kept, Chunked, Chunk
<1> QED BY <1>1, <1>2, <1>3, Lies DEF Extent

LEMMA KeptListed == HeapInv => ListedFreeIsUnused
<1> SUFFICES ASSUME HeapInv, Sound, NEW b \in Listed, NEW a \in live, mem[b].free
             PROVE  Footprint(Block(b)) \cap Footprint(a) = {}
  BY DEF ListedFreeIsUnused
<1>1. Kept(mem, blocks, chunks, head, heapNext, live, stale)
  BY DEF HeapInv
<1>2. b \in blocks
  BY <1>1, ListedAreBlocks DEF Kept
<1>3. b # a.block
  BY <1>1 DEF Kept, Held
<1>4. Footprint(Block(b)) = b .. (End(mem, b) - 1)
  <2>1. Block(b).block = b /\ Block(b).bytes = mem[b].size
    BY DEF Block
  <2>2. b \in Nat /\ mem[b].size \in Nat /\ Hdr = 1
    BY <1>1, <1>2, Fields, Consts DEF Kept, Shape
  <2>3. Footprint(Block(b)) = b .. (b + Hdr + mem[b].size - 1)
    BY <2>1 DEF Footprint
  <2> QED BY <2>2, <2>3 DEF End
<1> QED BY <1>1, <1>2, <1>3, <1>4, Lies, BlocksApart

-----------------------------------------------------------------------------
(* The invariant of the calls holds, whatever is asked for and written, as *)
(* every theorem below: while the pool has followed no link to no block    *)
(* and no request has wrapped the cursor of its window.                    *)
THEOREM InvHolds == Spec => []HeapInv
<1> QED BY InitInv, NextInv, PTL DEF Spec

(* Memory, links, chunks, allocations and freed pointers keep their types  *)
(* and lie in the window (Heap.C, VMM.C:69-82).                            *)
THEOREM HeapTyped == Spec => []TypeOK
<1> QED BY InvHolds, KeptTyped, PTL

(* Two allocations never share an address (Heap.C:111-152, 201-254).       *)
THEOREM AllocationsDisjoint == Spec => []LiveDisjoint
<1> QED BY InvHolds, KeptDisjoint, PTL

(* An allocation lies inside one chunk (Heap.C:222-254).                   *)
THEOREM AllocationsInsideChunks == Spec => []LiveInsideChunk
<1> QED BY InvHolds, KeptInsideChunk, PTL

(* A correct ExFreePool is never refused (Heap.C:208-218).                 *)
THEOREM AllocationsKeepHeaders == Spec => []LiveHeaderIntact
<1>1. HeapInv => LiveHeaderIntact
  BY DEF HeapInv, Kept, Shape, Laid, Held, LiveHeaderIntact
<1> QED BY InvHolds, <1>1, PTL

(* What the next call may hand out is nobody's (Heap.C:111-121).           *)
THEOREM FreeBlocksUnused == Spec => []ListedFreeIsUnused
<1> QED BY InvHolds, KeptListed, PTL

(* Every order of frees leaves the list coalesced (Heap.C:222-254).        *)
THEOREM ListStaysCoalesced == Spec => []ListCoalesced
<1>1. HeapInv => ListCoalesced
  BY ListedAreBlocks DEF HeapInv, Kept, ListCoalesced, Coal
<1> QED BY InvHolds, <1>1, PTL

(* A second ExFreePool of the same pointer is refused (Heap.C:208-218).    *)
THEOREM SecondFreeRefused == Spec => []DoubleFreeRefused
<1>1. HeapInv => DoubleFreeRefused
  BY DEF HeapInv, Kept, Spent, DoubleFreeRefused
<1> QED BY InvHolds, <1>1, PTL

(* What Heap.C:67-69 relies on: a fresh chunk is above every other.        *)
THEOREM FreshIsAbove == Spec => [](Sound => FreshChunkAbove)
<1>1. HeapInv => (Sound => FreshChunkAbove)
  <2> SUFFICES ASSUME HeapInv, Sound, NEW c \in chunks PROVE c.base + c.bytes <= heapNext
    BY DEF FreshChunkAbove
  <2>1. Chunked(chunks, heapNext) /\ heapNext \in Nat
    BY DEF HeapInv, Kept
  <2>2. c.base \in Nat /\ c.bytes \in Nat /\ c.base + c.bytes + PageSize <= heapNext
    BY <2>1 DEF Chunked, Chunk
  <2> QED BY <2>1, <2>2, Consts
<1> QED BY InvHolds, <1>1, PTL

(* Only a request whose span reaches from the end of the window beyond the *)
(* last address can wrap the cursor: a pool that is asked for less, or for *)
(* so much that the size of the chunk wraps first, never loses it          *)
(* (VMM.C:69-82).                                                          *)
THEOREM PlainRequestsNeverSink ==
  ASSUME \A bytes \in Requests : HeapEnd + ChunkBytes(bytes) + PageSize < Word
  PROVE  Spec => []~sunk
<1> DEFINE Inv == ~sunk /\ heapNext \in Nat /\ heapNext <= HeapEnd
<1>1. Init => Inv
  BY HeapAssumption DEF Init
<1>2. ASSUME Inv, [Next]_vars PROVE Inv'
  <2>p. ASSUME NEW bytes \in Nat, HeapEnd + bytes + PageSize < Word
        PROVE  NextCursor(bytes) = heapNext + bytes + PageSize
    BY <1>2, <2>p, PlainCursor
  <2>1. ASSUME NEW min \in Nat, HeapExpand(min) PROVE Inv'
    <3>1. /\ ChunkBytes(min) <= Backing /\ heapNext' = NextCursor(ChunkBytes(min))
          /\ RoomFor(ChunkBytes(min)) /\ sunk' = sunk
      BY <2>1 DEF HeapExpand
    <3>2. ChunkBytes(min) \in Nat
      BY ChunkBytesTyped
    <3>3. HeapEnd + ChunkBytes(min) + PageSize < Word
      BY <3>1, <3>2, Consts
    <3>4. heapNext' = heapNext + ChunkBytes(min) + PageSize
      BY <2>p, <3>1, <3>2, <3>3
    <3> QED BY <1>2, <3>1, <3>2, <3>4, Consts DEF RoomFor
  <2>2. ASSUME NEW bytes \in Requests, HeapExpandFails(bytes) PROVE Inv'
    <3>1. bytes \in Nat
      BY CallersAssumption, HeapAssumption
    <3>2. ChunkBytes(bytes) \in Nat /\ HeapEnd + ChunkBytes(bytes) + PageSize < Word
      BY <3>1, ChunkBytesTyped
    <3>3. NextCursor(ChunkBytes(bytes)) = heapNext + ChunkBytes(bytes) + PageSize
      BY <2>p, <3>2
    <3>4. /\ heapNext' = IF RoomFor(ChunkBytes(bytes)) THEN NextCursor(ChunkBytes(bytes)) ELSE heapNext
          /\ sunk' = (heapNext' < heapNext)
      BY <2>2 DEF HeapExpandFails
    <3>5. CASE RoomFor(ChunkBytes(bytes))
      <4>1. heapNext' = heapNext + ChunkBytes(bytes) + PageSize
        BY <3>3, <3>4, <3>5
      <4>2. heapNext' < HeapEnd
        BY <3>4, <3>5 DEF RoomFor
      <4>3. ~(heapNext' < heapNext)
        BY <1>2, <3>2, <4>1, Consts
      <4>4. heapNext' \in Nat /\ heapNext' <= HeapEnd
        BY <1>2, <3>2, <4>1, <4>2, Consts
      <4> QED BY <3>4, <4>3, <4>4
    <3>6. CASE ~RoomFor(ChunkBytes(bytes))
      <4>1. heapNext' = heapNext
        BY <3>4, <3>6
      <4>2. ~(heapNext' < heapNext)
        BY <1>2, <4>1
      <4> QED BY <1>2, <3>4, <4>1, <4>2
    <3> QED BY <3>5, <3>6
  <2>3. MinChunk \in Nat /\ \A bytes \in Requests : bytes \in Nat
    BY CallersAssumption, HeapAssumption
  <2>4. CASE ExInitializePool
    BY <2>1, <2>3, <2>4 DEF ExInitializePool
  <2>5. ASSUME NEW bytes \in Requests, NEW zeroed \in BOOLEAN, AllocateAfterGrowth(bytes, zeroed)
        PROVE  Inv'
    BY <2>1, <2>3, <2>5 DEF AllocateAfterGrowth
  <2>6. ASSUME NEW bytes \in Requests, AllocateFails(bytes) PROVE Inv'
    BY <2>2, <2>6 DEF AllocateFails
  <2>7. ASSUME NEW bytes \in Requests, NEW zeroed \in BOOLEAN, AllocateFromList(bytes, zeroed)
        PROVE  Inv'
    BY <1>2, <2>7 DEF AllocateFromList
  <2>8. CASE Free \/ FreeAgain \/ Write \/ Beyond \/ UNCHANGED vars
    BY <1>2, <2>8 DEF Free, FreeAgain, Write, Beyond, ExFreePool, vars
  <2> HIDE DEF Inv
  <2> QED BY <1>2, <2>4, <2>5, <2>6, <2>7, <2>8 DEF Next, Call
<1>3. Inv => ~sunk
  OBVIOUS
<1> HIDE DEF Inv
<1> QED BY <1>1, <1>2, <1>3, PTL DEF Spec
=============================================================================

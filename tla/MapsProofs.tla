----------------------------- MODULE MapsProofs -----------------------------
(***************************************************************************)
(* For every number of pages, keys, buckets and values: the cache holds    *)
(* the pages used last, the keys of bi_map agree and keep their values,    *)
(* and the map of buckets changes the pairs it is told to.                 *)
(***************************************************************************)
EXTENDS Owners, FiniteSetTheorems, TLAPS

-----------------------------------------------------------------------------
(* Sequences *)

\* An element in front of a sequence.
LEMMA InFront ==
    ASSUME NEW T, NEW s \in Seq(T), NEW x \in T, NEW r, r = <<x>> \o s
    PROVE  /\ r \in Seq(T) /\ Len(r) = Len(s) + 1 /\ r[1] = x
           /\ \A i \in 2 .. Len(r) : r[i] = s[i - 1]
OBVIOUS

\* RemoveAt closes the gap.
IsRemoved(r, s, k) ==
    /\ Len(r) = Len(s) - 1
    /\ \A i \in 1 .. Len(r) : r[i] = IF i < k THEN s[i] ELSE s[i + 1]
LEMMA Removed ==
    ASSUME NEW T, NEW s \in Seq(T), NEW k \in DOMAIN s, NEW r, r = Map!RemoveAt(s, k)
    PROVE  r \in Seq(T) /\ IsRemoved(r, s, k)
<1> DEFINE a == SubSeq(s, 1, k - 1)
           b == SubSeq(s, k + 1, Len(s))
<1>1. k \in 1 .. Len(s) /\ Len(s) \in Nat
  OBVIOUS
<1>2. a \in Seq(T) /\ Len(a) = k - 1 /\ \A i \in 1 .. k - 1 : a[i] = s[i]
  BY <1>1
<1>3. b \in Seq(T) /\ Len(b) = Len(s) - k /\ \A i \in 1 .. Len(s) - k : b[i] = s[k + i]
  BY <1>1
<1>4. r = a \o b
  BY DEF Map!RemoveAt
<1> HIDE DEF a, b
<1>5. r \in Seq(T) /\ Len(r) = Len(s) - 1
  BY <1>1, <1>2, <1>3, <1>4
<1>6. ASSUME NEW i \in 1 .. Len(r) PROVE r[i] = IF i < k THEN s[i] ELSE s[i + 1]
  <2>1. i \in 1 .. Len(a) + Len(b)
    BY <1>1, <1>2, <1>3, <1>5
  <2>2. CASE i < k
    <3>1. i \in 1 .. Len(a)
      BY <1>1, <1>2, <2>1, <2>2
    <3>2. (a \o b)[i] = a[i]
      BY <1>2, <1>3, <2>1, <3>1
    <3>3. QED  BY <1>1, <1>2, <1>4, <2>2, <3>1, <3>2
  <2>3. CASE i >= k
    <3>1. i - Len(a) \in 1 .. Len(s) - k /\ ~(i <= Len(a)) /\ k + (i - Len(a)) = i + 1
      BY <1>1, <1>2, <1>5, <2>3
    <3>2. (a \o b)[i] = b[i - Len(a)]
      BY <1>2, <1>3, <2>1, <3>1
    <3>3. QED  BY <1>1, <1>3, <1>4, <2>3, <3>1, <3>2
  <2>4. QED  BY <1>1, <2>2, <2>3
<1>7. QED  BY <1>5, <1>6 DEF IsRemoved

\* An element that is moved to the front: those before it go one place back.
IsMovedFront(r, s, k, x) ==
    /\ Len(r) = Len(s) /\ r[1] = x
    /\ \A i \in 2 .. Len(r) : r[i] = IF i <= k THEN s[i - 1] ELSE s[i]
LEMMA MovedFront ==
    ASSUME NEW T, NEW s \in Seq(T), NEW k \in DOMAIN s, NEW x \in T,
           NEW r, r = <<x>> \o Map!RemoveAt(s, k)
    PROVE  r \in Seq(T) /\ IsMovedFront(r, s, k, x)
<1> DEFINE q == Map!RemoveAt(s, k)
<1>1. /\ q \in Seq(T) /\ Len(q) = Len(s) - 1
      /\ \A i \in 1 .. Len(q) : q[i] = IF i < k THEN s[i] ELSE s[i + 1]
  BY Removed DEF IsRemoved
<1>2. r = <<x>> \o q
  OBVIOUS
<1> HIDE DEF q
<1>3. /\ r \in Seq(T) /\ Len(r) = Len(q) + 1 /\ r[1] = x
      /\ \A i \in 2 .. Len(r) : r[i] = q[i - 1]
  <2>1. q \in Seq(T) /\ x \in T /\ r = <<x>> \o q
    BY <1>1, <1>2
  <2>2. QED  BY ONLY <2>1, InFront
<1>4. Len(s) \in Nat /\ k \in 1 .. Len(s)
  OBVIOUS
<1>5. ASSUME NEW i \in 2 .. Len(r) PROVE r[i] = IF i <= k THEN s[i - 1] ELSE s[i]
  <2>1. i - 1 \in 1 .. Len(q) /\ (i - 1) + 1 = i /\ (i - 1 < k <=> i <= k)
    BY <1>1, <1>3, <1>4
  <2>2. r[i] = q[i - 1]
    BY <1>3
  <2>3. QED  BY <1>1, <2>1, <2>2
<1>6. QED  BY <1>1, <1>3, <1>4, <1>5 DEF IsMovedFront

Injective(s) == \A i, j \in DOMAIN s : s[i] = s[j] => i = j

\* RemoveFirst of an element that is at one place only.
LEMMA RemovedFirst ==
    ASSUME NEW T, NEW s \in Seq(T), Injective(s), NEW k \in DOMAIN s
    PROVE  Map!RemoveFirst(s, s[k]) = Map!RemoveAt(s, k)
<1>1. {i \in 1 .. Len(s) : s[i] = s[k]} = {k}
  BY DEF Injective
<1>2. Map!Min({k}) = k
  BY DEF Map!Min
<1>3. Map!SelectInSeq(s, LAMBDA v : v = s[k]) = k
  BY <1>1, <1>2 DEF Map!SelectInSeq
<1>4. \E i \in 1 .. Len(s) : s[i] = s[k]
  OBVIOUS
<1>5. QED  BY <1>3, <1>4 DEF Map!RemoveFirst

-----------------------------------------------------------------------------
(* lru_cache *)

\* Of cache c, map a and the pages o referred to, the last one first: nodes
\* are apart, the map has the cell of each, and their pages are the first
\* cache_size of o.
LruNodes == [cell : Cells, page : Pages]
LruCells(c) == {c[i].cell : i \in DOMAIN c}
LruList(c) ==
    /\ c \in Seq(LruNodes)
    /\ \A i, j \in DOMAIN c : c[i].cell = c[j].cell => i = j
LruOrder(c, o) ==
    /\ o \in Seq(Pages) /\ Injective(o)
    /\ Len(c) = IF Len(o) < cache_size THEN Len(o) ELSE cache_size
    /\ \A i \in DOMAIN c : c[i].page = o[i]
LruIndex(c, a) ==
    /\ DOMAIN a = {c[i].page : i \in DOMAIN c}
    /\ \A i \in DOMAIN c : a[c[i].page] = c[i].cell
LruInv ==
    /\ obj = [at |-> obj.at, order |-> obj.order]
    /\ LruList(heap) /\ LruOrder(heap, obj.order) /\ LruIndex(heap, obj.at)

\* The cache is empty at first.
LEMMA LruInvInit == Map!LruInit => LruInv
<1> SUFFICES ASSUME Map!LruInit PROVE LruInv
  OBVIOUS
<1>1. heap = <<>> /\ obj = [at |-> <<>>, order |-> <<>>] /\ cache_size \in Nat
  BY OwnersAssumption DEF Map!LruInit
<1>2. LruList(heap)
  BY <1>1 DEF LruList
<1>3. LruOrder(heap, obj.order)
  BY <1>1, OwnersAssumption DEF LruOrder, Injective
<1>4. LruIndex(heap, obj.at)
  BY <1>1 DEF LruIndex
<1>5. QED  BY <1>1, <1>2, <1>3, <1>4 DEF LruInv

\* There is a cell for one more node, and it is given.
LEMMA LruFresh ==
    ASSUME NEW c, LruList(c), Len(c) < cache_size
    PROVE  Map!Fresh(Map!CellsOf(c)) \in Cells \ LruCells(c)
<1> DEFINE f == [i \in 1 .. Len(c) |-> c[i].cell]
           S == LruCells(c)
<1>1. c \in Seq(LruNodes) /\ Len(c) \in Nat /\ DOMAIN c = 1 .. Len(c) /\ \A i \in DOMAIN c : c[i].cell \in Cells
  <2>1. c \in Seq(LruNodes)
    BY DEF LruList
  <2>2. \A i \in DOMAIN c : c[i] \in LruNodes
    BY <2>1
  <2>3. \A n \in LruNodes : n.cell \in Cells
    BY DEF LruNodes
  <2>4. QED  BY <2>1, <2>2, <2>3
<1>2. f \in Surjection(1 .. Len(c), S)
  BY <1>1 DEF Surjection, LruCells
<1>3. IsFiniteSet(1 .. Len(c)) /\ Cardinality(1 .. Len(c)) = Len(c)
  <2>1. Len(c) \in Int /\ 1 \in Int /\ (1 > Len(c) => Len(c) = 0) /\ Len(c) - 1 + 1 = Len(c)
    BY <1>1
  <2>2. IsFiniteSet(1 .. Len(c)) /\ Cardinality(1 .. Len(c)) = IF 1 > Len(c) THEN 0 ELSE Len(c) - 1 + 1
    BY ONLY <2>1, FS_Interval
  <2>3. QED  BY <2>1, <2>2
<1>4. IsFiniteSet(S) /\ Cardinality(S) <= Len(c)
  BY <1>2, <1>3, FS_Surjection
<1>5. S \subseteq Cells
  BY <1>1 DEF LruCells
<1>6. S # Cells
  BY <1>1, <1>4, OwnersAssumption, FS_CardinalityType
<1>7. DOMAIN Map!CellsOf(c) = S
  BY DEF Map!CellsOf, LruCells
<1>8. QED  BY <1>5, <1>6, <1>7 DEF Map!Fresh

\* What was referred to before goes back one place, as far as the last time.
IsRecent(o, s, k, page) ==
    /\ k <= Len(s) => s[k] = page /\ Len(o) = Len(s)
    /\ k = Len(s) + 1 => Len(o) = Len(s) + 1 /\ \A i \in DOMAIN s : s[i] # page
    /\ \A i \in 2 .. Len(o) : o[i] = IF i <= k THEN s[i - 1] ELSE s[i]
LEMMA LruRecent ==
    ASSUME NEW page \in Pages, obj.order \in Seq(Pages), Injective(obj.order),
           NEW o, o = Map!Recent(page)
    PROVE  /\ o \in Seq(Pages) /\ Injective(o) /\ o[1] = page
           /\ \E k \in 1 .. Len(obj.order) + 1 : IsRecent(o, obj.order, k, page)
<1> DEFINE s == obj.order
<1>0. s \in Seq(Pages) /\ Injective(s) /\ Len(s) \in Nat /\ DOMAIN s = 1 .. Len(s)
  OBVIOUS
<1>1. o = <<page>> \o Map!RemoveFirst(s, page)
  BY DEF Map!Recent
<1> HIDE DEF s
<1>2. CASE \E k \in DOMAIN s : s[k] = page
  <2>1. PICK k \in DOMAIN s : s[k] = page
    BY <1>2
  <2>2. o = <<page>> \o Map!RemoveAt(s, k)
    BY <1>0, <1>1, <2>1, RemovedFirst
  <2>3. /\ o \in Seq(Pages) /\ Len(o) = Len(s) /\ o[1] = page
        /\ \A i \in 2 .. Len(o) : o[i] = IF i <= k THEN s[i - 1] ELSE s[i]
    <3>1. o \in Seq(Pages) /\ IsMovedFront(o, s, k, page)
      BY <1>0, <2>2, MovedFront
    <3>2. QED  BY <3>1 DEF IsMovedFront
  <2>4. Injective(o)
    <3> SUFFICES ASSUME NEW i \in DOMAIN o, NEW j \in DOMAIN o, o[i] = o[j], i < j PROVE FALSE
      BY <2>3 DEF Injective
    <3> DEFINE g(n) == IF n = 1 THEN k ELSE IF n <= k THEN n - 1 ELSE n
    <3>1. i \in 1 .. Len(s) /\ j \in 2 .. Len(s) /\ k \in 1 .. Len(s)
      BY <1>0, <2>3
    <3>2. o[i] = s[g(i)] /\ o[j] = s[g(j)]
      BY <1>0, <2>1, <2>3, <3>1
    <3>3. g(i) \in 1 .. Len(s) /\ g(j) \in 1 .. Len(s) /\ g(i) # g(j)
      BY <1>0, <3>1
    <3>4. QED  BY <1>0, <3>2, <3>3 DEF Injective
  <2>5. k \in 1 .. Len(s) + 1 /\ IsRecent(o, s, k, page)
    <3>1. k \in 1 .. Len(s) + 1 /\ k <= Len(s) /\ k # Len(s) + 1
      BY <1>0
    <3>2. QED  BY <2>1, <2>3, <3>1 DEF IsRecent
  <2>6. QED  BY <2>3, <2>4, <2>5 DEF s
<1>3. CASE \A k \in DOMAIN s : s[k] # page
  <2>1. o = <<page>> \o s
    BY <1>0, <1>1, <1>3 DEF Map!RemoveFirst
  <2>2. /\ o \in Seq(Pages) /\ Len(o) = Len(s) + 1 /\ o[1] = page
        /\ \A i \in 2 .. Len(o) : o[i] = s[i - 1]
    BY <1>0, <2>1, InFront
  <2>3. Injective(o)
    <3> SUFFICES ASSUME NEW i \in DOMAIN o, NEW j \in DOMAIN o, o[i] = o[j], i < j PROVE FALSE
      BY <2>2 DEF Injective
    <3>1. i \in 1 .. Len(s) + 1 /\ j \in 2 .. Len(s) + 1 /\ o[j] = s[j - 1] /\ j - 1 \in DOMAIN s
      BY <1>0, <2>2
    <3>2. CASE i = 1
      BY <1>3, <2>2, <3>1, <3>2
    <3>3. CASE i # 1
      <4>1. o[i] = s[i - 1] /\ i - 1 \in DOMAIN s /\ i - 1 # j - 1
        <5>1. i \in 2 .. Len(o) /\ i - 1 \in 1 .. Len(s) /\ i - 1 # j - 1
          BY <1>0, <2>2, <3>1, <3>3
        <5>2. QED  BY <1>0, <2>2, <5>1
      <4>2. QED  BY <1>0, <3>1, <4>1 DEF Injective
    <3>4. QED  BY <3>2, <3>3
  <2>4. Len(s) + 1 \in 1 .. Len(s) + 1 /\ \A i \in 2 .. Len(o) : i <= Len(s) + 1
    BY <1>0, <2>2
  <2>5. IsRecent(o, s, Len(s) + 1, page)
    <3>1. ~(Len(s) + 1 <= Len(s))
      BY <1>0
    <3>2. QED  BY <1>3, <2>2, <2>4, <3>1 DEF IsRecent
  <2>6. QED  BY <2>2, <2>3, <2>4, <2>5 DEF s
<1>4. QED  BY <1>2, <1>3

\* Of the map, the entries for D are kept and page is at x.
LruEntry(a, D, page, x) ==
    DOMAIN a = D \cup {page} /\ a[page] = x /\ \A p \in D \ {page} : a[p] = obj.at[p]

\* A page in the cache: its node, or another in its place, comes to the front.
LEMMA LruMoved ==
    ASSUME LruInv, NEW k \in DOMAIN heap, NEW page, page = heap[k].page,
           NEW x \in Cells, x = heap[k].cell \/ x \notin LruCells(heap),
           NEW c, c = <<[cell |-> x, page |-> page]>> \o Map!RemoveAt(heap, k),
           NEW a, LruEntry(a, DOMAIN obj.at, page, x),
           NEW o, o = Map!Recent(page)
    PROVE  LruList(c) /\ LruOrder(c, o) /\ LruIndex(c, a)
<1> DEFINE s == obj.order
           n == Len(heap)
           node == [cell |-> x, page |-> page]
<1>1. /\ heap \in Seq(LruNodes) /\ n \in Nat /\ k \in 1 .. n /\ DOMAIN heap = 1 .. n
      /\ s \in Seq(Pages) /\ Len(s) \in Nat /\ Injective(s) /\ n <= Len(s)
      /\ n = IF Len(s) < cache_size THEN Len(s) ELSE cache_size
      /\ \A i \in 1 .. n : heap[i].page = s[i]
      /\ \A i, j \in 1 .. n : heap[i].cell = heap[j].cell => i = j
  <2>1. LruList(heap) /\ LruOrder(heap, s)
    BY DEF LruInv
  <2>2. heap \in Seq(LruNodes) /\ n \in Nat /\ k \in 1 .. n /\ DOMAIN heap = 1 .. n
    BY <2>1 DEF LruList
  <2>3. s \in Seq(Pages) /\ Len(s) \in Nat /\ Injective(s)
    BY <2>1 DEF LruOrder
  <2>4. n = IF Len(s) < cache_size THEN Len(s) ELSE cache_size
    BY <2>1 DEF LruOrder
  <2>5. n <= Len(s)
    BY <2>3, <2>4, OwnersAssumption
  <2>6. QED  BY <2>1, <2>2, <2>3, <2>4, <2>5 DEF LruOrder, LruList
<1>2. page \in Pages /\ node \in LruNodes /\ page = s[k]
  BY <1>1 DEF LruNodes
<1>3. /\ c \in Seq(LruNodes) /\ Len(c) = n /\ c[1] = node
      /\ \A i \in 2 .. Len(c) : c[i] = IF i <= k THEN heap[i - 1] ELSE heap[i]
  <2>1. heap \in Seq(LruNodes) /\ node \in LruNodes /\ c = <<node>> \o Map!RemoveAt(heap, k)
    BY <1>1, <1>2
  <2> HIDE DEF node
  <2>2. c \in Seq(LruNodes) /\ IsMovedFront(c, heap, k, node)
    BY <2>1, MovedFront
  <2>3. QED  BY <2>2 DEF IsMovedFront
<1>4. /\ o \in Seq(Pages) /\ Injective(o) /\ o[1] = page /\ Len(o) = Len(s)
      /\ \A i \in 2 .. Len(o) : o[i] = IF i <= k THEN s[i - 1] ELSE s[i]
  <2>1. /\ o \in Seq(Pages) /\ Injective(o) /\ o[1] = page
        /\ \E l \in 1 .. Len(s) + 1 : IsRecent(o, s, l, page)
    BY <1>1, <1>2, LruRecent
  <2> HIDE DEF s
  <2>2. PICK l \in 1 .. Len(s) + 1 : IsRecent(o, s, l, page)
    BY <2>1
  <2>3. k \in DOMAIN s
    BY <1>1
  <2>4. l <= Len(s) /\ l \in DOMAIN s
    <3>1. l # Len(s) + 1
      BY <1>2, <2>2, <2>3 DEF IsRecent
    <3>2. QED  BY <1>1, <3>1
  <2>5. l = k
    BY <1>1, <1>2, <2>2, <2>3, <2>4 DEF Injective, IsRecent
  <2>6. QED  BY <2>1, <2>2, <2>4, <2>5 DEF IsRecent
<1> DEFINE g(i) == IF i = 1 THEN k ELSE IF i <= k THEN i - 1 ELSE i
<1>5. \A i \in 1 .. n : g(i) \in 1 .. n /\ (i # 1 => g(i) # k)
  BY <1>1
<1>6. \A i \in 2 .. n : i \in 1 .. n /\ i # 1 /\ c[i] = heap[g(i)] /\ o[i] = s[g(i)]
  BY <1>1, <1>3, <1>4
<1>7. \A i, j \in 1 .. n : g(i) = g(j) => i = j
  BY <1>1
<1>8. \A j \in 1 .. n : \E i \in 1 .. n : g(i) = j
  <2> SUFFICES ASSUME NEW j \in 1 .. n PROVE \E i \in 1 .. n : g(i) = j
    OBVIOUS
  <2>1. CASE j = k
    <3>1. 1 \in 1 .. n /\ g(1) = j  BY <1>1, <2>1
    <3>2. QED  BY <3>1
  <2>2. CASE j < k
    <3>1. j + 1 \in 1 .. n /\ g(j + 1) = j  BY <1>1, <2>2
    <3>2. QED  BY <3>1
  <2>3. CASE j > k
    <3>1. g(j) = j  BY <1>1, <2>3
    <3>2. QED  BY <3>1
  <2>4. j = k \/ j < k \/ j > k
    BY <1>1
  <2>5. QED  BY <2>1, <2>2, <2>3, <2>4
<1>9. node.cell = x /\ node.page = page /\ page = heap[k].page
  OBVIOUS
<1>10. \A i \in 1 .. n : c[i].page = heap[g(i)].page
  BY <1>1, <1>3, <1>6, <1>9
<1> HIDE DEF g, node, s, n
<1>11. \A i \in 2 .. n : c[i].cell = heap[g(i)].cell /\ c[i].cell # x
  <2> SUFFICES ASSUME NEW i \in 2 .. n PROVE c[i].cell = heap[g(i)].cell /\ c[i].cell # x
    OBVIOUS
  <2>1. c[i] = heap[g(i)] /\ g(i) \in 1 .. n /\ g(i) # k
    BY <1>5, <1>6
  <2>2. heap[g(i)].cell # heap[k].cell
    BY <1>1, <2>1
  <2>3. heap[g(i)].cell \in LruCells(heap)
    BY <1>1, <2>1 DEF LruCells
  <2>4. QED  BY <2>1, <2>2, <2>3
<1>12. DOMAIN c = 1 .. n
  BY <1>1, <1>3
<1>13. LruList(c)
  <2> SUFFICES ASSUME NEW i \in 1 .. n, NEW j \in 1 .. n, c[i].cell = c[j].cell PROVE i = j
    BY <1>3, <1>12 DEF LruList
  <2>1. CASE i = 1 \/ j = 1
    BY <1>1, <1>3, <1>9, <1>11, <2>1
  <2>2. CASE i # 1 /\ j # 1
    <3>1. i \in 2 .. n /\ j \in 2 .. n
      BY <1>1, <2>2
    <3>2. heap[g(i)].cell = heap[g(j)].cell
      BY <1>11, <3>1
    <3>3. g(i) = g(j)
      BY <1>1, <1>5, <3>2
    <3>4. QED  BY <1>7, <3>3
  <2>3. QED  BY <2>1, <2>2
<1>14. LruOrder(c, o)
  <2>1. ASSUME NEW i \in 1 .. n PROVE c[i].page = o[i]
    <3>1. CASE i = 1
      BY <1>3, <1>4, <1>9, <3>1
    <3>2. CASE i # 1
      <4>1. i \in 2 .. n
        BY <1>1, <3>2
      <4>2. o[i] = s[g(i)] /\ heap[g(i)].page = s[g(i)]
        BY <1>1, <1>5, <1>6, <4>1
      <4>3. QED  BY <1>10, <4>2
    <3>3. QED  BY <3>1, <3>2
  <2>2. QED  BY <1>1, <1>3, <1>4, <1>12, <2>1 DEF LruOrder
<1>15. LruIndex(c, a)
  <2>0. DOMAIN a = DOMAIN obj.at \cup {page} /\ a[page] = x /\ \A p \in DOMAIN obj.at \ {page} : a[p] = obj.at[p]
    BY DEF LruEntry
  <2>1. /\ DOMAIN a = {heap[i].page : i \in 1 .. n} /\ DOMAIN a = DOMAIN obj.at
        /\ \A i \in 1 .. n : obj.at[heap[i].page] = heap[i].cell
    BY <1>1, <2>0 DEF LruInv, LruIndex
  <2>2. {heap[i].page : i \in 1 .. n} = {c[i].page : i \in 1 .. n}
    <3>1. \A i \in 1 .. n : \E j \in 1 .. n : heap[i].page = c[j].page
      <4> SUFFICES ASSUME NEW i \in 1 .. n PROVE \E j \in 1 .. n : heap[i].page = c[j].page
        OBVIOUS
      <4>1. PICK j \in 1 .. n : g(j) = i
        BY <1>8
      <4>2. heap[i].page = c[j].page
        BY <1>10, <4>1
      <4>3. QED  BY <4>2
    <3>2. \A i \in 1 .. n : \E j \in 1 .. n : c[i].page = heap[j].page
      BY <1>5, <1>10
    <3>3. ASSUME NEW p \in {heap[i].page : i \in 1 .. n} PROVE p \in {c[i].page : i \in 1 .. n}
      <4>1. PICK i \in 1 .. n : p = heap[i].page
        OBVIOUS
      <4>2. PICK j \in 1 .. n : heap[i].page = c[j].page
        BY <3>1
      <4>3. p = c[j].page
        BY <4>1, <4>2
      <4>4. QED  BY <4>3
    <3>4. ASSUME NEW p \in {c[i].page : i \in 1 .. n} PROVE p \in {heap[i].page : i \in 1 .. n}
      <4>1. PICK i \in 1 .. n : p = c[i].page
        OBVIOUS
      <4>2. PICK j \in 1 .. n : c[i].page = heap[j].page
        BY <3>2
      <4>3. p = heap[j].page
        BY <4>1, <4>2
      <4>4. QED  BY <4>3
    <3>5. QED  BY <3>3, <3>4
  <2>3. ASSUME NEW i \in 1 .. n PROVE a[c[i].page] = c[i].cell
    <3>1. CASE i = 1
      BY <1>3, <1>9, <2>0, <3>1
    <3>2. CASE i # 1
      <4>1. i \in 2 .. n /\ g(i) \in 1 .. n /\ g(i) # k
        BY <1>1, <1>5, <3>2
      <4>2. heap[g(i)].page # page
        <5>1. heap[g(i)].page = s[g(i)] /\ g(i) \in DOMAIN s /\ k \in DOMAIN s
          BY <1>1, <4>1
        <5>2. QED  BY <1>1, <1>2, <4>1, <5>1 DEF Injective
      <4>3. c[i].page = heap[g(i)].page /\ c[i].cell = heap[g(i)].cell
        BY <1>10, <1>11, <4>1
      <4>4. heap[g(i)].page \in DOMAIN a \ {page}
        BY <2>1, <4>1, <4>2
      <4>5. a[heap[g(i)].page] = obj.at[heap[g(i)].page]
        BY <2>0, <2>1, <4>4
      <4>6. QED  BY <2>1, <4>1, <4>3, <4>5
    <3>3. QED  BY <3>1, <3>2
  <2>4. QED  BY <1>12, <2>1, <2>2, <2>3 DEF LruIndex
<1>16. QED  BY <1>13, <1>14, <1>15

\* A page that is not in the cache comes to the front, if need be for the last.
LEMMA LruPushed ==
    ASSUME LruInv, NEW page \in Pages, page \notin DOMAIN obj.at,
           NEW b, b = IF Len(heap) = cache_size THEN Map!Front(heap) ELSE heap,
           NEW x \in Cells, x \notin LruCells(b),
           NEW c, c = <<[cell |-> x, page |-> page]>> \o b,
           NEW left, left = DOMAIN obj.at \ IF Len(heap) = cache_size THEN {Map!Last(heap).page} ELSE {},
           NEW a, LruEntry(a, left, page, x),
           NEW o, o = Map!Recent(page)
    PROVE  LruList(c) /\ LruOrder(c, o) /\ LruIndex(c, a)
<1> DEFINE s == obj.order
           n == Len(heap)
           m == Len(b)
           node == [cell |-> x, page |-> page]
<1>1. LruList(heap) /\ LruOrder(heap, s) /\ LruIndex(heap, obj.at)
  BY DEF LruInv
<1>2. heap \in Seq(LruNodes) /\ n \in Nat /\ DOMAIN heap = 1 .. n
  BY <1>1 DEF LruList
<1>3. s \in Seq(Pages) /\ Len(s) \in Nat /\ Injective(s) /\ DOMAIN s = 1 .. Len(s)
  BY <1>1 DEF LruOrder
<1>4. /\ n = IF Len(s) < cache_size THEN Len(s) ELSE cache_size
      /\ \A i \in 1 .. n : heap[i].page = s[i]
  BY <1>1, <1>2 DEF LruOrder
<1>5. cache_size \in Nat \ {0} /\ n <= Len(s) /\ n <= cache_size
  BY <1>3, <1>4, OwnersAssumption
<1>6. \A i, j \in 1 .. n : heap[i].cell = heap[j].cell => i = j
  BY <1>1, <1>2 DEF LruList
<1>7. \A i, j \in 1 .. n : heap[i].page = heap[j].page => i = j
  <2> SUFFICES ASSUME NEW i \in 1 .. n, NEW j \in 1 .. n, heap[i].page = heap[j].page PROVE i = j
    OBVIOUS
  <2>1. i \in DOMAIN s /\ j \in DOMAIN s /\ s[i] = s[j]
    BY <1>2, <1>3, <1>4, <1>5
  <2>2. QED  BY <1>3, <2>1 DEF Injective
<1>8. /\ DOMAIN obj.at = {heap[i].page : i \in 1 .. n}
      /\ \A i \in 1 .. n : obj.at[heap[i].page] = heap[i].cell
  BY <1>1, <1>2 DEF LruIndex
<1>9. \A i \in 1 .. n : heap[i].page # page
  BY <1>8
<1> HIDE DEF n, s, m
<1>10. /\ b \in Seq(LruNodes) /\ m \in Nat /\ m < cache_size /\ m = IF n = cache_size THEN n - 1 ELSE n
       /\ \A i \in 1 .. m : b[i] = heap[i]
  <2>1. CASE n = cache_size
    <3>1. b = SubSeq(heap, 1, n - 1) /\ n >= 1
      BY <1>2, <1>5, <2>1 DEF Map!Front, n
    <3>2. b \in Seq(LruNodes) /\ Len(b) = n - 1 /\ \A i \in 1 .. n - 1 : b[i] = heap[i]
      BY ONLY <1>2, <3>1
    <3>3. QED  BY ONLY <1>2, <1>5, <2>1, <3>1, <3>2 DEF m
  <2>2. CASE n # cache_size
    <3>1. b = heap
      BY <2>2 DEF n
    <3>2. m = n /\ n < cache_size
      <4>1. m = n
        BY ONLY <3>1 DEF m, n
      <4>2. QED  BY ONLY <1>2, <1>5, <2>2, <4>1
    <3>3. QED  BY ONLY <1>2, <2>2, <3>1, <3>2
  <2>3. QED  BY <2>1, <2>2
<1>11. left = {heap[i].page : i \in 1 .. m}
  <2>1. CASE n = cache_size
    <3>1. n >= 1 /\ n \in 1 .. n /\ m = n - 1 /\ Map!Last(heap) = heap[n]
      BY ONLY <1>2, <1>5, <1>10, <2>1 DEF Map!Last, n
    <3>2. left = {heap[i].page : i \in 1 .. n} \ {heap[n].page}
      BY <1>8, <2>1, <3>1 DEF n
    <3>3. ASSUME NEW p \in left PROVE p \in {heap[i].page : i \in 1 .. m}
      <4>1. PICK i \in 1 .. n : p = heap[i].page
        BY <3>2
      <4>2. i # n
        BY <3>2, <4>1
      <4>3. i \in 1 .. m
        BY ONLY <1>2, <3>1, <4>1, <4>2
      <4>4. QED  BY <4>1, <4>3
    <3>4. ASSUME NEW i \in 1 .. m PROVE heap[i].page \in left
      <4>1. i \in 1 .. n /\ i # n
        BY ONLY <1>2, <3>1, <3>4
      <4>2. heap[i].page # heap[n].page
        BY <1>7, <3>1, <4>1
      <4>3. QED  BY <3>2, <4>1, <4>2
    <3>5. QED  BY ONLY <3>3, <3>4
  <2>2. CASE n # cache_size
    <3>1. m = n /\ left = DOMAIN obj.at
      BY <1>10, <2>2 DEF n
    <3>2. QED  BY <1>8, <3>1
  <2>3. QED  BY <2>1, <2>2
<1>12. node \in LruNodes /\ node.cell = x /\ node.page = page
  BY DEF LruNodes
<1>13. /\ c \in Seq(LruNodes) /\ Len(c) = m + 1 /\ c[1] = node
       /\ \A i \in 2 .. Len(c) : c[i] = b[i - 1]
  <2> HIDE DEF node
  <2>1. b \in Seq(LruNodes) /\ node \in LruNodes /\ c = <<node>> \o b
    BY <1>10, <1>12 DEF node
  <2>2. QED  BY ONLY <2>1, InFront DEF m
<1> HIDE DEF node
<1>14. DOMAIN c = 1 .. m + 1
  BY <1>10, <1>13
<1>15. \A i \in 2 .. m + 1 : i - 1 \in 1 .. m /\ i - 1 \in 1 .. n /\ c[i] = heap[i - 1]
  <2>0. SUFFICES ASSUME NEW i \in 2 .. m + 1
                PROVE  i - 1 \in 1 .. m /\ i - 1 \in 1 .. n /\ c[i] = heap[i - 1]
    OBVIOUS
  <2>1. i - 1 \in 1 .. m /\ i - 1 \in 1 .. n
    BY ONLY <1>2, <1>10, <2>0
  <2>2. QED  BY <1>10, <1>13, <2>1
<1>16. \A i \in 1 .. m : i + 1 \in 2 .. m + 1 /\ c[i + 1] = heap[i]
  <2> SUFFICES ASSUME NEW i \in 1 .. m PROVE i + 1 \in 2 .. m + 1 /\ c[i + 1] = heap[i]
    OBVIOUS
  <2>1. i + 1 \in 2 .. m + 1 /\ (i + 1) - 1 = i
    BY <1>10
  <2>2. QED  BY <1>15, <2>1
<1>17. \A i \in 2 .. m + 1 : c[i].cell # x
  <2> SUFFICES ASSUME NEW i \in 2 .. m + 1 PROVE c[i].cell # x
    OBVIOUS
  <2>1. i - 1 \in DOMAIN b /\ c[i] = b[i - 1]
    BY <1>10, <1>13, <1>15 DEF m
  <2>2. b[i - 1].cell \in LruCells(b)
    BY <2>1 DEF LruCells
  <2>3. QED  BY <2>1, <2>2
<1>18. LruList(c)
  <2> SUFFICES ASSUME NEW i \in 1 .. m + 1, NEW j \in 1 .. m + 1, c[i].cell = c[j].cell PROVE i = j
    BY <1>13, <1>14 DEF LruList
  <2>1. (i # 1 => i \in 2 .. m + 1) /\ (j # 1 => j \in 2 .. m + 1)
    BY <1>10
  <2>2. CASE i = 1 \/ j = 1
    BY <1>12, <1>13, <1>17, <2>1, <2>2
  <2>3. CASE i # 1 /\ j # 1
    <3>1. heap[i - 1].cell = heap[j - 1].cell /\ i - 1 \in 1 .. n /\ j - 1 \in 1 .. n
      BY <1>15, <2>1, <2>3
    <3>2. i - 1 = j - 1
      BY <1>6, <3>1
    <3>3. QED  BY <1>10, <3>2
  <2>4. QED  BY <2>2, <2>3
<1>19. /\ o \in Seq(Pages) /\ Injective(o) /\ o[1] = page
       /\ \E l \in 1 .. Len(s) + 1 : IsRecent(o, s, l, page)
  BY <1>3, LruRecent DEF s
<1>20. PICK l : l \in 1 .. Len(s) + 1 /\ IsRecent(o, s, l, page)
  BY <1>19
<1> DEFINE last == Len(s)
<1>a. l \in Nat /\ last \in Nat /\ 1 <= l /\ l <= last + 1 /\ n \in Nat /\ n <= last
  BY ONLY <1>2, <1>3, <1>5, <1>20
<1>b. last = Len(s)
  OBVIOUS
<1> HIDE DEF last
<1>21. l >= n + 1
  <2>1. ASSUME l <= n PROVE FALSE
    <3>1. l \in 1 .. n /\ l <= Len(s)
      BY ONLY <1>a, <1>b, <2>1
    <3>2. s[l] = page /\ heap[l].page = s[l]
      BY <1>4, <1>20, <3>1 DEF IsRecent
    <3>3. QED  BY <1>9, <3>1, <3>2
  <2>2. l <= n \/ l >= n + 1
    BY ONLY <1>a
  <2>3. QED  BY <2>1, <2>2
<1>22. m + 1 = IF Len(o) < cache_size THEN Len(o) ELSE cache_size
  <2>1. l <= last \/ l = last + 1
    BY ONLY <1>a
  <2>2. (Len(o) = last /\ l <= last) \/ (Len(o) = last + 1 /\ l = last + 1)
    <3>1. l <= last => Len(o) = last
      BY ONLY <1>b, <1>20 DEF IsRecent
    <3>2. l = last + 1 => Len(o) = last + 1
      BY ONLY <1>b, <1>20 DEF IsRecent
    <3>3. QED  BY ONLY <2>1, <3>1, <3>2
  <2>3. QED  BY ONLY <1>a, <1>b, <1>4, <1>5, <1>10, <1>21, <2>2
<1>23. LruOrder(c, o)
  <2>1. ASSUME NEW i \in 1 .. m + 1 PROVE c[i].page = o[i]
    <3>0. i \in 1 .. m + 1  OBVIOUS
    <3>1. CASE i = 1
      BY <1>12, <1>13, <1>19, <3>1
    <3>2. CASE i # 1
      <4>1. i \in 2 .. m + 1 /\ i <= l /\ i \in 2 .. Len(o)
        BY ONLY <1>2, <1>3, <1>5, <1>10, <1>19, <1>20, <1>21, <1>22, <3>0, <3>2
      <4>2. o[i] = s[i - 1]
        BY <1>20, <4>1 DEF IsRecent
      <4>3. c[i].page = s[i - 1]
        BY <1>4, <1>15, <4>1
      <4>4. QED  BY <4>2, <4>3
    <3>3. QED  BY <3>1, <3>2
  <2>2. QED  BY <1>13, <1>14, <1>19, <1>22, <2>1 DEF LruOrder
<1>24. LruIndex(c, a)
  <2>0. DOMAIN a = left \cup {page} /\ a[page] = x /\ \A p \in left : a[p] = obj.at[p]
    BY DEF LruEntry
  <2>1. ASSUME NEW i \in 1 .. m + 1
        PROVE  c[i].page \in left \cup {page} /\ a[c[i].page] = c[i].cell
    <3>1. CASE i = 1
      BY <1>12, <1>13, <2>0, <3>1
    <3>2. CASE i # 1
      <4>1. i \in 2 .. m + 1
        BY <1>10, <3>2
      <4>2. i - 1 \in 1 .. m /\ i - 1 \in 1 .. n /\ c[i] = heap[i - 1]
        BY <1>15, <4>1
      <4>3. heap[i - 1].page \in left
        BY <1>11, <4>2
      <4>4. a[heap[i - 1].page] = obj.at[heap[i - 1].page]
        BY <2>0, <4>3
      <4>5. QED  BY <1>8, <4>2, <4>3, <4>4
    <3>3. QED  BY <3>1, <3>2
  <2>2. ASSUME NEW p \in left \cup {page} PROVE \E i \in 1 .. m + 1 : p = c[i].page
    <3>1. CASE p = page
      <4>1. 1 \in 1 .. m + 1 /\ c[1].page = page
        BY <1>10, <1>12, <1>13
      <4>2. QED  BY <3>1, <4>1
    <3>2. CASE p # page
      <4>1. PICK i \in 1 .. m : p = heap[i].page
        BY <1>11, <3>2
      <4>2. i + 1 \in 1 .. m + 1 /\ c[i + 1] = heap[i]
        <5>1. i + 1 \in 1 .. m + 1
          BY ONLY <1>10, <4>1
        <5>2. QED  BY <1>16, <4>1, <5>1
      <4>3. QED  BY <4>1, <4>2
    <3>3. QED  BY <3>1, <3>2
  <2>3. DOMAIN a = {c[i].page : i \in 1 .. m + 1}
    <3>1. ASSUME NEW p \in DOMAIN a PROVE p \in {c[i].page : i \in 1 .. m + 1}
      BY <2>0, <2>2
    <3>2. ASSUME NEW p \in {c[i].page : i \in 1 .. m + 1} PROVE p \in DOMAIN a
      BY <2>0, <2>1
    <3>3. QED  BY <3>1, <3>2
  <2>4. QED  BY <1>14, <2>1, <2>3 DEF LruIndex
<1>25. QED  BY <1>18, <1>23, <1>24

\* The node that erase and splice are given.
LEMMA LruNode ==
    ASSUME LruInv, NEW page \in DOMAIN obj.at
    PROVE  /\ Map!NodeAt(heap, obj.at[page]) \in DOMAIN heap
           /\ heap[Map!NodeAt(heap, obj.at[page])] = [cell |-> obj.at[page], page |-> page]
<1>1. PICK k \in DOMAIN heap : page = heap[k].page
  BY DEF LruInv, LruIndex
<1>2. obj.at[page] = heap[k].cell
  BY <1>1 DEF LruInv, LruIndex
<1>3. \A i \in DOMAIN heap : heap[i].cell = obj.at[page] <=> i = k
  BY <1>2 DEF LruInv, LruList
<1>4. Map!NodeAt(heap, obj.at[page]) = k
  BY <1>3 DEF Map!NodeAt
<1>5. heap[k] \in LruNodes
  BY DEF LruInv, LruList
<1>6. heap[k] = [cell |-> heap[k].cell, page |-> heap[k].page]
  BY <1>5 DEF LruNodes
<1>7. QED  BY <1>1, <1>2, <1>4, <1>6

\* Without the node of its page, the cells of the list are the others.
LEMMA LruErased ==
    ASSUME LruInv, NEW k \in DOMAIN heap, NEW b, b = Map!RemoveAt(heap, k)
    PROVE  /\ LruList(b) /\ Len(b) < cache_size
           /\ \A x : x \notin LruCells(b) => x = heap[k].cell \/ x \notin LruCells(heap)
<1> DEFINE n == Len(heap)
           g(i) == IF i < k THEN i ELSE i + 1
<1>1. LruList(heap) /\ LruOrder(heap, obj.order)
  BY DEF LruInv
<1>2. /\ heap \in Seq(LruNodes) /\ n \in Nat /\ DOMAIN heap = 1 .. n /\ k \in 1 .. n
      /\ \A i, j \in 1 .. n : heap[i].cell = heap[j].cell => i = j
  BY <1>1 DEF LruList
<1>3. n <= cache_size /\ cache_size \in Nat
  BY <1>1, OwnersAssumption DEF LruOrder
<1>4. /\ b \in Seq(LruNodes) /\ Len(b) = n - 1
      /\ \A i \in 1 .. Len(b) : b[i] = IF i < k THEN heap[i] ELSE heap[i + 1]
  <2>1. b \in Seq(LruNodes) /\ IsRemoved(b, heap, k)
    BY <1>2, Removed
  <2>2. QED  BY <2>1 DEF IsRemoved
<1>5. DOMAIN b = 1 .. n - 1
  BY <1>2, <1>4
<1> HIDE DEF n
<1>6. \A i \in 1 .. n - 1 : b[i] = heap[g(i)] /\ g(i) \in 1 .. n
  BY <1>2, <1>4
<1>7. \A i, j \in 1 .. n - 1 : g(i) = g(j) => i = j
  BY <1>2
<1>8. \A j \in 1 .. n : j # k => \E i \in 1 .. n - 1 : g(i) = j
  <2>0. SUFFICES ASSUME NEW j \in 1 .. n, j # k PROVE \E i \in 1 .. n - 1 : g(i) = j
    OBVIOUS
  <2>1. CASE j < k
    <3>1. j \in 1 .. n - 1 /\ g(j) = j
      BY <1>2, <2>1
    <3>2. QED  BY <3>1
  <2>2. CASE j > k
    <3>1. j - 1 \in 1 .. n - 1 /\ g(j - 1) = j
      BY <1>2, <2>2
    <3>2. QED  BY <3>1
  <2>3. QED  BY <1>2, <2>0, <2>1, <2>2
<1> HIDE DEF g
<1>9. LruList(b)
  <2>0. SUFFICES ASSUME NEW i \in 1 .. n - 1, NEW j \in 1 .. n - 1, b[i].cell = b[j].cell PROVE i = j
    BY <1>4, <1>5 DEF LruList
  <2>1. heap[g(i)].cell = heap[g(j)].cell /\ g(i) \in 1 .. n /\ g(j) \in 1 .. n
    BY <1>6, <2>0
  <2>2. QED  BY <1>2, <1>7, <2>1
<1>10. Len(b) < cache_size
  BY <1>2, <1>3, <1>4
<1>11. ASSUME NEW x, x \notin LruCells(b), x \in LruCells(heap) PROVE x = heap[k].cell
  <2>1. PICK j \in 1 .. n : x = heap[j].cell
    BY <1>2, <1>11 DEF LruCells
  <2>2. ASSUME j # k PROVE FALSE
    <3>1. PICK i \in 1 .. n - 1 : g(i) = j
      BY <1>8, <2>2
    <3>2. i \in DOMAIN b /\ b[i].cell = x
      BY <1>5, <1>6, <2>1, <3>1
    <3>3. QED  BY <1>11, <3>2 DEF LruCells
  <2>3. QED  BY <2>1, <2>2
<1>12. QED  BY <1>9, <1>10, <1>11

\* Without the last node of a full cache there is room.
LEMMA LruKept ==
    ASSUME LruInv, NEW b, b = IF Len(heap) = cache_size THEN Map!Front(heap) ELSE heap
    PROVE  LruList(b) /\ Len(b) < cache_size
<1>1. LruList(heap) /\ LruOrder(heap, obj.order)
  BY DEF LruInv
<1>2. heap \in Seq(LruNodes) /\ Len(heap) \in Nat /\ DOMAIN heap = 1 .. Len(heap)
  BY <1>1 DEF LruList
<1>3. Len(heap) <= cache_size /\ cache_size \in Nat \ {0}
  BY <1>1, OwnersAssumption DEF LruOrder
<1>4. CASE Len(heap) = cache_size
  <2>1. b = SubSeq(heap, 1, Len(heap) - 1)
    BY <1>4 DEF Map!Front
  <2>2. b \in Seq(LruNodes) /\ Len(b) = Len(heap) - 1 /\ \A i \in DOMAIN b : i \in DOMAIN heap /\ b[i] = heap[i]
    BY <1>2, <1>3, <1>4, <2>1
  <2>3. Len(b) < cache_size
    BY ONLY <1>2, <1>3, <2>2
  <2>4. QED  BY <1>1, <2>2, <2>3 DEF LruList
<1>5. CASE Len(heap) # cache_size
  <2>1. Len(heap) < cache_size
    <3> DEFINE n == Len(heap)
    <3>1. n \in Nat /\ n <= cache_size /\ n # cache_size /\ cache_size \in Nat
      BY <1>2, <1>3, <1>5
    <3> HIDE DEF n
    <3>2. n < cache_size
      BY ONLY <3>1
    <3>3. QED  BY <3>2 DEF n
  <2>2. QED  BY <1>1, <1>5, <2>1
<1>6. QED  BY <1>4, <1>5

\* refer and get keep the invariant.
LEMMA LruInvStep == LruInv /\ Map!LruNext => LruInv'
<1> SUFFICES ASSUME LruInv, NEW page \in Pages, Map!refer(page) \/ Map!get(page) PROVE LruInv'
  BY DEF Map!LruNext
<1> DEFINE k == Map!NodeAt(heap, obj.at[page])
           o == Map!Recent(page)
<1>1. ASSUME page \in DOMAIN obj.at
      PROVE  k \in DOMAIN heap /\ heap[k] = [cell |-> obj.at[page], page |-> page]
  BY <1>1, LruNode
<1>2. CASE Map!refer(page) /\ page \in DOMAIN obj.at
  <2> DEFINE b == Map!RemoveAt(heap, k)
             x == Map!Fresh(Map!CellsOf(b))
             a == [p \in DOMAIN obj.at \cup {page} |-> IF p = page THEN x ELSE obj.at[p]]
  <2>1. heap' = <<[cell |-> x, page |-> page]>> \o b
    BY <1>2 DEF Map!refer, Map!exists, Map!Erase, Map!PushFront
  <2>2. k \in DOMAIN heap /\ heap[k].page = page
    BY <1>1, <1>2
  <2>3. LruList(b) /\ Len(b) < cache_size /\ (x \notin LruCells(b) => x = heap[k].cell \/ x \notin LruCells(heap))
    <3> HIDE DEF x, k
    <3>1. QED  BY <2>2, LruErased
  <2>4. x \in Cells \ LruCells(b)
    <3> HIDE DEF b
    <3>1. QED  BY <2>3, LruFresh
  <2>5. b \in Seq(LruNodes)
    BY <2>3 DEF LruList
  <2>6. heap'[1].cell = x
    <3> HIDE DEF b, x
    <3>1. QED  BY <2>1, <2>5
  <2>7. obj' = [at |-> Map!Stored([p \in DOMAIN obj.at \ {} |-> obj.at[p]], page, heap'[1].cell), order |-> o]
    BY <1>2 DEF Map!refer, Map!exists
  <2>8. obj' = [at |-> a, order |-> o]
    <3>1. Map!Stored([p \in DOMAIN obj.at \ {} |-> obj.at[p]], page, x) = a
      <4> HIDE DEF x
      <4>1. QED  BY DEF Map!Stored
    <3>2. QED  BY <2>6, <2>7, <3>1
  <2>9. LruEntry(a, DOMAIN obj.at, page, x)
    <3> HIDE DEF x
    <3>1. QED  BY DEF LruEntry
  <2>a. /\ page = heap[k].page /\ x \in Cells /\ (x = heap[k].cell \/ x \notin LruCells(heap))
        /\ heap' = <<[cell |-> x, page |-> page]>> \o Map!RemoveAt(heap, k) /\ o = Map!Recent(page)
    BY <2>1, <2>2, <2>3, <2>4
  <2> HIDE DEF a, b, x, o, k
  <2>10. LruList(heap') /\ LruOrder(heap', o) /\ LruIndex(heap', a)
    BY <2>2, <2>9, <2>a, LruMoved
  <2>11. QED  BY <2>8, <2>10 DEF LruInv
<1>3. CASE Map!refer(page) /\ page \notin DOMAIN obj.at
  <2> DEFINE b == IF Len(heap) = cache_size THEN Map!Front(heap) ELSE heap
             x == Map!Fresh(Map!CellsOf(b))
             left == DOMAIN obj.at \ IF Len(heap) = cache_size THEN {Map!Last(heap).page} ELSE {}
             a == [p \in left \cup {page} |-> IF p = page THEN x ELSE obj.at[p]]
  <2>1. heap' = <<[cell |-> x, page |-> page]>> \o b
    BY <1>3 DEF Map!refer, Map!exists, Map!PushFront
  <2>2. LruList(b) /\ Len(b) < cache_size
    BY LruKept
  <2>3. x \in Cells \ LruCells(b)
    <3> HIDE DEF b
    <3>1. QED  BY <2>2, LruFresh
  <2>4. heap'[1].cell = x
    <3>1. b \in Seq(LruNodes)
      BY <2>2 DEF LruList
    <3> HIDE DEF b, x
    <3>2. QED  BY <2>1, <3>1
  <2>5. obj' = [at |-> Map!Stored([p \in left |-> obj.at[p]], page, heap'[1].cell), order |-> o]
    BY <1>3 DEF Map!refer, Map!exists
  <2>6. obj' = [at |-> a, order |-> o]
    <3>1. Map!Stored([p \in left |-> obj.at[p]], page, x) = a
      <4> HIDE DEF x, left
      <4>1. QED  BY DEF Map!Stored
    <3>2. QED  BY <2>4, <2>5, <3>1
  <2>8. LruEntry(a, left, page, x)
    <3> HIDE DEF x, left
    <3>1. QED  BY DEF LruEntry
  <2>a. /\ page \notin DOMAIN obj.at /\ x \in Cells /\ x \notin LruCells(b)
        /\ b = IF Len(heap) = cache_size THEN Map!Front(heap) ELSE heap
        /\ left = DOMAIN obj.at \ IF Len(heap) = cache_size THEN {Map!Last(heap).page} ELSE {}
        /\ o = Map!Recent(page)
    BY <1>3, <2>3
  <2> HIDE DEF a, b, x, o, k, left
  <2>9. LruList(heap') /\ LruOrder(heap', o) /\ LruIndex(heap', a)
    BY <2>1, <2>8, <2>a, LruPushed
  <2>10. QED  BY <2>6, <2>9 DEF LruInv
<1>4. CASE Map!get(page)
  <2>1. /\ page \in DOMAIN obj.at /\ heap' = <<heap[k]>> \o Map!RemoveAt(heap, k)
        /\ obj' = [at |-> obj.at, order |-> o]
    BY <1>4 DEF Map!get, Map!exists, Map!Erase
  <2>2. k \in DOMAIN heap /\ heap[k] = [cell |-> obj.at[page], page |-> page]
    BY <1>1, <2>1
  <2> DEFINE x == obj.at[page]
  <2>3. /\ x \in Cells /\ x = heap[k].cell /\ page = heap[k].page
        /\ heap' = <<[cell |-> x, page |-> page]>> \o Map!RemoveAt(heap, k)
    <3>1. heap[k] \in LruNodes
      BY <2>2 DEF LruInv, LruList
    <3>2. heap[k].cell \in Cells
      BY <3>1 DEF LruNodes
    <3>3. QED  BY <2>1, <2>2, <3>2
  <2>4. LruEntry(obj.at, DOMAIN obj.at, page, x)
    BY <2>1 DEF LruEntry
  <2> HIDE DEF o, k
  <2>5. LruList(heap') /\ LruOrder(heap', o) /\ LruIndex(heap', obj.at)
    BY <2>2, <2>3, <2>4, LruMoved DEF o
  <2>6. QED  BY <2>1, <2>5 DEF LruInv
<1>5. QED  BY <1>2, <1>3, <1>4

\* From the invariant: the map is exact and the pages are the ones used last.
LEMMA LruIsSound == LruInv => Map!LruSound
<1> SUFFICES ASSUME LruInv PROVE Map!LruSound
  OBVIOUS
<1> DEFINE n == IF Len(obj.order) < cache_size THEN Len(obj.order) ELSE cache_size
<1>1. LruList(heap) /\ LruOrder(heap, obj.order) /\ LruIndex(heap, obj.at)
  BY DEF LruInv
<1>2. /\ obj.order \in Seq(Pages) /\ Len(heap) = n
      /\ \A i \in DOMAIN heap : heap[i].page = obj.order[i]
  BY <1>1 DEF LruOrder
<1>3. heap \in Seq(LruNodes) /\ DOMAIN heap = 1 .. n /\ n \in Nat /\ n <= Len(obj.order)
  BY <1>1, <1>2, OwnersAssumption DEF LruList
<1> HIDE DEF n
<1>4. SubSeq(obj.order, 1, n) = [i \in 1 .. n |-> obj.order[i]]
  BY <1>2, <1>3
<1>5. [i \in DOMAIN heap |-> heap[i].page] = SubSeq(obj.order, 1, n)
  BY <1>2, <1>3, <1>4
<1>6. QED  BY <1>1, <1>5 DEF Map!LruSound, LruIndex, n

-----------------------------------------------------------------------------
(* bi_map *)

\* Every primary key, also one that is missing, leads to a value.
BiInv == \A key \in DOMAIN heap : heap[key] \in DOMAIN obj

\* emplace leaves what is there and adds the entry that is not.
IsEmplaced(g, f, x, y) ==
    /\ DOMAIN g = DOMAIN f \cup {x} /\ \A z \in DOMAIN f : g[z] = f[z]
    /\ x \notin DOMAIN f => g[x] = y
LEMMA Emplaced ==
    ASSUME NEW f, NEW x, NEW y
    PROVE  IsEmplaced(Map!emplace(f, x, y), f, x, y)
<1> DEFINE g == Map!emplace(f, x, y)
<1>1. CASE x \in DOMAIN f
  BY <1>1 DEF Map!emplace, IsEmplaced
<1>2. CASE x \notin DOMAIN f
  <2>1. g = [z \in DOMAIN f \cup {x} |-> IF z = x THEN y ELSE f[z]]
    BY <1>2 DEF Map!emplace, Map!Stored
  <2> HIDE DEF g
  <2>2. IsEmplaced(g, f, x, y)
    BY <1>2, <2>1 DEF IsEmplaced
  <2>3. QED  BY <2>2 DEF g
<1>3. QED  BY <1>1, <1>2

\* There are no keys at first.
LEMMA BiInvInit == Map!BiInit => BiInv
BY DEF Map!BiInit, BiInv

\* insert emplaces in both maps.
LEMMA BiInserted ==
    ASSUME Map!BiNext
    PROVE  \E key1, key2, v : IsEmplaced(heap', heap, key1, key2) /\ IsEmplaced(obj', obj, key2, v)
<1>1. PICK key1 \in Primary \cup {nullopt}, key2 \in Secondary \cup {nullopt}, v \in Parameters :
          Map!insert(key1, key2, v)
  BY DEF Map!BiNext
<1>2. heap' = Map!emplace(heap, key1, key2) /\ obj' = Map!emplace(obj, key2, v)
  BY <1>1 DEF Map!insert
<1>3. QED  BY <1>2, Emplaced

\* insert keeps the invariant: the secondary key of a new primary key is there.
LEMMA BiInvStep == BiInv /\ Map!BiNext => BiInv'
<1> SUFFICES ASSUME BiInv, Map!BiNext PROVE BiInv'
  OBVIOUS
<1>1. PICK key1, key2, v : IsEmplaced(heap', heap, key1, key2) /\ IsEmplaced(obj', obj, key2, v)
  BY BiInserted
<1>2. ASSUME NEW key \in DOMAIN heap' PROVE heap'[key] \in DOMAIN obj'
  BY <1>1 DEF BiInv, IsEmplaced
<1>3. QED  BY <1>2 DEF BiInv

\* A primary key finds what its secondary key finds.
LEMMA BiIsSound == BiInv => Map!BiSound
BY DEF BiInv, Map!BiSound, Map!get_by_primary_key, Map!get_by_secondary_key

\* What a key finds is never changed.
LEMMA BiKeeps == BiInv /\ Map!BiNext => Map!BiRefines
<1> SUFFICES ASSUME BiInv, Map!BiNext PROVE Map!BiRefines
  OBVIOUS
<1>1. PICK key1, key2, v : IsEmplaced(heap', heap, key1, key2) /\ IsEmplaced(obj', obj, key2, v)
  BY BiInserted
<1>2. ASSUME NEW key \in DOMAIN heap
      PROVE  Map!get_by_primary_key(key)' = Map!get_by_primary_key(key)
  <2>1. key \in DOMAIN heap' /\ heap'[key] = heap[key] /\ heap[key] \in DOMAIN obj
    BY <1>1 DEF BiInv, IsEmplaced
  <2>2. obj'[heap'[key]] = obj[heap[key]]
    BY <1>1, <2>1 DEF IsEmplaced
  <2>3. QED  BY <2>1, <2>2 DEF Map!get_by_primary_key
<1>3. ASSUME NEW key \in DOMAIN obj
      PROVE  Map!get_by_secondary_key(key)' = Map!get_by_secondary_key(key)
  BY <1>1 DEF Map!get_by_secondary_key, IsEmplaced
<1>4. QED  BY <1>2, <1>3 DEF Map!BiRefines

-----------------------------------------------------------------------------
(* BucketHashmap *)

\* A bucket is a sequence of pairs with different keys.
BucketPairs == Keys \X Values
Bucket(q) ==
    /\ q \in Seq(BucketPairs)
    /\ \A i, j \in DOMAIN q : q[i][1] = q[j][1] => i = j
PairsOf(q) == {q[i] : i \in DOMAIN q}
HasKey(q, k) == \E i \in DOMAIN q : q[i][1] = k
SameBut(k, q, r) == \A p \in BucketPairs : p[1] # k => (p \in PairsOf(r) <=> p \in PairsOf(q))

\* The value of a pair is overwritten.
LEMMA PairReplaced ==
    ASSUME NEW q, Bucket(q), NEW f \in DOMAIN q, NEW k \in Keys, q[f][1] = k, NEW v \in Values,
           NEW r, r = [q EXCEPT ![f] = <<k, v>>]
    PROVE  Bucket(r) /\ Len(r) = Len(q) /\ r[f] = <<k, v>> /\ SameBut(k, q, r)
<1>1. q \in Seq(BucketPairs) /\ <<k, v>> \in BucketPairs /\ <<k, v>>[1] = k
  BY DEF Bucket, BucketPairs
<1>2. /\ r \in Seq(BucketPairs) /\ Len(r) = Len(q) /\ DOMAIN r = DOMAIN q /\ r[f] = <<k, v>>
      /\ \A i \in DOMAIN q \ {f} : r[i] = q[i]
  BY <1>1
<1>3. \A i \in DOMAIN q : r[i][1] = q[i][1]
  BY <1>1, <1>2
<1>4. Bucket(r)
  BY <1>2, <1>3 DEF Bucket
<1>5. ASSUME NEW p \in BucketPairs, p[1] # k PROVE p \in PairsOf(r) <=> p \in PairsOf(q)
  <2>1. \A i \in DOMAIN q : r[i] = p <=> q[i] = p
    BY <1>1, <1>2, <1>5
  <2>2. QED  BY <1>2, <2>1 DEF PairsOf
<1>6. QED  BY <1>2, <1>4, <1>5 DEF SameBut

\* A pair with a new key is appended.
IsAppended(k, v, q, r) ==
    /\ Bucket(r) /\ Len(r) = Len(q) + 1 /\ r[Len(r)] = <<k, v>> /\ SameBut(k, q, r)
    /\ PairsOf(r) = PairsOf(q) \cup {<<k, v>>}
LEMMA PairAppended ==
    ASSUME NEW q, Bucket(q), NEW k \in Keys, ~HasKey(q, k), NEW v \in Values,
           NEW r, r = Append(q, <<k, v>>)
    PROVE  IsAppended(k, v, q, r)
<1> DEFINE n == Len(q)
           e == <<k, v>>
<1>1. q \in Seq(BucketPairs) /\ e \in BucketPairs /\ e[1] = k /\ n \in Nat /\ DOMAIN q = 1 .. n
  BY DEF Bucket, BucketPairs
<1> HIDE DEF e
<1>2. /\ r \in Seq(BucketPairs) /\ Len(r) = n + 1 /\ DOMAIN r = 1 .. n + 1 /\ r[n + 1] = e
      /\ \A i \in 1 .. n : r[i] = q[i]
  BY <1>1 DEF e
<1> HIDE DEF n
<1>3. \A i \in 1 .. n + 1 : i = n + 1 \/ i \in 1 .. n
  BY <1>1
<1>4. \A i \in 1 .. n : i \in 1 .. n + 1 /\ q[i][1] # k
  BY <1>1 DEF HasKey
<1>5. Bucket(r)
  <2>1. ASSUME NEW i \in 1 .. n + 1, NEW j \in 1 .. n + 1, r[i][1] = r[j][1] PROVE i = j
    <3>1. CASE i = n + 1 /\ j = n + 1
      BY <3>1
    <3>2. CASE i \in 1 .. n /\ j \in 1 .. n
      <4>1. q[i][1] = q[j][1] /\ i \in DOMAIN q /\ j \in DOMAIN q
        BY <1>1, <1>2, <2>1, <3>2
      <4>2. QED  BY <4>1 DEF Bucket
    <3>3. CASE i \in 1 .. n /\ j = n + 1
      BY <1>1, <1>2, <1>4, <2>1, <3>3
    <3>4. CASE i = n + 1 /\ j \in 1 .. n
      BY <1>1, <1>2, <1>4, <2>1, <3>4
    <3>5. QED  BY <1>3, <3>1, <3>2, <3>3, <3>4
  <2>2. QED  BY <1>2, <2>1 DEF Bucket
<1>6. PairsOf(r) = PairsOf(q) \cup {e}
  <2>1. ASSUME NEW p \in PairsOf(r) PROVE p \in PairsOf(q) \cup {e}
    <3>1. PICK i \in 1 .. n + 1 : p = r[i]
      BY <1>2 DEF PairsOf
    <3>2. QED  BY <1>1, <1>2, <1>3, <3>1 DEF PairsOf
  <2>2. ASSUME NEW p \in PairsOf(q) PROVE p \in PairsOf(r)
    <3>1. PICK i \in 1 .. n : p = q[i]
      BY <1>1 DEF PairsOf
    <3>2. QED  BY <1>2, <1>4, <3>1 DEF PairsOf
  <2>3. e \in PairsOf(r)
    <3>1. n + 1 \in 1 .. n + 1
      BY <1>1
    <3>2. QED  BY <1>2, <3>1 DEF PairsOf
  <2>4. QED  BY <2>1, <2>2, <2>3
<1>7. SameBut(k, q, r)
  BY <1>1, <1>6 DEF SameBut
<1>8. QED  BY <1>2, <1>5, <1>6, <1>7 DEF IsAppended, e, n

\* A pair is removed.
LEMMA PairRemoved ==
    ASSUME NEW q, Bucket(q), NEW f \in DOMAIN q, NEW k, q[f][1] = k,
           NEW r, r = Map!RemoveAt(q, f)
    PROVE  /\ Bucket(r) /\ Len(r) = Len(q) - 1 /\ ~HasKey(r, k) /\ SameBut(k, q, r)
           /\ PairsOf(r) \subseteq PairsOf(q)
<1> DEFINE n == Len(q)
           g(i) == IF i < f THEN i ELSE i + 1
<1>1. q \in Seq(BucketPairs) /\ n \in Nat /\ DOMAIN q = 1 .. n /\ f \in 1 .. n
  BY DEF Bucket
<1>2. r \in Seq(BucketPairs) /\ IsRemoved(r, q, f)
  BY <1>1, Removed
<1>3. Len(r) = n - 1 /\ DOMAIN r = 1 .. n - 1
  BY <1>1, <1>2 DEF IsRemoved
<1>4. \A i \in 1 .. n - 1 : r[i] = q[g(i)] /\ g(i) \in 1 .. n /\ g(i) # f
  BY <1>1, <1>2, <1>3 DEF IsRemoved
<1> HIDE DEF n
<1>5. \A i, j \in 1 .. n - 1 : g(i) = g(j) => i = j
  BY <1>1
<1>6. \A j \in 1 .. n : j # f => \E i \in 1 .. n - 1 : g(i) = j
  <2>0. SUFFICES ASSUME NEW j \in 1 .. n, j # f PROVE \E i \in 1 .. n - 1 : g(i) = j
    OBVIOUS
  <2>1. CASE j < f
    <3>1. j \in 1 .. n - 1 /\ g(j) = j
      BY <1>1, <2>1
    <3>2. QED  BY <3>1
  <2>2. CASE j > f
    <3>1. j - 1 \in 1 .. n - 1 /\ g(j - 1) = j
      BY <1>1, <2>2
    <3>2. QED  BY <3>1
  <2>3. QED  BY <1>1, <2>0, <2>1, <2>2
<1> HIDE DEF g
<1>7. Bucket(r)
  <2>1. ASSUME NEW i \in 1 .. n - 1, NEW j \in 1 .. n - 1, r[i][1] = r[j][1] PROVE i = j
    <3>1. q[g(i)][1] = q[g(j)][1] /\ g(i) \in DOMAIN q /\ g(j) \in DOMAIN q
      BY <1>1, <1>4, <2>1
    <3>2. QED  BY <1>5, <3>1 DEF Bucket
  <2>2. QED  BY <1>2, <1>3, <2>1 DEF Bucket
<1>8. ~HasKey(r, k)
  <2>1. ASSUME NEW i \in 1 .. n - 1, r[i][1] = k PROVE FALSE
    <3>1. g(i) \in DOMAIN q /\ g(i) # f /\ q[g(i)][1] = q[f][1]
      BY <1>1, <1>4, <2>1
    <3>2. QED  BY <3>1 DEF Bucket
  <2>2. QED  BY <1>3, <2>1 DEF HasKey
<1>9. PairsOf(r) \subseteq PairsOf(q)
  BY <1>1, <1>3, <1>4 DEF PairsOf
<1>10. ASSUME NEW p \in BucketPairs, p[1] # k, p \in PairsOf(q) PROVE p \in PairsOf(r)
  <2>1. PICK j \in 1 .. n : p = q[j]
    BY <1>1, <1>10 DEF PairsOf
  <2>2. j # f
    BY <1>10, <2>1
  <2>3. PICK i \in 1 .. n - 1 : g(i) = j
    BY <1>6, <2>2
  <2>4. i \in DOMAIN r /\ r[i] = p
    BY <1>3, <1>4, <2>1, <2>3
  <2>5. QED  BY <2>4 DEF PairsOf
<1>11. SameBut(k, q, r)
  BY <1>9, <1>10 DEF SameBut
<1>12. QED  BY <1>3, <1>7, <1>8, <1>9, <1>11 DEF n

\* The buckets d, and the bucket and the place in it that a search looks up.
Buckets(d) ==
    /\ Len(d) \in Nat \ {0} /\ DOMAIN d = 1 .. Len(d)
    /\ d = [b \in 1 .. Len(d) |-> d[b]]
    /\ \A b \in DOMAIN d : Bucket(d[b])
HashIn(d, k) == (k % Len(d)) + 1
FindIn(d, k) == Map!SelectInSeq(d[HashIn(d, k)], LAMBDA e : e[1] = k)
IsFound(f, q, k) == (f = 0 /\ ~HasKey(q, k)) \/ (f \in DOMAIN q /\ f # 0 /\ q[f][1] = k)

\* A key has a bucket.
LEMMA HashInDomain ==
    ASSUME NEW d, Buckets(d), NEW k \in Keys
    PROVE  HashIn(d, k) \in DOMAIN d
<1> DEFINE n == Len(d)
<1>1. n \in Nat \ {0} /\ DOMAIN d = 1 .. n /\ k \in Nat
  BY OwnersAssumption DEF Buckets
<1> HIDE DEF n
<1>2. k % n \in 0 .. n - 1
  BY ONLY <1>1
<1>3. (k % n) + 1 \in 1 .. n
  BY ONLY <1>1, <1>2
<1>4. QED  BY <1>1, <1>3 DEF HashIn, n

\* As keys are apart, the search finds the one pair with the key, or none.
LEMMA FoundIn ==
    ASSUME NEW d, Buckets(d), NEW k \in Keys
    PROVE  IsFound(FindIn(d, k), d[HashIn(d, k)], k)
<1> DEFINE q == d[HashIn(d, k)]
           I == {i \in 1 .. Len(q) : q[i][1] = k}
<1>1. Bucket(q)
  BY HashInDomain DEF Buckets
<1>2. q \in Seq(BucketPairs) /\ DOMAIN q = 1 .. Len(q)
  BY <1>1 DEF Bucket
<1>3. FindIn(d, k) = IF I # {} THEN Map!Min(I) ELSE 0
  BY DEF FindIn, Map!SelectInSeq
<1> HIDE DEF q
<1>4. CASE HasKey(q, k)
  <2>1. PICK i \in DOMAIN q : q[i][1] = k
    BY <1>4 DEF HasKey
  <2>2. I = {i}
    BY <1>1, <1>2, <2>1 DEF Bucket
  <2>3. Map!Min({i}) = i /\ i # 0
    <3>1. i \in 1 .. Len(q)
      BY <1>2
    <3>2. i \in Int /\ i # 0
      BY <3>1
    <3>3. QED  BY <3>2 DEF Map!Min
  <2>4. FindIn(d, k) = i
    BY <1>3, <2>2, <2>3
  <2>5. QED  BY <2>1, <2>3, <2>4 DEF IsFound, q
<1>5. CASE ~HasKey(q, k)
  <2>1. I = {}
    BY <1>2, <1>5 DEF HasKey
  <2>2. QED  BY <1>3, <1>5, <2>1 DEF IsFound, q
<1>6. QED  BY <1>4, <1>5

\* What a search finds depends on the pairs of the bucket alone.
LEMMA FoundSame ==
    ASSUME NEW q, Bucket(q), NEW r, Bucket(r), NEW k \in Keys, NEW j \in Keys \ {k},
           SameBut(k, q, r), NEW f, IsFound(f, q, j), NEW g, IsFound(g, r, j)
    PROVE  (g # 0 <=> f # 0) /\ (f # 0 => r[g][2] = q[f][2])
<1>1. q \in Seq(BucketPairs) /\ r \in Seq(BucketPairs)
  BY DEF Bucket
<1>2. \A p \in BucketPairs : p = <<p[1], p[2]>> /\ p[1] \in Keys
  BY DEF BucketPairs
<1>3. ASSUME f # 0 PROVE \E i \in DOMAIN r : r[i] = q[f]
  <2>1. f \in DOMAIN q /\ q[f][1] = j
    BY <1>3 DEF IsFound
  <2>2. q[f] \in BucketPairs /\ q[f] \in PairsOf(q) /\ q[f][1] # k
    BY <1>1, <2>1 DEF PairsOf
  <2>3. q[f] \in PairsOf(r)
    BY <2>2 DEF SameBut
  <2>4. QED  BY <2>3 DEF PairsOf
<1>4. ASSUME g # 0 PROVE \E i \in DOMAIN q : q[i] = r[g]
  <2>1. g \in DOMAIN r /\ r[g][1] = j
    BY <1>4 DEF IsFound
  <2>2. r[g] \in BucketPairs /\ r[g] \in PairsOf(r) /\ r[g][1] # k
    BY <1>1, <2>1 DEF PairsOf
  <2>3. r[g] \in PairsOf(q)
    BY <2>2 DEF SameBut
  <2>4. QED  BY <2>3 DEF PairsOf
<1>5. CASE f # 0
  <2>1. f \in DOMAIN q /\ q[f][1] = j
    BY <1>5 DEF IsFound
  <2>2. PICK i \in DOMAIN r : r[i] = q[f]
    BY <1>3, <1>5
  <2>3. HasKey(r, j)
    BY <2>1, <2>2 DEF HasKey
  <2>4. g # 0 /\ g \in DOMAIN r /\ r[g][1] = j
    BY <2>3 DEF IsFound
  <2>5. g = i
    BY <2>1, <2>2, <2>4 DEF Bucket
  <2>6. QED  BY <1>5, <2>2, <2>4, <2>5
<1>6. CASE f = 0
  <2>1. ~HasKey(q, j)
    BY <1>6 DEF IsFound
  <2>2. ASSUME g # 0 PROVE FALSE
    <3>1. r[g][1] = j
      BY <2>2 DEF IsFound
    <3>2. PICK i \in DOMAIN q : q[i] = r[g]
      BY <1>4, <2>2
    <3>3. QED  BY <2>1, <3>1, <3>2 DEF HasKey
  <2>3. QED  BY <1>6, <2>2
<1>7. QED  BY <1>5, <1>6

\* One bucket is changed.
IsSet(e, d, h, q) == e = [d EXCEPT ![h] = q]
LEMMA BucketSet ==
    ASSUME NEW d, Buckets(d), NEW h \in DOMAIN d, NEW q, Bucket(q), NEW e, IsSet(e, d, h, q)
    PROVE  /\ Buckets(e) /\ Len(e) = Len(d) /\ e[h] = q
           /\ \A b \in DOMAIN d \ {h} : e[b] = d[b]
<1> DEFINE n == Len(d)
<1>1. n \in Nat \ {0} /\ DOMAIN d = 1 .. n /\ d = [b \in 1 .. n |-> d[b]]
  BY DEF Buckets
<1>2. e = [b \in 1 .. n |-> IF b = h THEN q ELSE d[b]]
  BY <1>1 DEF IsSet
<1> HIDE DEF n
<1>3. Len(e) = n /\ DOMAIN e = 1 .. n /\ e = [b \in 1 .. n |-> e[b]]
  BY <1>1, <1>2
<1>4. e[h] = q /\ \A b \in DOMAIN d \ {h} : e[b] = d[b]
  BY <1>1, <1>2
<1>5. \A b \in 1 .. n : Bucket(e[b])
  BY <1>1, <1>4 DEF Buckets
<1>6. Buckets(e)
  BY <1>1, <1>3, <1>5 DEF Buckets
<1>7. QED  BY <1>3, <1>4, <1>6 DEF n

\* resize keeps the first buckets, and new ones are empty.
LEMMA BucketsResized ==
    ASSUME NEW d, Buckets(d), NEW n \in Nat \ {0}, NEW e, e = Map!Rehash(d, n)
    PROVE  /\ Buckets(e) /\ Len(e) = n /\ DOMAIN e = 1 .. n
           /\ \A b \in 1 .. n : e[b] = IF b <= Len(d) THEN d[b] ELSE <<>>
           /\ n = Len(d) => e = d
<1>1. Len(d) \in Nat \ {0} /\ DOMAIN d = 1 .. Len(d) /\ d = [b \in 1 .. Len(d) |-> d[b]]
  BY DEF Buckets
<1>2. e = [b \in 1 .. n |-> IF b <= Len(d) THEN d[b] ELSE <<>>]
  BY DEF Map!Rehash
<1>3. Len(e) = n /\ DOMAIN e = 1 .. n /\ e = [b \in 1 .. n |-> e[b]]
  BY <1>2
<1>4. \A b \in 1 .. n : e[b] = IF b <= Len(d) THEN d[b] ELSE <<>>
  BY <1>2
<1>5. Bucket(<<>>)
  BY DEF Bucket
<1>6. \A b \in 1 .. n : Bucket(e[b])
  BY <1>1, <1>4, <1>5 DEF Buckets
<1>7. Buckets(e)
  BY <1>3, <1>6 DEF Buckets
<1>8. ASSUME n = Len(d) PROVE e = d
  BY <1>1, <1>2, <1>8
<1>9. QED  BY <1>3, <1>4, <1>7, <1>8

\* The places of the pairs.
EntriesOf(d) == UNION {{b} \X DOMAIN d[b] : b \in DOMAIN d}
LEMMA EntryOf == \A d, b, i : <<b, i>> \in EntriesOf(d) <=> b \in DOMAIN d /\ i \in DOMAIN d[b]
BY DEF EntriesOf

\* As many places come or go as the changed bucket has more or less pairs.
LEMMA EntriesSet ==
    ASSUME NEW d, Buckets(d), NEW h \in DOMAIN d, NEW q, Bucket(q), NEW e, IsSet(e, d, h, q)
    PROVE  /\ Len(q) = Len(d[h]) => EntriesOf(e) = EntriesOf(d)
           /\ Len(q) = Len(d[h]) + 1 => EntriesOf(e) = EntriesOf(d) \cup {<<h, Len(q)>>}
           /\ Len(q) = Len(d[h]) - 1 => EntriesOf(e) = EntriesOf(d) \ {<<h, Len(d[h])>>}
<1> DEFINE n == Len(d[h])
           m == Len(q)
<1>0. /\ Buckets(e) /\ Len(e) = Len(d) /\ e[h] = q
      /\ \A b \in DOMAIN d \ {h} : e[b] = d[b]
  BY BucketSet
<1>1. Len(d) = Len(e) /\ DOMAIN e = DOMAIN d /\ e[h] = q /\ \A b \in DOMAIN d \ {h} : e[b] = d[b]
  BY <1>0 DEF Buckets
<1>2. Bucket(d[h])
  BY DEF Buckets
<1>3. n \in Nat /\ DOMAIN d[h] = 1 .. n /\ m \in Nat /\ DOMAIN q = 1 .. m
  BY <1>2 DEF Bucket
<1>4. \A x \in EntriesOf(d) : \E b, i : x = <<b, i>> /\ b \in DOMAIN d /\ i \in DOMAIN d[b]
  BY DEF EntriesOf
<1>5. \A x \in EntriesOf(e) : \E b, i : x = <<b, i>> /\ b \in DOMAIN e /\ i \in DOMAIN e[b]
  BY DEF EntriesOf
<1> HIDE DEF n, m
<1>6. \A b, i : <<b, i>> \in EntriesOf(d) <=> b \in DOMAIN d /\ (IF b = h THEN i \in 1 .. n ELSE i \in DOMAIN d[b])
  BY <1>3, EntryOf
<1>7. \A b, i : <<b, i>> \in EntriesOf(e) <=> b \in DOMAIN d /\ (IF b = h THEN i \in 1 .. m ELSE i \in DOMAIN d[b])
  BY <1>1, <1>3, EntryOf
<1>8. ASSUME m = n PROVE EntriesOf(e) = EntriesOf(d)
  <2>1. ASSUME NEW x \in EntriesOf(e) PROVE x \in EntriesOf(d)
    <3>1. PICK b, i : x = <<b, i>>
      BY <1>5, <2>1
    <3>2. QED  BY <1>6, <1>7, <1>8, <2>1, <3>1
  <2>2. ASSUME NEW x \in EntriesOf(d) PROVE x \in EntriesOf(e)
    <3>1. PICK b, i : x = <<b, i>>
      BY <1>4, <2>2
    <3>2. QED  BY <1>6, <1>7, <1>8, <2>2, <3>1
  <2>3. QED  BY <2>1, <2>2
<1>9. ASSUME m = n + 1 PROVE EntriesOf(e) = EntriesOf(d) \cup {<<h, m>>}
  <2>1. \A i : i \in 1 .. m <=> i \in 1 .. n \/ i = m
    BY ONLY <1>3, <1>9
  <2>2. ASSUME NEW x \in EntriesOf(e) PROVE x \in EntriesOf(d) \cup {<<h, m>>}
    <3>1. PICK b, i : x = <<b, i>>
      BY <1>5
    <3>2. QED  BY <1>6, <1>7, <2>1, <2>2, <3>1
  <2>3. ASSUME NEW x \in EntriesOf(d) PROVE x \in EntriesOf(e)
    <3>1. PICK b, i : x = <<b, i>>
      BY <1>4
    <3>2. QED  BY <1>6, <1>7, <2>1, <2>3, <3>1
  <2>4. <<h, m>> \in EntriesOf(e)
    BY <1>7, <2>1
  <2>5. QED  BY <2>2, <2>3, <2>4
<1>10. ASSUME m = n - 1 PROVE EntriesOf(e) = EntriesOf(d) \ {<<h, n>>}
  <2>1. \A i : i \in 1 .. m <=> i \in 1 .. n /\ i # n
    BY ONLY <1>3, <1>10
  <2>2. ASSUME NEW x \in EntriesOf(e) PROVE x \in EntriesOf(d) /\ x # <<h, n>>
    <3>1. PICK b, i : x = <<b, i>>
      BY <1>5
    <3>2. QED  BY <1>6, <1>7, <2>1, <2>2, <3>1
  <2>3. ASSUME NEW x \in EntriesOf(d), x # <<h, n>> PROVE x \in EntriesOf(e)
    <3>1. PICK b, i : x = <<b, i>>
      BY <1>4
    <3>2. QED  BY <1>6, <1>7, <2>1, <2>3, <3>1
  <2>4. QED  BY <2>2, <2>3
<1>11. QED  BY <1>8, <1>9, <1>10 DEF n, m

\* resize brings no pair.
LEMMA EntriesResized ==
    ASSUME NEW d, Buckets(d), NEW n \in Nat \ {0}, NEW e, e = Map!Rehash(d, n)
    PROVE  EntriesOf(e) \subseteq EntriesOf(d)
<1>1. DOMAIN e = 1 .. n /\ \A b \in 1 .. n : e[b] = IF b <= Len(d) THEN d[b] ELSE <<>>
  BY BucketsResized
<1>2. Len(d) \in Nat /\ DOMAIN d = 1 .. Len(d)
  BY DEF Buckets
<1>3. ASSUME NEW x \in EntriesOf(e) PROVE x \in EntriesOf(d)
  <2>1. PICK b, i : x = <<b, i>> /\ b \in DOMAIN e /\ i \in DOMAIN e[b]
    BY DEF EntriesOf
  <2>2. b <= Len(d) /\ e[b] = d[b]
    BY <1>1, <2>1
  <2>3. b \in DOMAIN d
    BY <1>1, <1>2, <2>1, <2>2
  <2>4. QED  BY <2>1, <2>2, <2>3, EntryOf
<1>4. QED  BY <1>3

\* The counter is at least the number of pairs.
BucketInv ==
    /\ Buckets(heap) /\ obj \in Nat
    /\ IsFiniteSet(EntriesOf(heap)) /\ Cardinality(EntriesOf(heap)) <= obj

\* The buckets are empty at first.
LEMMA BucketInvInit == Map!BucketInit => BucketInv
<1> SUFFICES ASSUME Map!BucketInit PROVE BucketInv
  OBVIOUS
<1>1. heap = [i \in 1 .. InitialBuckets |-> <<>>] /\ obj = 0 /\ InitialBuckets \in Nat \ {0}
  BY OwnersAssumption DEF Map!BucketInit
<1>2. Len(heap) = InitialBuckets /\ DOMAIN heap = 1 .. InitialBuckets /\ \A b \in DOMAIN heap : heap[b] = <<>>
  BY <1>1
<1>3. Bucket(<<>>)
  BY DEF Bucket
<1>4. Buckets(heap)
  BY <1>1, <1>2, <1>3 DEF Buckets
<1>5. EntriesOf(heap) = {}
  BY <1>2 DEF EntriesOf
<1>6. QED  BY <1>1, <1>4, <1>5, FS_EmptySet DEF BucketInv

\* insert changes one bucket, and may then resize to as many buckets or more.
Grown(e, d, n) == e = d \/ e = Map!Rehash(d, GrowCoefficient * n)
IsInserted(k, v, q, r) ==
    /\ Bucket(r) /\ SameBut(k, q, r)
    /\ \E i \in DOMAIN r : r[i] = <<k, v>>
    /\ \/ Len(r) = Len(q) /\ obj' = obj
       \/ Len(r) = Len(q) + 1 /\ obj' = obj + 1 /\ PairsOf(r) = PairsOf(q) \cup {<<k, v>>}
IsInsertedIn(d, k, q, r) ==
    /\ IsSet(d, heap, HashIn(heap, k), r)
    /\ IF Len(r) = Len(q) THEN heap' = d ELSE Grown(heap', d, Len(heap))

\* A search in the buckets is one for the key's bucket.
LEMMA SearchIs ==
    \A k : /\ Map!FindIndex(k) = FindIn(heap, k) /\ Map!MakeHash(k) = HashIn(heap, k)
           /\ Map!FindIndex(k)' = FindIn(heap', k) /\ Map!MakeHash(k)' = HashIn(heap', k)
BY DEF Map!FindIndex, Map!MakeHash, Map!BucketsCount, FindIn, HashIn, Map!SelectInSeq

\* insert does this.
LEMMA Inserted ==
    ASSUME BucketInv, NEW k \in Keys, NEW v \in Values, Map!Insert(k, v)
    PROVE  \E r, d : IsInserted(k, v, heap[HashIn(heap, k)], r)
                     /\ IsInsertedIn(d, k, heap[HashIn(heap, k)], r)
<1> DEFINE h == HashIn(heap, k)
           f == FindIn(heap, k)
           q == heap[h]
           r1 == [q EXCEPT ![f] = <<k, v>>]
           r2 == Append(q, <<k, v>>)
           d1 == [heap EXCEPT ![h] = r1]
           d2 == [heap EXCEPT ![h] = r2]
<1>1. h \in DOMAIN heap /\ Bucket(q) /\ IsFound(f, q, k)
  BY HashInDomain, FoundIn DEF BucketInv, Buckets
<1>2. /\ f # 0 => heap' = d1 /\ obj' = obj
      /\ f = 0 => obj' = obj + 1 /\ Grown(heap', d2, Len(heap))
  BY SearchIs DEF Map!Insert, Map!Found, Map!BucketsCount, Grown
<1> HIDE DEF h, f, q
<1>3. CASE f # 0
  <2>1. f \in DOMAIN q /\ q[f][1] = k
    BY <1>1, <1>3 DEF IsFound
  <2> HIDE DEF r1
  <2>2. Bucket(r1) /\ Len(r1) = Len(q) /\ r1[f] = <<k, v>> /\ SameBut(k, q, r1)
    BY <1>1, <2>1, PairReplaced DEF r1
  <2>3. f \in DOMAIN r1
    BY <2>1 DEF r1
  <2>4. IsInserted(k, v, q, r1)
    BY <1>2, <1>3, <2>2, <2>3 DEF IsInserted
  <2>5. IsInsertedIn(d1, k, q, r1)
    BY <1>2, <1>3, <2>2 DEF IsInsertedIn, IsSet, h
  <2>6. QED  BY <2>4, <2>5 DEF h, q
<1>4. CASE f = 0
  <2>1. ~HasKey(q, k)
    BY <1>1, <1>4 DEF IsFound
  <2> HIDE DEF r2
  <2>2. /\ Bucket(r2) /\ Len(r2) = Len(q) + 1 /\ r2[Len(r2)] = <<k, v>> /\ SameBut(k, q, r2)
        /\ PairsOf(r2) = PairsOf(q) \cup {<<k, v>>}
    <3>1. r2 = Append(q, <<k, v>>)
      BY DEF r2
    <3>2. IsAppended(k, v, q, r2)
      BY <1>1, <2>1, <3>1, PairAppended
    <3>3. QED  BY <3>2 DEF IsAppended
  <2>3. Len(q) \in Nat /\ DOMAIN r2 = 1 .. Len(r2)
    BY <1>1, <2>2 DEF Bucket
  <2>4. Len(r2) \in DOMAIN r2 /\ Len(r2) # Len(q)
    BY <2>2, <2>3
  <2>5. IsInserted(k, v, q, r2)
    BY <1>2, <1>4, <2>2, <2>4 DEF IsInserted
  <2>6. IsInsertedIn(d2, k, q, r2)
    BY <1>2, <1>4, <2>4 DEF IsInsertedIn, IsSet, h
  <2>7. QED  BY <2>5, <2>6 DEF h, q
<1>5. QED  BY <1>3, <1>4

\* erase takes a pair out of one bucket, and may then halve the buckets.
IsDeleted(k, q, r) ==
    /\ Bucket(r) /\ Len(r) = Len(q) - 1 /\ ~HasKey(r, k) /\ SameBut(k, q, r)
    /\ PairsOf(r) \subseteq PairsOf(q) /\ obj' = obj - 1
IsDeletedIn(d, k, r) ==
    /\ IsSet(d, heap, HashIn(heap, k), r)
    /\ heap' = d \/ (Len(heap) > 1 /\ heap' = Map!Rehash(d, Len(heap) \div 2))

\* erase does this, or nothing where there is no such key.
LEMMA Deleted ==
    ASSUME BucketInv, NEW k \in Keys, Map!Delete(k)
    PROVE  \/ heap' = heap /\ obj' = obj /\ ~HasKey(heap[HashIn(heap, k)], k)
           \/ \E r, d : IsDeleted(k, heap[HashIn(heap, k)], r) /\ IsDeletedIn(d, k, r)
<1> DEFINE h == HashIn(heap, k)
           f == FindIn(heap, k)
           q == heap[h]
           r == Map!RemoveAt(q, f)
           d == [heap EXCEPT ![h] = r]
<1>1. h \in DOMAIN heap /\ Bucket(q) /\ IsFound(f, q, k)
  BY HashInDomain, FoundIn DEF BucketInv, Buckets
<1>2. /\ f = 0 => heap' = heap /\ obj' = obj
      /\ f # 0 => obj' = obj - 1 /\ (heap' = d \/ (Len(heap) > 1 /\ heap' = Map!Rehash(d, Len(heap) \div 2)))
  BY SearchIs DEF Map!Delete, Map!Found, Map!BucketsCount
<1> HIDE DEF h, f, q
<1>3. CASE f = 0
  BY <1>1, <1>2, <1>3 DEF IsFound, h, q
<1>4. CASE f # 0
  <2>1. f \in DOMAIN q /\ q[f][1] = k
    BY <1>1, <1>4 DEF IsFound
  <2> HIDE DEF r
  <2>2. /\ Bucket(r) /\ Len(r) = Len(q) - 1 /\ ~HasKey(r, k) /\ SameBut(k, q, r)
        /\ PairsOf(r) \subseteq PairsOf(q)
    BY <1>1, <2>1, PairRemoved DEF r
  <2>3. IsDeleted(k, q, r)
    BY <1>2, <1>4, <2>2 DEF IsDeleted
  <2>4. IsDeletedIn(d, k, r)
    BY <1>2, <1>4 DEF IsDeletedIn, IsSet, h
  <2>5. QED  BY <2>3, <2>4 DEF h, q
<1>5. QED  BY <1>3, <1>4

\* Half of the buckets, or more of them, are some.
LEMMA SomeBuckets ==
    ASSUME NEW d, Buckets(d)
    PROVE  /\ GrowCoefficient * Len(d) \in Nat \ {0} /\ GrowCoefficient * Len(d) >= Len(d)
           /\ Len(d) > 1 => Len(d) \div 2 \in Nat \ {0} /\ Len(d) \div 2 # Len(d)
<1> DEFINE n == Len(d)
<1>1. n \in Nat \ {0} /\ GrowCoefficient \in Nat \ {0}
  BY OwnersAssumption DEF Buckets
<1> HIDE DEF n
<1>2. \E g \in Nat : GrowCoefficient = g + 1
  <2>1. GrowCoefficient - 1 \in Nat /\ GrowCoefficient = (GrowCoefficient - 1) + 1
    BY ONLY <1>1
  <2>2. QED  BY <2>1
<1>3. PICK g \in Nat : GrowCoefficient = g + 1
  BY <1>2
<1>4. GrowCoefficient * n = g * n + n /\ g * n \in Nat
  BY ONLY <1>1, <1>3
<1>5. GrowCoefficient * n \in Nat \ {0} /\ GrowCoefficient * n >= n
  BY ONLY <1>1, <1>4
<1>6. n > 1 => n \div 2 \in Nat \ {0} /\ n \div 2 # n
  BY ONLY <1>1
<1>7. QED  BY <1>5, <1>6 DEF n

\* The counter stays at least the number of pairs.
LEMMA BucketInvStep == BucketInv /\ Map!BucketNext => BucketInv'
<1> SUFFICES ASSUME BucketInv, Map!BucketNext PROVE BucketInv'
  OBVIOUS
<1> DEFINE S == EntriesOf(heap)
<1>1. Buckets(heap) /\ obj \in Nat /\ IsFiniteSet(S) /\ Cardinality(S) <= obj
  BY DEF BucketInv
<1> HIDE DEF S
<1>2. Cardinality(S) \in Nat
  BY <1>1, FS_CardinalityType
<1>3. ASSUME NEW d, Buckets(d), Len(d) = Len(heap), IsFiniteSet(EntriesOf(d)),
             obj' \in Nat, Cardinality(EntriesOf(d)) <= obj',
             \/ heap' = d
             \/ heap' = Map!Rehash(d, GrowCoefficient * Len(heap))
             \/ Len(heap) > 1 /\ heap' = Map!Rehash(d, Len(heap) \div 2)
      PROVE  BucketInv'
  <2>1. CASE heap' = d
    BY <1>3, <2>1 DEF BucketInv
  <2>2. ASSUME NEW n \in Nat \ {0}, heap' = Map!Rehash(d, n) PROVE BucketInv'
    <3>1. Buckets(heap') /\ EntriesOf(heap') \subseteq EntriesOf(d)
      BY <1>3, <2>2, BucketsResized, EntriesResized
    <3>2. IsFiniteSet(EntriesOf(heap')) /\ Cardinality(EntriesOf(heap')) <= Cardinality(EntriesOf(d))
      BY <1>3, <3>1, FS_Subset
    <3>3. Cardinality(EntriesOf(heap')) \in Nat /\ Cardinality(EntriesOf(d)) \in Nat
      BY <1>3, <3>2, FS_CardinalityType
    <3>4. Cardinality(EntriesOf(heap')) <= obj'
      BY ONLY <1>3, <3>2, <3>3
    <3>5. QED  BY <1>3, <3>1, <3>2, <3>4 DEF BucketInv
  <2>3. QED  BY <1>1, <1>3, <2>1, <2>2, SomeBuckets
<1>4. ASSUME NEW k \in Keys, NEW v \in Values, Map!Insert(k, v) PROVE BucketInv'
  <2> DEFINE h == HashIn(heap, k)
             q == heap[h]
  <2>1. PICK r, d : IsInserted(k, v, q, r) /\ IsInsertedIn(d, k, q, r)
    BY <1>4, Inserted
  <2>2. h \in DOMAIN heap
    BY <1>1, HashInDomain
  <2> HIDE DEF h, q
  <2>3. IsSet(d, heap, h, r) /\ Bucket(r)
    BY <2>1 DEF IsInserted, IsInsertedIn, h
  <2>4. Buckets(d) /\ Len(d) = Len(heap)
    BY <1>1, <2>2, <2>3, BucketSet
  <2>5. CASE Len(r) = Len(q)
    <3>1. EntriesOf(d) = S
      BY <1>1, <2>2, <2>3, <2>5, EntriesSet DEF S, q
    <3>2. heap' = d
      BY <2>1, <2>5 DEF IsInsertedIn
    <3>3. obj' = obj \/ obj' = obj + 1
      BY <2>1 DEF IsInserted
    <3>4. obj' \in Nat /\ Cardinality(S) <= obj'
      BY ONLY <1>1, <1>2, <3>3
    <3>5. QED  BY <1>1, <1>3, <2>4, <3>1, <3>2, <3>4
  <2>6. CASE Len(r) # Len(q)
    <3>1. Len(r) = Len(q) + 1 /\ obj' = obj + 1
      BY <2>1, <2>6 DEF IsInserted
    <3>2. EntriesOf(d) = S \cup {<<h, Len(r)>>}
      BY <1>1, <2>2, <2>3, <3>1, EntriesSet DEF S, q
    <3>3. IsFiniteSet(EntriesOf(d)) /\ Cardinality(EntriesOf(d)) \in {Cardinality(S), Cardinality(S) + 1}
      BY <1>1, <3>2, FS_AddElement
    <3>4. obj' \in Nat /\ Cardinality(EntriesOf(d)) <= obj'
      BY ONLY <1>1, <1>2, <3>1, <3>3
    <3>5. heap' = d \/ heap' = Map!Rehash(d, GrowCoefficient * Len(heap))
      BY <2>1, <2>6 DEF IsInsertedIn, Grown
    <3>6. QED  BY <1>3, <2>4, <3>3, <3>4, <3>5
  <2>7. QED  BY <2>5, <2>6
<1>5. ASSUME NEW k \in Keys, Map!Delete(k) PROVE BucketInv'
  <2> DEFINE h == HashIn(heap, k)
             q == heap[h]
  <2>1. h \in DOMAIN heap
    BY <1>1, HashInDomain
  <2>2. Bucket(q)
    BY <1>1, <2>1 DEF Buckets
  <2>3. CASE heap' = heap /\ obj' = obj
    BY <2>3 DEF BucketInv
  <2>4. ASSUME NEW r, NEW d, IsDeleted(k, q, r), IsDeletedIn(d, k, r) PROVE BucketInv'
    <3>1. IsSet(d, heap, h, r) /\ Bucket(r) /\ Len(r) = Len(q) - 1 /\ obj' = obj - 1
      BY <2>4 DEF IsDeleted, IsDeletedIn
    <3> HIDE DEF h
    <3>2. Buckets(d) /\ Len(d) = Len(heap)
      BY <1>1, <2>1, <3>1, BucketSet
    <3>3. EntriesOf(d) = S \ {<<h, Len(q)>>}
      BY <1>1, <2>1, <3>1, EntriesSet DEF S
    <3>4. Len(q) \in 1 .. Len(q) /\ DOMAIN q = 1 .. Len(q)
      <4>1. Len(q) \in Nat /\ Len(r) \in Nat /\ DOMAIN q = 1 .. Len(q)
        BY <2>2, <3>1 DEF Bucket
      <4>2. QED  BY <3>1, <4>1
    <3>5. <<h, Len(q)>> \in S
      BY <2>1, <3>4, EntryOf DEF S
    <3>6. IsFiniteSet(EntriesOf(d)) /\ Cardinality(EntriesOf(d)) = Cardinality(S) - 1
      BY <1>1, <3>3, <3>5, FS_RemoveElement
    <3>7. Cardinality(EntriesOf(d)) \in Nat
      BY <3>6, FS_CardinalityType
    <3>8. obj' \in Nat /\ Cardinality(EntriesOf(d)) <= obj'
      BY ONLY <1>1, <1>2, <3>1, <3>6, <3>7
    <3>9. heap' = d \/ (Len(heap) > 1 /\ heap' = Map!Rehash(d, Len(heap) \div 2))
      BY <2>4 DEF IsDeletedIn
    <3>10. QED  BY <1>3, <3>2, <3>6, <3>8, <3>9
  <2>5. QED  BY <1>5, <2>3, <2>4, Deleted
<1>6. QED  BY <1>4, <1>5 DEF Map!BucketNext

\* The counter is what the class promises it to be.
LEMMA BucketIsSound == BucketInv => Map!BucketSound
<1>1. Map!Cardinality(Map!Entries) = Cardinality(Map!Entries)
  BY DEF Map!Cardinality, Cardinality
<1>2. Map!Entries = EntriesOf(heap)
  BY DEF Map!Entries, EntriesOf
<1>3. BucketInv => Cardinality(EntriesOf(heap)) \in Nat
  BY FS_CardinalityType DEF BucketInv
<1>4. QED  BY <1>1, <1>2, <1>3 DEF BucketInv, Map!BucketSound

\* What a search in the buckets d finds, as the map has it.
LEMMA FoundIs ==
    \A k : /\ Map!Found(k) = (FindIn(heap, k) # 0)
           /\ Map!Found(k)' = (FindIn(heap', k) # 0)
           /\ Map!Find(k) = heap[HashIn(heap, k)][FindIn(heap, k)][2]
           /\ Map!Find(k)' = heap'[HashIn(heap', k)][FindIn(heap', k)][2]
BY SearchIs DEF Map!Found, Map!Find

\* When one bucket is changed, and no pair in it that has another key, other keys are not.
LEMMA OthersKept ==
    ASSUME Buckets(heap), Buckets(heap'), NEW k \in Keys, NEW r, Bucket(r),
           SameBut(k, heap[HashIn(heap, k)], r), IsSet(heap', heap, HashIn(heap, k), r),
           NEW j \in Keys \ {k}
    PROVE  UNCHANGED Map!Found(j) /\ (Map!Found(j) => UNCHANGED Map!Find(j))
<1> DEFINE h == HashIn(heap, k)
           b == HashIn(heap, j)
           f == FindIn(heap, j)
           g == FindIn(heap', j)
<1>1. h \in DOMAIN heap /\ b \in DOMAIN heap
  BY HashInDomain
<1>2. /\ Len(heap') = Len(heap) /\ heap'[h] = r
      /\ \A c \in DOMAIN heap \ {h} : heap'[c] = heap[c]
  BY <1>1, BucketSet
<1>3. HashIn(heap', j) = b
  BY <1>2 DEF HashIn
<1>4. IsFound(f, heap[b], j) /\ IsFound(g, heap'[b], j)
  BY <1>3, FoundIn
<1>5. /\ Map!Found(j) = (f # 0)
      /\ Map!Found(j)' = (g # 0)
      /\ Map!Find(j) = heap[b][f][2]
      /\ Map!Find(j)' = heap'[b][g][2]
  BY <1>3, FoundIs
<1> HIDE DEF b, f, g
<1>6. SameBut(k, heap[b], heap'[b])
  <2>1. CASE b = h
    BY <1>2, <2>1
  <2>2. CASE b # h
    <3>1. heap'[b] = heap[b]
      BY <1>1, <1>2, <2>2
    <3>2. QED  BY <3>1 DEF SameBut
  <2>3. QED  BY <2>1, <2>2
<1>7. Bucket(heap[b]) /\ Bucket(heap'[b])
  <2>1. DOMAIN heap' = DOMAIN heap
    BY <1>2 DEF Buckets
  <2>2. QED  BY <1>1, <2>1 DEF Buckets
<1>8. (g # 0 <=> f # 0) /\ (f # 0 => heap'[b][g][2] = heap[b][f][2])
  BY <1>4, <1>6, <1>7, FoundSame
<1>9. QED  BY <1>5, <1>8

\* With as many buckets as before, a step is one on a map.
LEMMA MapInserted ==
    ASSUME BucketInv, BucketInv', UNCHANGED Len(heap), NEW k \in Keys, NEW v \in Values, Map!Insert(k, v)
    PROVE  /\ Map!Found(k)' /\ Map!Find(k)' = v
           /\ \A j \in Keys \ {k} : UNCHANGED Map!Found(j) /\ (Map!Found(j) => UNCHANGED Map!Find(j))
<1> DEFINE h == HashIn(heap, k)
           q == heap[h]
           g == FindIn(heap', k)
<1>1. Buckets(heap) /\ Buckets(heap') /\ h \in DOMAIN heap
  BY HashInDomain DEF BucketInv
<1>2. PICK r, d : IsInserted(k, v, q, r) /\ IsInsertedIn(d, k, q, r)
  BY Inserted
<1>3. Bucket(r) /\ SameBut(k, q, r) /\ IsSet(d, heap, h, r)
  BY <1>2 DEF IsInserted, IsInsertedIn
<1>4. Buckets(d) /\ Len(d) = Len(heap) /\ d[h] = r
  <2>1. Buckets(d) /\ Len(d) = Len(heap)
    BY ONLY <1>1, <1>3, BucketSet
  <2>2. d[h] = r
    BY <1>1, <1>3 DEF IsSet
  <2>3. QED  BY <2>1, <2>2
<1>5. heap' = d
  <2>1. heap' = d \/ heap' = Map!Rehash(d, GrowCoefficient * Len(d))
    BY <1>2, <1>4 DEF IsInsertedIn, Grown
  <2>2. ASSUME heap' = Map!Rehash(d, GrowCoefficient * Len(d)) PROVE heap' = d
    <3>1. GrowCoefficient * Len(d) \in Nat \ {0}
      BY <1>4, SomeBuckets
    <3>2. Len(heap') = GrowCoefficient * Len(d) /\ (GrowCoefficient * Len(d) = Len(d) => heap' = d)
      BY <1>4, <2>2, <3>1, BucketsResized
    <3>3. QED  BY <1>4, <3>2
  <2>3. QED  BY <2>1, <2>2
<1>6. IsFound(g, r, k)
  <2>1. HashIn(heap', k) = h
    BY DEF HashIn
  <2>2. QED  BY <1>1, <1>4, <1>5, <2>1, FoundIn
<1>7. PICK i \in DOMAIN r : r[i] = <<k, v>>
  BY <1>2 DEF IsInserted
<1>8. g # 0 /\ g = i
  <2>1. r[i][1] = k
    BY <1>7
  <2>2. HasKey(r, k)
    BY <2>1 DEF HasKey
  <2>3. g # 0 /\ g \in DOMAIN r /\ r[g][1] = k
    BY <1>6, <2>2 DEF IsFound
  <2>4. QED  BY <1>3, <2>1, <2>3 DEF Bucket
<1>9. Map!Found(k)' /\ Map!Find(k)' = v
  <2>1. HashIn(heap', k) = h /\ heap'[h] = r
    BY <1>4, <1>5 DEF HashIn
  <2>2. heap'[h][g][2] = v
    BY <1>7, <1>8, <2>1
  <2>3. QED  BY <1>8, <2>1, <2>2, FoundIs
<1>10. QED  BY <1>1, <1>3, <1>5, <1>9, OthersKept

\* The same for erase.
LEMMA MapDeleted ==
    ASSUME BucketInv, BucketInv', UNCHANGED Len(heap), NEW k \in Keys, Map!Delete(k)
    PROVE  /\ ~Map!Found(k)'
           /\ \A j \in Keys \ {k} : UNCHANGED Map!Found(j) /\ (Map!Found(j) => UNCHANGED Map!Find(j))
<1> DEFINE h == HashIn(heap, k)
           q == heap[h]
           g == FindIn(heap', k)
<1>1. Buckets(heap) /\ Buckets(heap') /\ h \in DOMAIN heap
  BY HashInDomain DEF BucketInv
<1>2. HashIn(heap', k) = h
  BY DEF HashIn
<1>3. IsFound(g, heap'[h], k)
  BY <1>1, <1>2, FoundIn
<1>4. CASE heap' = heap /\ obj' = obj /\ ~HasKey(q, k)
  <2>1. g = 0
    BY <1>3, <1>4 DEF IsFound, HasKey
  <2>2. \A j : UNCHANGED Map!Found(j) /\ UNCHANGED Map!Find(j)
    BY <1>4, FoundIs
  <2>3. QED  BY <2>1, <2>2, FoundIs
<1>5. ASSUME NEW r, NEW d, IsDeleted(k, q, r), IsDeletedIn(d, k, r)
      PROVE  /\ ~Map!Found(k)'
             /\ \A j \in Keys \ {k} : UNCHANGED Map!Found(j) /\ (Map!Found(j) => UNCHANGED Map!Find(j))
  <2>1. Bucket(r) /\ SameBut(k, q, r) /\ IsSet(d, heap, h, r) /\ ~HasKey(r, k)
    BY <1>5 DEF IsDeleted, IsDeletedIn
  <2>2. Buckets(d) /\ Len(d) = Len(heap) /\ d[h] = r
    <3>1. Buckets(d) /\ Len(d) = Len(heap)
      BY <1>1, <2>1, BucketSet
    <3>2. d[h] = r
      BY <1>1, <2>1 DEF IsSet
    <3>3. QED  BY <3>1, <3>2
  <2>3. heap' = d
    <3>1. heap' = d \/ (Len(d) > 1 /\ heap' = Map!Rehash(d, Len(d) \div 2))
      BY <1>5, <2>2 DEF IsDeletedIn
    <3>2. ASSUME Len(d) > 1, heap' = Map!Rehash(d, Len(d) \div 2) PROVE FALSE
      <4>1. Len(d) \div 2 \in Nat \ {0} /\ Len(d) \div 2 # Len(d)
        BY <2>2, <3>2, SomeBuckets
      <4>2. Len(heap') = Len(d) \div 2
        BY <2>2, <3>2, <4>1, BucketsResized
      <4>3. QED  BY <2>2, <4>1, <4>2
    <3>3. QED  BY <3>1, <3>2
  <2>4. g = 0
    BY <1>3, <2>1, <2>2, <2>3 DEF IsFound, HasKey
  <2>5. ~Map!Found(k)'
    BY <2>4, FoundIs
  <2>6. QED  BY <1>1, <2>1, <2>3, <2>5, OthersKept
<1>6. QED  BY <1>4, <1>5, Deleted

\* The pairs of the buckets d.
PairsIn(d) == UNION {PairsOf(d[b]) : b \in DOMAIN d}

\* They are those of its buckets, and the map's.
LEMMA PairsAre ==
    /\ \A d, p : p \in PairsIn(d) <=> \E b \in DOMAIN d : p \in PairsOf(d[b])
    /\ Map!Pairs = PairsIn(heap) /\ Map!Pairs' = PairsIn(heap')
<1>1. \A d, p : p \in PairsIn(d) <=> \E b \in DOMAIN d : p \in PairsOf(d[b])
  BY DEF PairsIn
<1>2. Map!Pairs = PairsIn(heap) /\ Map!Pairs' = PairsIn(heap')
  BY DEF Map!Pairs, Map!ToSet, PairsIn, PairsOf
<1>3. QED  BY <1>1, <1>2

\* resize brings no pair, and one to more buckets loses none.
LEMMA PairsResized ==
    ASSUME NEW d, Buckets(d), NEW n \in Nat \ {0}, NEW e, e = Map!Rehash(d, n)
    PROVE  /\ PairsIn(e) \subseteq PairsIn(d)
           /\ n >= Len(d) => PairsIn(e) = PairsIn(d)
<1>1. DOMAIN e = 1 .. n /\ \A b \in 1 .. n : e[b] = IF b <= Len(d) THEN d[b] ELSE <<>>
  BY BucketsResized
<1>2. Len(d) \in Nat /\ DOMAIN d = 1 .. Len(d)
  BY DEF Buckets
<1>3. PairsOf(<<>>) = {}
  BY DEF PairsOf
<1>4. ASSUME NEW p \in PairsIn(e) PROVE p \in PairsIn(d)
  <2>1. PICK b \in 1 .. n : p \in PairsOf(e[b])
    BY <1>1, PairsAre
  <2>2. b <= Len(d) /\ e[b] = d[b]
    BY <1>1, <1>3, <2>1
  <2>3. b \in DOMAIN d
    BY <1>2, <2>2
  <2>4. QED  BY <2>1, <2>2, <2>3, PairsAre
<1>5. ASSUME n >= Len(d), NEW p \in PairsIn(d) PROVE p \in PairsIn(e)
  <2>1. PICK b \in 1 .. Len(d) : p \in PairsOf(d[b])
    BY <1>2, PairsAre
  <2>2. b \in 1 .. n /\ b <= Len(d)
    BY <1>2, <1>5
  <2>3. e[b] = d[b] /\ b \in DOMAIN e
    BY <1>1, <2>2
  <2>4. QED  BY <2>1, <2>3, PairsAre
<1>6. QED  BY <1>4, <1>5

\* A changed bucket brings the pairs it has.
Plus(S, T, p) == S = T \cup {p}
LEMMA PairsSet ==
    ASSUME NEW d, Buckets(d), NEW h \in DOMAIN d, NEW q, Bucket(q), NEW e, IsSet(e, d, h, q)
    PROVE  /\ PairsOf(q) \subseteq PairsOf(d[h]) => PairsIn(e) \subseteq PairsIn(d)
           /\ \A p : Plus(PairsOf(q), PairsOf(d[h]), p) => Plus(PairsIn(e), PairsIn(d), p)
<1>1. Buckets(e) /\ Len(e) = Len(d) /\ e[h] = q /\ \A b \in DOMAIN d \ {h} : e[b] = d[b]
  BY BucketSet
<1>2. DOMAIN e = DOMAIN d
  BY <1>1 DEF Buckets
<1>3. ASSUME NEW p, p \in PairsIn(e) PROVE p \in PairsIn(d) \/ p \in PairsOf(q)
  BY <1>1, <1>2, <1>3, PairsAre
<1>4. ASSUME NEW p, p \in PairsIn(d) PROVE p \in PairsIn(e) \/ p \in PairsOf(d[h])
  BY <1>1, <1>2, <1>4, PairsAre
<1>5. PairsOf(d[h]) \subseteq PairsIn(d) /\ PairsOf(q) \subseteq PairsIn(e)
  BY <1>1, <1>2, PairsAre
<1>6. QED  BY <1>3, <1>4, <1>5 DEF Plus

\* With other than as many buckets as before, a step brings no pair but the inserted one.
LEMMA PairsKept ==
    ASSUME BucketInv, ~UNCHANGED Len(heap), NEW k \in Keys
    PROVE  /\ Map!Delete(k) => Map!Pairs' \subseteq Map!Pairs
           /\ \A v \in Values : Map!Insert(k, v) => Map!Pairs' = Map!Pairs \cup {<<k, v>>}
<1> DEFINE h == HashIn(heap, k)
           q == heap[h]
<1>1. Buckets(heap) /\ h \in DOMAIN heap
  BY HashInDomain DEF BucketInv
<1>2. ASSUME Map!Delete(k) PROVE Map!Pairs' \subseteq Map!Pairs
  <2>1. PICK r, d : IsDeleted(k, q, r) /\ IsDeletedIn(d, k, r)
    BY <1>2, Deleted
  <2>2. Bucket(r) /\ IsSet(d, heap, h, r) /\ PairsOf(r) \subseteq PairsOf(q)
    BY <2>1 DEF IsDeleted, IsDeletedIn
  <2>3. Buckets(d) /\ Len(d) = Len(heap)
    BY <1>1, <2>2, BucketSet
  <2>4. PairsIn(d) \subseteq PairsIn(heap)
    BY <1>1, <2>2, PairsSet
  <2>5. Len(d) > 1 /\ heap' = Map!Rehash(d, Len(d) \div 2)
    BY <2>1, <2>3 DEF IsDeletedIn
  <2>6. PairsIn(heap') \subseteq PairsIn(d)
    BY <2>3, <2>5, SomeBuckets, PairsResized
  <2>7. QED  BY <2>4, <2>6, PairsAre
<1>3. ASSUME NEW v \in Values, Map!Insert(k, v) PROVE Map!Pairs' = Map!Pairs \cup {<<k, v>>}
  <2>1. PICK r, d : IsInserted(k, v, q, r) /\ IsInsertedIn(d, k, q, r)
    BY <1>3, Inserted
  <2>2. Bucket(r) /\ IsSet(d, heap, h, r)
    BY <2>1 DEF IsInserted, IsInsertedIn
  <2>3. Buckets(d) /\ Len(d) = Len(heap)
    BY <1>1, <2>2, BucketSet
  <2>4. Len(r) # Len(q) /\ heap' = Map!Rehash(d, GrowCoefficient * Len(d))
    BY <2>1, <2>3 DEF IsInsertedIn, Grown
  <2>5. PairsOf(r) = PairsOf(q) \cup {<<k, v>>}
    BY <2>1, <2>4 DEF IsInserted
  <2>6. PairsIn(d) = PairsIn(heap) \cup {<<k, v>>}
    <3>1. Plus(PairsOf(r), PairsOf(q), <<k, v>>)
      BY <2>5 DEF Plus
    <3>2. Plus(PairsIn(d), PairsIn(heap), <<k, v>>)
      BY <1>1, <2>2, <3>1, PairsSet
    <3>3. QED  BY <3>2 DEF Plus
  <2>7. PairsIn(heap') = PairsIn(d)
    BY <2>3, <2>4, SomeBuckets, PairsResized
  <2>8. QED  BY <2>6, <2>7, PairsAre
<1>4. QED  BY <1>2, <1>3

\* A step of the class is one of the abstract map.
LEMMA BucketRefined == BucketInv /\ BucketInv' /\ Map!BucketNext => Map!BucketRefines
<1> SUFFICES ASSUME BucketInv, BucketInv', Map!BucketNext PROVE Map!BucketRefines
  OBVIOUS
<1>1. Map!BucketsCount = Len(heap) /\ Map!BucketsCount' = Len(heap')
  BY DEF Map!BucketsCount
<1>2. ASSUME UNCHANGED Len(heap), NEW k \in Keys
      PROVE  /\ \A v \in Values : Map!Insert(k, v) => Map!Found(k)' /\ Map!Find(k)' = v
             /\ Map!Delete(k) => ~Map!Found(k)'
             /\ (Map!Delete(k) \/ \E v \in Values : Map!Insert(k, v)) =>
                    \A j \in Keys \ {k} : UNCHANGED Map!Found(j) /\ (Map!Found(j) => UNCHANGED Map!Find(j))
  BY <1>2, MapInserted, MapDeleted
<1>3. ASSUME ~UNCHANGED Len(heap)
      PROVE  \/ Map!Pairs' \subseteq Map!Pairs
             \/ \E k \in Keys, v \in Values : Map!Insert(k, v) /\ Map!Pairs' = Map!Pairs \cup {<<k, v>>}
  <2>1. CASE \E k \in Keys : Map!Delete(k)
    BY <1>3, <2>1, PairsKept
  <2>2. CASE \E k \in Keys, v \in Values : Map!Insert(k, v)
    BY <1>3, <2>2, PairsKept
  <2>3. QED  BY <2>1, <2>2 DEF Map!BucketNext
<1>4. QED  BY <1>1, <1>2, <1>3 DEF Map!BucketRefines
=============================================================================

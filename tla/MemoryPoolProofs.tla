-------------------------- MODULE MemoryPoolProofs --------------------------
(***************************************************************************)
(* Theorems about MemoryPool for every block, slot and alignment size: the *)
(* slots lie in their blocks and apart from each other, the list of free   *)
(* slots is exact and the destructor gives every block back.  And about    *)
(* StackAllocator over it, for any number of values: it leaks no slot and  *)
(* implements a stack.  Both lists are described by the sequence of their  *)
(* slots, and walks along them are followed by induction.                  *)
(***************************************************************************)
EXTENDS PoolStack, FiniteSetTheorems, SequenceTheorems, WellFoundedInduction, TLAPS

-----------------------------------------------------------------------------
(* Walks along linked slots *)

(* Induction, with a set for the property: a set of numbers that is not all *)
(* of Nat misses a least one.                                               *)
LEMMA SetInduction ==
    ASSUME NEW T \in SUBSET Nat, 0 \in T, \A n \in T : n + 1 \in T
    PROVE  T = Nat
<1> SUFFICES ASSUME Nat \ T # {} PROVE FALSE  OBVIOUS
<1> DEFINE R == OpToRel(<, Nat)
<1>1. IsWellFoundedOn(R, Nat)  BY NatLessThanWellFounded
<1>2. \A x, y \in Nat : x < y => <<x, y>> \in R  BY DEF OpToRel
<1> HIDE DEF R
<1>3. PICK x \in Nat \ T : \A y \in Nat \ T : ~(<<y, x>> \in R)
  <2>1. Nat \ T \subseteq Nat  OBVIOUS
  <2>2. QED  BY <1>1, <2>1, WFMin
<1>4. x - 1 \in Nat /\ x - 1 \in T
  <2>1. x # 0  OBVIOUS
  <2>2. x - 1 \in Nat /\ x - 1 < x  BY <2>1
  <2>3. QED  BY <2>2, <1>2, <1>3
<1>5. QED  BY <1>4

(* Two walks that begin alike and go on alike are the same. *)
LEMMA SameWalk ==
    ASSUME NEW n \in Nat, NEW f, NEW g, f[0] = g[0],
           \A i \in 1 .. n : f[i - 1] = g[i - 1] => f[i] = g[i]
    PROVE  \A i \in 0 .. n : f[i] = g[i]
<1> DEFINE T == {i \in Nat : i <= n => f[i] = g[i]}
<1>1. 0 \in T  OBVIOUS
<1>2. ASSUME NEW i \in T PROVE i + 1 \in T
  <2>1. i \in Nat /\ (i <= n => f[i] = g[i])  BY <1>2
  <2>2. i + 1 <= n => i + 1 \in 1 .. n /\ (i + 1) - 1 = i  BY <2>1
  <2>3. i + 1 <= n => f[i + 1] = g[i + 1]  BY <2>1, <2>2
  <2>4. QED  BY <2>1, <2>3
<1>3. T = Nat
  <2> HIDE DEF T
  <2>1. T \in SUBSET Nat  BY DEF T
  <2>2. QED  BY <1>1, <1>2, <2>1, SetInduction
<1>4. QED  BY <1>3

\* q lists the slots of S in the order in which links lead from first to Null.
Path(q, first, S, link) ==
    /\ q \in Seq(S) /\ Null \notin S
    /\ \A i, j \in 1 .. Len(q) : q[i] = q[j] => i = j
    /\ \A s \in S : \E i \in 1 .. Len(q) : q[i] = s
    /\ first = IF Len(q) = 0 THEN Null ELSE q[1]
    /\ \A i \in 1 .. Len(q) : link[q[i]] = IF i < Len(q) THEN q[i + 1] ELSE Null

(* A path is as long as there are slots on it. *)
LEMMA PathLength ==
    ASSUME NEW q, NEW first, NEW S, NEW link, Path(q, first, S, link)
    PROVE  Len(q) \in Nat /\ Cardinality(S) = Len(q) /\ IsFiniteSet(S)
<1>1. q \in [1 .. Len(q) -> S] /\ Len(q) \in Nat  BY DEF Path
<1>2. q \in Bijection(1 .. Len(q), S)
  BY <1>1 DEF Path, Bijection, Injection, Surjection, IsInjective
<1>3. ExistsBijection(1 .. Len(q), S)  BY <1>2 DEF ExistsBijection
<1>4. QED  BY <1>1, <1>3, FS_CountingElements, FS_NatBijection

(* No link of a path leads to its first slot, which there is if any is. *)
LEMMA PathFirst ==
    ASSUME NEW q, NEW first, NEW S, NEW link, Path(q, first, S, link)
    PROVE  /\ first \in S \cup {Null}
           /\ first = Null <=> S = {}
           /\ \A s \in S : link[s] # first /\ link[s] \in S \cup {Null}
           /\ \A s, t \in S : link[s] = link[t] /\ link[s] # Null => s = t
<1>1. Len(q) \in Nat /\ \A i \in 1 .. Len(q) : q[i] \in S  BY DEF Path
<1>2. first \in S \cup {Null} /\ (first = Null <=> S = {})  BY <1>1 DEF Path
<1>3. ASSUME NEW s \in S PROVE link[s] # first /\ link[s] \in S \cup {Null}
  <2>1. PICK i \in 1 .. Len(q) : q[i] = s  BY DEF Path
  <2>2. link[s] = IF i < Len(q) THEN q[i + 1] ELSE Null  BY <2>1 DEF Path
  <2>3. CASE i < Len(q)
    <3>1. i + 1 \in 1 .. Len(q) /\ i + 1 # 1 /\ 1 \in 1 .. Len(q)  BY <1>1, <2>3
    <3>2. q[i + 1] # q[1] /\ first = q[1]  BY <1>1, <3>1 DEF Path
    <3>3. QED  BY <1>1, <2>2, <2>3, <3>1, <3>2
  <2>4. CASE ~(i < Len(q))  BY <1>2, <2>2, <2>4
  <2>5. QED  BY <2>3, <2>4
<1>4. ASSUME NEW s \in S, NEW t \in S, link[s] = link[t], link[s] # Null PROVE s = t
  <2>1. PICK i \in 1 .. Len(q) : q[i] = s  BY DEF Path
  <2>2. PICK j \in 1 .. Len(q) : q[j] = t  BY DEF Path
  <2>3. i < Len(q) /\ j < Len(q) /\ q[i + 1] = q[j + 1]  BY <1>4, <2>1, <2>2 DEF Path
  <2>4. i + 1 \in 1 .. Len(q) /\ j + 1 \in 1 .. Len(q)  BY <1>1, <2>3
  <2>5. i + 1 = j + 1  BY <2>3, <2>4 DEF Path
  <2>6. QED  BY <2>1, <2>2, <2>5
<1>5. QED  BY <1>2, <1>3, <1>4

(* Links of other slots do not matter. *)
LEMMA PathFrame ==
    ASSUME NEW q, NEW first, NEW S, NEW link, Path(q, first, S, link),
           NEW other, \A s \in S : other[s] = link[s]
    PROVE  Path(q, first, S, other)
<1>1. \A i \in 1 .. Len(q) : q[i] \in S  BY DEF Path
<1>2. QED  BY <1>1 DEF Path

(* A slot is put in front. *)
LEMMA PathPush ==
    ASSUME NEW q, NEW first, NEW S, NEW link, Path(q, first, S, link),
           NEW s, s \notin S, s # Null,
           NEW other, other[s] = first, \A t \in S : other[t] = link[t]
    PROVE  Path(<<s>> \o q, s, S \cup {s}, other)
<1> DEFINE p == <<s>> \o q
           n == Len(q)
<1>1. q \in Seq(S) /\ n \in Nat /\ \A i \in 1 .. n : q[i] \in S  BY DEF Path
<1>2. /\ p \in Seq(S \cup {s}) /\ Len(p) = n + 1 /\ p[1] = s
      /\ \A i \in 2 .. n + 1 : p[i] = q[i - 1]
  <2>1. <<s>> \in Seq(S \cup {s}) /\ q \in Seq(S \cup {s}) /\ Len(<<s>>) = 1  BY <1>1
  <2>2. QED  BY <1>1, <2>1, ConcatProperties
<1> HIDE DEF p
<1>3. \A i, j \in 1 .. Len(p) : p[i] = p[j] => i = j
  <2>1. SUFFICES ASSUME NEW i \in 1 .. n + 1, NEW j \in 1 .. n + 1, p[i] = p[j]
                 PROVE  i = j
    BY <1>2
  <2>2. \A k \in 2 .. n + 1 : k - 1 \in 1 .. n /\ p[k] = q[k - 1] /\ p[k] \in S
    BY <1>1, <1>2
  <2>3. CASE i = 1 \/ j = 1
    <3>1. i = 1 /\ j = 1  BY <1>1, <1>2, <2>1, <2>2, <2>3
    <3>2. QED  BY <3>1
  <2>4. CASE i # 1 /\ j # 1
    <3>1. i \in 2 .. n + 1 /\ j \in 2 .. n + 1  BY <1>1, <2>4
    <3>2. q[i - 1] = q[j - 1]  BY <2>1, <2>2, <3>1
    <3>3. i - 1 = j - 1  BY <2>2, <3>1, <3>2 DEF Path
    <3>4. QED  BY <3>1, <3>3
  <2>5. QED  BY <2>3, <2>4
<1>4. \A t \in S \cup {s} : \E i \in 1 .. Len(p) : p[i] = t
  <2>1. ASSUME NEW t \in S PROVE \E i \in 1 .. Len(p) : p[i] = t
    <3>1. PICK i \in 1 .. n : q[i] = t  BY DEF Path
    <3>2. i + 1 \in 2 .. n + 1 /\ (i + 1) - 1 = i /\ i + 1 \in 1 .. Len(p)  BY <1>1, <1>2
    <3>3. p[i + 1] = t  BY <1>2, <3>1, <3>2
    <3>4. QED  BY <3>2, <3>3
  <2>2. 1 \in 1 .. Len(p)  BY <1>1, <1>2
  <2>3. QED  BY <1>2, <2>1, <2>2
<1>5. ASSUME NEW i \in 1 .. Len(p)
      PROVE  other[p[i]] = IF i < Len(p) THEN p[i + 1] ELSE Null
  <2>1. CASE i = 1
    <3>1. first = IF n = 0 THEN Null ELSE q[1]  BY DEF Path
    <3>2. n # 0 => p[2] = q[1]  BY <1>1, <1>2
    <3>3. QED  BY <1>1, <1>2, <2>1, <3>1, <3>2
  <2>2. CASE i # 1
    <3>1. i \in 2 .. n + 1 /\ i - 1 \in 1 .. n  BY <1>1, <1>2, <2>2
    <3>2. p[i] = q[i - 1] /\ q[i - 1] \in S  BY <1>1, <1>2, <3>1
    <3>3. link[q[i - 1]] = IF i - 1 < n THEN q[(i - 1) + 1] ELSE Null  BY <3>1 DEF Path
    <3>4. i - 1 < n => i + 1 \in 2 .. n + 1 /\ p[i + 1] = q[i]  BY <1>1, <1>2, <3>1
    <3>5. QED  BY <1>1, <1>2, <3>1, <3>2, <3>3, <3>4
  <2>3. QED  BY <2>1, <2>2
<1>6. Null \notin S \cup {s} /\ Len(p) # 0  BY <1>1, <1>2 DEF Path
<1>7. QED  BY <1>2, <1>3, <1>4, <1>5, <1>6 DEF Path, p

(* The first slot is taken off. *)
LEMMA PathPop ==
    ASSUME NEW q, NEW first, NEW S, NEW link, Path(q, first, S, link), first # Null,
           NEW other, \A t \in S \ {first} : other[t] = link[t]
    PROVE  Path(Tail(q), link[first], S \ {first}, other)
<1> DEFINE p == Tail(q)
           n == Len(q)
           R == S \ {first}
<1>1. q \in Seq(S) /\ n \in Nat \ {0} /\ first = q[1] /\ first \in S
  BY DEF Path
<1>2. Len(p) = n - 1 /\ p \in Seq(S) /\ \A i \in 1 .. n - 1 : p[i] = q[i + 1]
  BY <1>1
<1>3. ASSUME NEW i \in 1 .. n - 1
      PROVE  i + 1 \in 1 .. n /\ p[i] = q[i + 1] /\ p[i] \in R
  <2>1. i + 1 \in 1 .. n /\ i + 1 # 1 /\ 1 \in 1 .. n /\ p[i] = q[i + 1]  BY <1>1, <1>2
  <2>2. q[i + 1] \in S /\ q[i + 1] # q[1]  BY <1>1, <2>1 DEF Path
  <2>3. QED  BY <1>1, <2>1, <2>2
<1> HIDE DEF p
<1>4. p \in Seq(R)
  <2>1. p = [i \in 1 .. n - 1 |-> p[i]] /\ n - 1 \in Nat  BY <1>1, <1>2
  <2>2. QED  BY <1>3, <2>1
<1>5. \A i, j \in 1 .. Len(p) : p[i] = p[j] => i = j
  <2>1. SUFFICES ASSUME NEW i \in 1 .. n - 1, NEW j \in 1 .. n - 1, p[i] = p[j]
                 PROVE  i = j
    BY <1>2
  <2>2. i + 1 = j + 1  BY <1>3, <2>1 DEF Path
  <2>3. QED  BY <2>2
<1>6. ASSUME NEW t \in R PROVE \E i \in 1 .. Len(p) : p[i] = t
  <2>1. PICK i \in 1 .. n : q[i] = t  BY DEF Path
  <2>2. i # 1  BY <1>1, <2>1
  <2>3. i - 1 \in 1 .. n - 1 /\ (i - 1) + 1 = i  BY <1>1, <2>2
  <2>4. QED  BY <1>2, <2>1, <2>3
<1>7. link[first] = IF Len(p) = 0 THEN Null ELSE p[1]
  <2>1. 1 \in 1 .. n /\ link[q[1]] = IF 1 < n THEN q[1 + 1] ELSE Null  BY <1>1 DEF Path
  <2>2. 1 < n => p[1] = q[2]  BY <1>1, <1>2
  <2>3. QED  BY <1>1, <1>2, <2>1, <2>2
<1>8. ASSUME NEW i \in 1 .. Len(p)
      PROVE  other[p[i]] = IF i < Len(p) THEN p[i + 1] ELSE Null
  <2>1. i \in 1 .. n - 1 /\ i + 1 \in 1 .. n /\ p[i] = q[i + 1] /\ p[i] \in R
    BY <1>2, <1>3
  <2>2. link[q[i + 1]] = IF i + 1 < n THEN q[(i + 1) + 1] ELSE Null  BY <2>1 DEF Path
  <2>3. i + 1 < n => p[i + 1] = q[(i + 1) + 1]  BY <1>1, <1>2, <2>1
  <2>4. QED  BY <1>1, <1>2, <2>1, <2>2, <2>3
<1>9. Null \notin R  BY DEF Path
<1>10. QED  BY <1>4, <1>5, <1>6, <1>7, <1>8, <1>9 DEF Path, p

\* What a loop meets that follows the links of S from first.
Walk(first, S, link, n) ==
    LET walk[i \in 0 .. n] ==
            IF i = 0 THEN first
            ELSE IF walk[i - 1] \in S THEN link[walk[i - 1]] ELSE Null
    IN  walk

(* A loop that follows the links meets the slots of the path, then Null. *)
LEMMA PathWalk ==
    ASSUME NEW q, NEW first, NEW S, NEW link, Path(q, first, S, link), NEW n \in Nat
    PROVE  Walk(first, S, link, n)
           = [i \in 0 .. n |-> IF i < Len(q) THEN q[i + 1] ELSE Null]
<1> DEFINE body(w) == [i \in 0 .. n |->
                           IF i = 0 THEN first
                           ELSE IF w[i - 1] \in S THEN link[w[i - 1]] ELSE Null]
           g == [i \in 0 .. n |-> IF i < Len(q) THEN q[i + 1] ELSE Null]
<1>0. /\ Len(q) \in Nat
      /\ \A i \in 1 .. Len(q) : q[i] \in S
                                /\ link[q[i]] = IF i < Len(q) THEN q[i + 1] ELSE Null
  <2> HIDE DEF body, g
  <2>1. q \in Seq(S)  BY Zenon DEF Path
  <2>2. \A i \in 1 .. Len(q) : link[q[i]] = IF i < Len(q) THEN q[i + 1] ELSE Null
    BY Zenon DEF Path
  <2>3. Len(q) \in Nat /\ \A i \in 1 .. Len(q) : q[i] \in S  BY <2>1
  <2>4. QED  BY <2>2, <2>3, Zenon
<1>1. g = body(g)
  <2>1. ASSUME NEW i \in 0 .. n PROVE g[i] = body(g)[i]
    <3>1. CASE i = 0  BY <3>1, <1>0 DEF Path
    <3>2. CASE i # 0 /\ i - 1 < Len(q)
      <4>1. i - 1 \in 0 .. n /\ g[i - 1] = q[i] /\ i \in 1 .. Len(q)  BY <3>2, <1>0
      <4>2. q[i] \in S /\ link[q[i]] = IF i < Len(q) THEN q[i + 1] ELSE Null
        BY <1>0, <4>1
      <4>3. QED  BY <3>2, <4>1, <4>2
    <3>3. CASE i # 0 /\ ~(i - 1 < Len(q))
      <4>1. i - 1 \in 0 .. n /\ g[i - 1] = Null /\ g[i] = Null  BY <3>3, <1>0
      <4>2. Null \notin S  BY DEF Path
      <4>3. QED  BY <3>3, <4>1, <4>2
    <3>4. QED  BY <3>1, <3>2, <3>3
  <2>2. QED  BY <2>1
<1>2. ASSUME NEW w, w = body(w) PROVE w = g
  <2>1. \A i \in 0 .. n : w[i] = body(w)[i] /\ g[i] = body(g)[i]  BY <1>1, <1>2
  <2>2. w[0] = g[0]
    <3>1. 0 \in 0 .. n /\ body(w)[0] = first /\ body(g)[0] = first  OBVIOUS
    <3> HIDE DEF body, g
    <3>2. QED  BY <2>1, <3>1
  <2>3. ASSUME NEW i \in 1 .. n, w[i - 1] = g[i - 1] PROVE w[i] = g[i]
    <3>1. w[i] = body(w)[i] /\ g[i] = body(g)[i]  BY <1>1, <1>2
    <3>2. QED  BY <2>3, <3>1
  <2>4. w = [i \in 0 .. n |-> w[i]]  BY <1>2
  <2> HIDE DEF g
  <2>5. \A i \in 0 .. n : w[i] = g[i]  BY <2>2, <2>3, SameWalk
  <2>6. QED  BY <2>4, <2>5 DEF g
<1>3. (CHOOSE w : w = body(w)) = g
  <2> HIDE DEF g, body
  <2>1. QED  BY <1>1, <1>2, Zenon
<1>4. QED  BY <1>3, Zenon DEF Walk

-----------------------------------------------------------------------------
(* Arithmetic of multiples *)

(* Division with remainder by a positive number. *)
LEMMA DivMod ==
    ASSUME NEW n \in Nat \ {0}, NEW a \in Int
    PROVE  /\ a = n * (a \div n) + (a % n)
           /\ a % n \in 0 .. n - 1
           /\ a \div n \in Int
BY SMT

(* A multiple of n between -n and n is 0. *)
LEMMA SmallMultiple ==
    ASSUME NEW n \in Nat \ {0}, NEW k \in Int, n * k < n, -n < n * k
    PROVE  k = 0
<1>1. CASE k >= 1
  <2>1. n * k >= n  BY <1>1, SMT
  <2>2. QED  BY <2>1, SMT
<1>2. CASE k <= -1
  <2>1. n * k <= -n  BY <1>2, SMT
  <2>2. QED  BY <2>1, SMT
<1>3. QED  BY <1>1, <1>2, SMT

(* A multiple has no remainder. *)
LEMMA MultipleMod ==
    ASSUME NEW n \in Nat \ {0}, NEW k \in Int
    PROVE  (n * k) % n = 0
<1> DEFINE a == n * k
<1>1. a \in Int  OBVIOUS
<1>2. /\ a = n * (a \div n) + (a % n)
      /\ a % n \in 0 .. n - 1
      /\ a \div n \in Int
  BY <1>1, DivMod
<1>3. n * (k - (a \div n)) = a % n  BY <1>2, SMT
<1>4. k - (a \div n) = 0
  <2>1. k - (a \div n) \in Int  BY <1>2
  <2>2. n * (k - (a \div n)) < n /\ -n < n * (k - (a \div n))  BY <1>2, <1>3, SMT
  <2>3. QED  BY <2>1, <2>2, SmallMultiple
<1>5. QED  BY <1>2, <1>3, <1>4, SMT

(* Multiples add up to a multiple. *)
LEMMA SumMod ==
    ASSUME NEW n \in Nat \ {0}, NEW a \in Int, NEW b \in Int,
           a % n = 0, b % n = 0
    PROVE  (a + b) % n = 0
<1>1. a = n * (a \div n) /\ a \div n \in Int  BY DivMod, SMT
<1>2. b = n * (b \div n) /\ b \div n \in Int  BY DivMod, SMT
<1>3. a + b = n * ((a \div n) + (b \div n))  BY <1>1, <1>2, SMT
<1>4. (a \div n) + (b \div n) \in Int  BY <1>1, <1>2
<1>5. QED  BY <1>3, <1>4, MultipleMod, Zenon

(* The first slot of a block is aligned, behind the block's pointer and not *)
(* behind where a second slot would start: this is why BlockSize >= 2 slots *)
(* is enough for one slot to fit.                                           *)
LEMMA FirstSlotFits ==
    /\ FirstSlot \in Nat
    /\ FirstSlot >= PtrSize
    /\ FirstSlot % Align = 0
    /\ FirstSlot <= SlotSize
<1> USE MemoryPoolAssumption DEF MemoryPoolAssumption
<1> DEFINE d == Align - PtrSize
           r == d % Align
<1>1. d \in Int  OBVIOUS
<1>2. /\ d = Align * (d \div Align) + r
      /\ r \in 0 .. Align - 1
      /\ d \div Align \in Int
  BY <1>1, DivMod
<1>3. FirstSlot = PtrSize + r  BY DEF FirstSlot, padPointer
<1>4. FirstSlot = Align * (1 - (d \div Align))  BY <1>2, <1>3, SMT
<1>5. FirstSlot % Align = 0  BY <1>2, <1>4, MultipleMod
<1>6. FirstSlot <= SlotSize
  <2>1. SlotSize = Align * (SlotSize \div Align) /\ SlotSize \div Align \in Int
    BY DivMod, SMT
  <2> DEFINE k == (SlotSize \div Align) - (1 - (d \div Align))
  <2>2. Align * k > -Align  BY <1>2, <1>3, <1>4, <2>1, SMT
  <2>3. k >= 0
    <3>1. SUFFICES ASSUME k <= -1 PROVE FALSE  BY <1>2, <2>1, SMT
    <3>2. Align * k <= -Align  BY <1>2, <2>1, <3>1, SMT
    <3>3. QED  BY <2>2, <3>2, <1>2, <2>1, SMT
  <2>4. Align * k >= 0  BY <1>2, <2>1, <2>3, SMT
  <2>5. QED  BY <1>2, <1>4, <2>1, <2>4, SMT
<1>7. QED  BY <1>2, <1>3, <1>5, <1>6, SMT

-----------------------------------------------------------------------------
(* The inductive invariant *)

\* The slots that were cut and that no client holds.
Free == DOMAIN mem \ Live

\* The next slot to cut is an aligned place in the newest block, ...
CurrentOK ==
    /\ currentBlock \in 0 .. MaxBlocks
    /\ currentBlock = 0 => currentSlot = Null
    /\ currentBlock # 0 =>
         /\ currentSlot \in Slots
         /\ currentSlot[1] = currentBlock
         /\ currentSlot[2] >= FirstSlot
         /\ currentSlot[2] % Align = 0

\* ... behind every slot that was cut from this block.
CutBefore ==
    \A s \in DOMAIN mem :
        s[1] = currentBlock => s[2] + SlotSize <= currentSlot[2]

\* What is in a client's hands was cut, and is as the client made it.
Kept == \A e \in Held : at[e] \in DOMAIN mem /\ mem[at[e]] = e

\* The free slots are linked one after the other.
FreePath == \E q : Path(q, freeSlots, Free, mem)

\* Every block leads to the one before it, and the destructor has given back
\* none or all of them.
Backwards == [n \in 1 .. currentBlock |-> currentBlock + 1 - n]
BlocksOK ==
    /\ header \in Seq(Nat) /\ Len(header) = currentBlock
    /\ \A n \in 1 .. currentBlock : header[n] = n - 1
    /\ deleted = <<>> \/ deleted = Backwards

PlaceInv ==
    /\ CurrentOK
    /\ DOMAIN mem \subseteq Slots
    /\ InBlock
    /\ CutBefore
    /\ Disjoint

IInv == PlaceInv /\ Kept /\ FreePath

-----------------------------------------------------------------------------
(* What a step does to the slots *)

(* An object constructed in s changes s alone. *)
LEMMA ConstructEffect ==
    ASSUME NEW e, NEW s, e \notin Held, Construct(e, s)
    PROVE  /\ Held' = Held \cup {e}
           /\ at'[e] = s
           /\ \A x \in Held : at'[x] = at[x]
           /\ DOMAIN mem' = DOMAIN mem \cup {s}
           /\ mem'[s] = e
           /\ \A t \in DOMAIN mem : t # s => mem'[t] = mem[t]
           /\ Live' = Live \cup {s}
<1>1. Held' = Held \cup {e}  BY DEF Construct, Held
<1>2. at'[e] = s /\ \A x \in Held : at'[x] = at[x]  BY DEF Construct
<1>3. DOMAIN mem' = DOMAIN mem \cup {s}  BY DEF Construct
<1>4. mem'[s] = e /\ \A t \in DOMAIN mem : t # s => mem'[t] = mem[t]
  BY DEF Construct
<1>5. Live' = {at'[x] : x \in Held'}  BY DEF Live
<1>6. Live' = Live \cup {s}
  <2>1. ASSUME NEW t \in Live'  PROVE t \in Live \cup {s}
    <3>1. PICK x \in Held \cup {e} : t = at'[x]  BY <1>1, <1>5, <2>1
    <3>2. QED  BY <1>2, <3>1 DEF Live
  <2>2. ASSUME NEW t \in Live \cup {s}  PROVE t \in Live'
    <3>1. CASE t = s  BY <1>1, <1>2, <1>5, <3>1
    <3>2. CASE t \in Live
      <4>1. PICK x \in Held : t = at[x]  BY <3>2 DEF Live
      <4>2. QED  BY <1>1, <1>2, <1>5, <4>1
    <3>3. QED  BY <2>2, <3>1, <3>2
  <2>3. QED  BY <2>1, <2>2
<1>7. QED  BY <1>1, <1>2, <1>3, <1>4, <1>6

(* An object given back leaves its slot, which holds a link then. *)
LEMMA DeallocateEffect ==
    ASSUME Kept, NEW e \in Held, Deallocate(e)
    PROVE  /\ DOMAIN mem' = DOMAIN mem /\ mem'[at[e]] = freeSlots
           /\ \A t \in DOMAIN mem : t # at[e] => mem'[t] = mem[t]
           /\ Held' = Held \ {e} /\ (\A x \in Held' : x \in Held /\ at'[x] = at[x])
           /\ Live' = Live \ {at[e]}
           /\ \A x \in Held : at[x] = at[e] => x = e
<1> DEFINE s == at[e]
<1>1. s \in DOMAIN mem /\ mem[s] = e  BY DEF Kept
<1>2. /\ DOMAIN mem' = DOMAIN mem /\ mem'[s] = freeSlots
      /\ \A t \in DOMAIN mem : t # s => mem'[t] = mem[t]
  BY <1>1 DEF Deallocate
<1>3. Held' = Held \ {e} /\ (\A x \in Held' : x \in Held /\ at'[x] = at[x])
  BY DEF Deallocate, Held
<1>4. \A x \in Held : at[x] = s => x = e  BY <1>1 DEF Kept
<1>5. Live' = Live \ {s}
  <2>1. Live' = {at'[x] : x \in Held'}  BY DEF Live
  <2>2. ASSUME NEW t \in Live'  PROVE t \in Live \ {s}
    <3>1. PICK x \in Held' : t = at'[x]  BY <2>1, <2>2
    <3>2. x \in Held /\ x # e /\ t = at[x]  BY <1>3, <3>1
    <3>3. QED  BY <1>4, <3>2 DEF Live
  <2>3. ASSUME NEW t \in Live \ {s}  PROVE t \in Live'
    <3>1. PICK x \in Held : t = at[x]  BY <2>3 DEF Live
    <3>2. x \in Held'  BY <1>3, <2>3, <3>1
    <3>3. QED  BY <1>3, <2>1, <3>1, <3>2
  <2>4. QED  BY <2>2, <2>3
<1>6. QED  BY <1>2, <1>3, <1>4, <1>5

(* A slot cut behind all others of its block, from a block not older than   *)
(* the newest and with room for it, keeps the invariant.                    *)
LEMMA CutStep ==
    ASSUME IInv,
           NEW e, e \notin Held,
           NEW b \in 1 .. MaxBlocks, NEW o \in Nat,
           o >= FirstSlot, o % Align = 0, o + SlotSize <= BlockSize,
           \A t \in DOMAIN mem : t[1] = b => t[2] + SlotSize <= o,
           Cut(<<b, o>>, e),
           currentBlock <= b, currentBlock' = b,
           freeSlots' = freeSlots
    PROVE  IInv'
<1> DEFINE s == <<b, o>>
<1> USE MemoryPoolAssumption DEF MemoryPoolAssumption
<1>0. /\ FirstSlot \in Nat /\ FirstSlot >= PtrSize
      /\ currentBlock \in 0 .. MaxBlocks
  BY FirstSlotFits DEF IInv, PlaceInv, CurrentOK
<1>1. s \in Slots /\ s[1] = b /\ s[2] = o  BY DEF Slots
<1>2. s \notin DOMAIN mem  BY <1>1, SMT DEF IInv, PlaceInv, Slots
<1>3. Construct(e, s) /\ currentSlot' = <<b, o + SlotSize>>
  BY <1>1, Zenon DEF Cut
<1>4. /\ Held' = Held \cup {e}
      /\ at'[e] = s
      /\ \A x \in Held : at'[x] = at[x]
      /\ DOMAIN mem' = DOMAIN mem \cup {s}
      /\ mem'[s] = e
      /\ \A t \in DOMAIN mem : t # s => mem'[t] = mem[t]
      /\ Live' = Live \cup {s}
  <2> HIDE DEF s
  <2>1. QED  BY <1>3, ConstructEffect
<1>5. \A t \in DOMAIN mem : t[1] \in 1 .. MaxBlocks /\ t[2] \in 0 .. BlockSize
  BY DEF IInv, PlaceInv, Slots
<1>6. PlaceInv'
  <2>1. CurrentOK'
    <3>1. (o + SlotSize) % Align = 0
      <4>1. o \in Int /\ SlotSize \in Int /\ Align \in Nat \ {0}  BY SMT
      <4>2. o % Align = 0 /\ SlotSize % Align = 0  BY Zenon
      <4>3. QED  BY <4>1, <4>2, SumMod, Zenon
    <3>2. <<b, o + SlotSize>> \in Slots  BY SMT DEF Slots
    <3>3. FirstSlot' = FirstSlot  BY DEF FirstSlot
    <3>4. o + SlotSize >= FirstSlot  BY <1>0, SMT
    <3>5. Slots' = Slots  BY DEF Slots
    <3>6. /\ currentSlot'[1] = b /\ currentSlot'[2] = o + SlotSize
          /\ currentSlot' \in Slots
      BY <1>3, <3>2
    <3>7. QED  BY <3>1, <3>3, <3>4, <3>5, <3>6, SMT DEF CurrentOK
  <2>2. DOMAIN mem' \subseteq Slots'  BY <1>1, <1>4 DEF IInv, PlaceInv, Slots
  <2>3. InBlock'
    <3>1. SUFFICES ASSUME NEW t \in DOMAIN mem \cup {s}
                   PROVE  /\ t[1] \in 1 .. b
                          /\ t[2] >= PtrSize
                          /\ t[2] + SlotSize <= BlockSize
                          /\ t[2] % Align = 0
      BY <1>4, Zenon DEF InBlock
    <3>2. CASE t = s  BY <1>0, <1>1, <3>2, SMT
    <3>3. CASE t \in DOMAIN mem
      BY <1>0, <1>5, <3>3, SMT DEF IInv, PlaceInv, InBlock
    <3>4. QED  BY <3>1, <3>2, <3>3
  <2>4. CutBefore'
    <3>1. currentSlot'[2] = o + SlotSize  BY <1>3
    <3>2. SUFFICES ASSUME NEW t \in DOMAIN mem \cup {s}, t[1] = b
                   PROVE  t[2] + SlotSize <= o + SlotSize
      BY <1>4, <3>1, Zenon DEF CutBefore
    <3>3. CASE t = s  BY <1>1, <3>3, SMT
    <3>4. CASE t \in DOMAIN mem  BY <1>5, <3>2, <3>4, SMT
    <3>5. QED  BY <3>2, <3>3, <3>4
  <2>5. Disjoint'
    <3>1. SUFFICES ASSUME NEW t \in DOMAIN mem \cup {s},
                          NEW u \in DOMAIN mem \cup {s},
                          t # u, t[1] = u[1]
                   PROVE  t[2] + SlotSize <= u[2] \/ u[2] + SlotSize <= t[2]
      BY <1>4, Zenon DEF Disjoint
    <3>2. CASE t = s  BY <1>1, <3>1, <3>2, SMT
    <3>3. CASE u = s  BY <1>1, <3>1, <3>3, SMT
    <3>4. CASE t \in DOMAIN mem /\ u \in DOMAIN mem
      BY <3>1, <3>4, Zenon DEF IInv, PlaceInv, Disjoint
    <3>5. QED  BY <3>1, <3>2, <3>3, <3>4
  <2>6. QED  BY <2>1, <2>2, <2>3, <2>4, <2>5 DEF PlaceInv
<1> HIDE DEF s
<1>7. Kept'  BY <1>2, <1>4, SMT DEF IInv, Kept
<1>8. FreePath'
  <2>1. Free' = Free  BY <1>2, <1>4, SMT DEF Free
  <2>2. \A t \in Free : mem'[t] = mem[t]  BY <1>2, <1>4 DEF Free
  <2>3. PICK q : Path(q, freeSlots, Free, mem)  BY DEF IInv, FreePath
  <2>4. QED  BY <2>1, <2>2, <2>3, PathFrame DEF FreePath
<1>9. QED  BY <1>6, <1>7, <1>8 DEF IInv

-----------------------------------------------------------------------------
(* The actions *)

(* allocate takes the head of the free list. *)
LEMMA AllocateFreeStep ==
    ASSUME IInv, NEW e, e \notin Held, AllocateFree(e)
    PROVE  IInv'
<1> DEFINE s == freeSlots
<1>0. PICK q : Path(q, freeSlots, Free, mem)  BY DEF IInv, FreePath
<1>1. s # Null /\ s \in Free  BY <1>0, PathFirst DEF AllocateFree
<1>2. s \in DOMAIN mem /\ s \notin Live  BY <1>1 DEF Free
<1>3. /\ Held' = Held \cup {e}
      /\ at'[e] = s
      /\ \A x \in Held : at'[x] = at[x]
      /\ DOMAIN mem' = DOMAIN mem \cup {s}
      /\ mem'[s] = e
      /\ \A t \in DOMAIN mem : t # s => mem'[t] = mem[t]
      /\ Live' = Live \cup {s}
  BY ConstructEffect DEF AllocateFree
<1>4. freeSlots' = mem[s] /\ UNCHANGED <<currentBlock, currentSlot>>
  BY DEF AllocateFree
<1>5. DOMAIN mem' = DOMAIN mem  BY <1>2, <1>3
<1>6. PlaceInv'
  BY <1>4, <1>5 DEF IInv, PlaceInv, CurrentOK, InBlock, CutBefore, Disjoint,
                    Slots, FirstSlot
<1>7. Kept'
  <2>1. \A x \in Held : at[x] \in DOMAIN mem /\ mem[at[x]] = x /\ at[x] # s
    BY <1>2 DEF IInv, Kept, Live
  <2>2. QED  BY <1>3, <1>5, <1>2, <2>1 DEF Kept
<1>8. FreePath'
  <2>1. Free' = Free \ {s}  BY <1>3, <1>5 DEF Free
  <2>2. \A t \in Free \ {s} : mem'[t] = mem[t]  BY <1>3 DEF Free
  <2>3. Path(Tail(q), mem[s], Free \ {s}, mem')  BY <1>0, <1>1, <2>2, PathPop
  <2>4. QED  BY <1>4, <2>1, <2>3 DEF FreePath
<1>9. QED  BY <1>6, <1>7, <1>8 DEF IInv

(* allocate cuts a slot from the newest block, which has room for it. *)
LEMMA AllocateCutStep ==
    ASSUME IInv, NEW e, e \notin Held, AllocateCut(e)
    PROVE  IInv'
<1> USE MemoryPoolAssumption DEF MemoryPoolAssumption
<1>1. currentSlot # Null /\ ~ (currentSlot[2] >= LastSlot)
  BY DEF AllocateCut, BlockIsFull
<1>2. /\ currentBlock \in 1 .. MaxBlocks
      /\ currentSlot \in Slots /\ currentSlot[1] = currentBlock
      /\ currentSlot[2] >= FirstSlot /\ currentSlot[2] % Align = 0
  BY <1>1, SMT DEF IInv, PlaceInv, CurrentOK
<1> DEFINE o == currentSlot[2]
<1>3. o \in Nat /\ currentSlot = <<currentBlock, o>>  BY <1>2, SMT DEF Slots
<1>4. o + SlotSize <= BlockSize  BY <1>1, <1>3, SMT DEF LastSlot
<1>5. \A t \in DOMAIN mem : t[1] = currentBlock => t[2] + SlotSize <= o
  BY Zenon DEF IInv, PlaceInv, CutBefore
<1>6. /\ Cut(<<currentBlock, o>>, e)
      /\ currentBlock' = currentBlock /\ freeSlots' = freeSlots
  BY <1>3, Zenon DEF AllocateCut
<1>7. currentBlock <= currentBlock  BY <1>2, SMT
<1> HIDE DEF o
<1>8. QED  BY <1>2, <1>3, <1>4, <1>5, <1>6, <1>7, CutStep DEF o

(* allocate chains a new block and cuts its first slot. *)
LEMMA AllocateBlockStep ==
    ASSUME IInv, NEW e, e \notin Held, AllocateBlock(e)
    PROVE  IInv'
<1> USE MemoryPoolAssumption DEF MemoryPoolAssumption
<1> DEFINE b == currentBlock + 1
<1>1. currentBlock \in 0 .. MaxBlocks  BY DEF IInv, PlaceInv, CurrentOK
<1>2. b \in 1 .. MaxBlocks /\ currentBlock <= b
  BY <1>1, SMT DEF AllocateBlock
<1>3. /\ FirstSlot \in Nat /\ FirstSlot >= FirstSlot /\ FirstSlot % Align = 0
      /\ FirstSlot + SlotSize <= BlockSize
  BY FirstSlotFits, SMT
<1>4. \A t \in DOMAIN mem : t[1] # b
  BY <1>1, SMT DEF IInv, PlaceInv, InBlock
<1>5. Cut(<<b, FirstSlot>>, e) /\ currentBlock' = b /\ freeSlots' = freeSlots
  BY Zenon DEF AllocateBlock
<1> HIDE DEF b
<1>6. QED  BY <1>2, <1>3, <1>4, <1>5, CutStep

(* deallocate puts the slot of a client's object in front of the free list. *)
LEMMA DeallocateStep ==
    ASSUME IInv, NEW e \in Held, Deallocate(e)
    PROVE  IInv'
<1> DEFINE s == at[e]
<1>1. s \in DOMAIN mem /\ mem[s] = e /\ s \in Live  BY DEF IInv, Kept, Live
<1>2. /\ DOMAIN mem' = DOMAIN mem /\ mem'[s] = freeSlots
      /\ \A t \in DOMAIN mem : t # s => mem'[t] = mem[t]
      /\ Held' = Held \ {e} /\ (\A x \in Held' : x \in Held /\ at'[x] = at[x])
      /\ Live' = Live \ {s}
      /\ \A x \in Held : at[x] = s => x = e
  BY DeallocateEffect DEF IInv
<1>3. freeSlots' = s /\ UNCHANGED <<currentBlock, currentSlot>>
  BY DEF Deallocate
<1> HIDE DEF s
<1>4. PlaceInv'
  BY <1>2, <1>3 DEF IInv, PlaceInv, CurrentOK, InBlock, CutBefore, Disjoint,
                    Slots, FirstSlot
<1>5. Kept'
  <2>1. SUFFICES ASSUME NEW x \in Held'
                 PROVE  at'[x] \in DOMAIN mem' /\ mem'[at'[x]] = x
    BY DEF Kept
  <2>2. x \in Held /\ x # e /\ at'[x] = at[x]  BY <1>2, <2>1
  <2>3. at[x] \in DOMAIN mem /\ mem[at[x]] = x  BY <2>2 DEF IInv, Kept
  <2>4. at[x] # s  BY <1>2, <2>2
  <2>5. QED  BY <1>2, <2>2, <2>3, <2>4
<1>6. FreePath'
  <2>1. PICK q : Path(q, freeSlots, Free, mem)  BY DEF IInv, FreePath
  <2>2. Free' = Free \cup {s} /\ s \notin Free  BY <1>1, <1>2 DEF Free
  <2>3. \A t \in Free : mem'[t] = mem[t]  BY <1>1, <1>2 DEF Free
  <2>4. s # Null  BY <1>1, NullAssumption DEF NullAssumption, IInv, PlaceInv
  <2>5. Path(<<s>> \o q, s, Free \cup {s}, mem')
    BY <1>2, <2>1, <2>2, <2>3, <2>4, PathPush
  <2>6. QED  BY <1>3, <2>2, <2>5 DEF FreePath
<1>7. QED  BY <1>4, <1>5, <1>6 DEF IInv

(* The destructor leaves the slots as they are. *)
LEMMA IdleStep ==
    ASSUME IInv, UNCHANGED <<currentBlock, currentSlot, freeSlots, mem, at>>
    PROVE  IInv'
<1>1. PlaceInv'
  BY DEF IInv, PlaceInv, CurrentOK, InBlock, CutBefore, Disjoint, Slots,
         FirstSlot
<1>2. Kept'  BY DEF IInv, Kept, Held
<1>3. FreePath'  BY DEF IInv, FreePath, Free, Live, Held
<1>4. QED  BY <1>1, <1>2, <1>3 DEF IInv

-----------------------------------------------------------------------------
(* Blocks *)

(* The destructor's loop meets every block, the newest first. *)
LEMMA ChainBackwards ==
    ASSUME BlocksOK, currentBlock \in 0 .. MaxBlocks
    PROVE  Chain(currentBlock) = Backwards
<1> USE MemoryPoolAssumption DEF MemoryPoolAssumption
<1> DEFINE b == currentBlock
           body(w) == [n \in 0 .. MaxBlocks |->
                           IF n = 0 THEN b
                           ELSE IF w[n - 1] = 0 THEN 0 ELSE header[w[n - 1]]]
           g == [n \in 0 .. MaxBlocks |-> IF n <= b THEN b - n ELSE 0]
<1>0. b \in 0 .. MaxBlocks /\ MaxBlocks \in Nat /\ \A n \in 1 .. b : header[n] = n - 1
  BY DEF BlocksOK
<1>1. g = body(g)
  <2>1. ASSUME NEW n \in 0 .. MaxBlocks PROVE g[n] = body(g)[n]
    <3>1. CASE n = 0  BY <1>0, <3>1
    <3>2. CASE n # 0 /\ n <= b
      <4>1. n - 1 \in 0 .. MaxBlocks /\ g[n - 1] = b - (n - 1) /\ g[n] = b - n
        BY <1>0, <3>2
      <4>2. b - (n - 1) \in 1 .. b /\ (b - (n - 1)) - 1 = b - n  BY <1>0, <3>2
      <4>3. header[b - (n - 1)] = b - n  BY <1>0, <4>2
      <4>4. QED  BY <3>2, <4>1, <4>2, <4>3
    <3>3. CASE n # 0 /\ ~(n <= b)
      <4>1. n - 1 \in 0 .. MaxBlocks /\ g[n - 1] = 0 /\ g[n] = 0  BY <1>0, <3>3
      <4>2. QED  BY <3>3, <4>1
    <3>4. QED  BY <3>1, <3>2, <3>3
  <2>2. QED  BY <2>1
<1>2. ASSUME NEW w, w = body(w) PROVE w = g
  <2>1. \A n \in 0 .. MaxBlocks : w[n] = body(w)[n] /\ g[n] = body(g)[n]  BY <1>1, <1>2
  <2>2. w[0] = g[0]
    <3>1. 0 \in 0 .. MaxBlocks /\ body(w)[0] = b /\ body(g)[0] = b  BY <1>0
    <3> HIDE DEF body, g
    <3>2. QED  BY <2>1, <3>1
  <2>3. ASSUME NEW n \in 1 .. MaxBlocks, w[n - 1] = g[n - 1] PROVE w[n] = g[n]
    <3>1. w[n] = body(w)[n] /\ g[n] = body(g)[n]  BY <1>0, <1>1, <1>2
    <3>2. QED  BY <2>3, <3>1
  <2>4. w = [n \in 0 .. MaxBlocks |-> w[n]]  BY <1>2
  <2> HIDE DEF g
  <2>5. \A n \in 0 .. MaxBlocks : w[n] = g[n]  BY <1>0, <2>2, <2>3, SameWalk
  <2>6. QED  BY <2>4, <2>5 DEF g
<1> DEFINE walk == CHOOSE w : w = body(w)
           length == Cardinality({n \in 0 .. MaxBlocks : walk[n] # 0})
<1>3. walk = g
  <2> HIDE DEF g, body
  <2>1. QED  BY <1>1, <1>2, Zenon
<1>4. Chain(currentBlock) = [n \in 1 .. length |-> walk[n - 1]]  BY Zenon DEF Chain
<1> HIDE DEF walk
<1>5. length = b
  <2>1. {n \in 0 .. MaxBlocks : walk[n] # 0} = 0 .. b - 1  BY <1>0, <1>3
  <2>2. Cardinality(0 .. b - 1) = b
    <3>1. 0 \in Int /\ b - 1 \in Int  BY <1>0
    <3>2. Cardinality(0 .. b - 1) = IF 0 > b - 1 THEN 0 ELSE (b - 1) - 0 + 1
      BY <3>1, FS_Interval
    <3>3. QED  BY <1>0, <3>2
  <2>3. QED  BY <2>1, <2>2
<1> HIDE DEF length
<1>6. ASSUME NEW n \in 1 .. b PROVE walk[n - 1] = b + 1 - n
  BY <1>0, <1>3
<1>7. QED  BY <1>4, <1>5, <1>6 DEF Backwards

(* Blocks are chained as they come, and given back together. *)
LEMMA BlocksStep ==
    ASSUME IInv, BlocksOK, NEW e,
           Allocate(e) \/ Deallocate(e) \/ Destroy \/ UNCHANGED vars
    PROVE  BlocksOK'
<1>0. currentBlock \in 0 .. MaxBlocks  BY DEF IInv, PlaceInv, CurrentOK
<1>1. CASE AllocateBlock(e)
  <2>1. /\ header' = Append(header, currentBlock) /\ currentBlock' = currentBlock + 1
        /\ deleted' = <<>>
    BY <1>1 DEF AllocateBlock, Alive
  <2>2. header \in Seq(Nat) /\ Len(header) = currentBlock /\ currentBlock \in Nat
    BY <1>0 DEF BlocksOK
  <2>3. /\ header' \in Seq(Nat) /\ Len(header') = currentBlock + 1
        /\ \A n \in 1 .. currentBlock : header'[n] = header[n]
        /\ header'[currentBlock + 1] = currentBlock
    BY <2>1, <2>2, AppendProperties
  <2>4. \A n \in 1 .. currentBlock' : header'[n] = n - 1
    BY <2>1, <2>2, <2>3 DEF BlocksOK
  <2>5. QED  BY <2>1, <2>3, <2>4 DEF BlocksOK
<1>2. CASE Destroy
  <2>1. deleted' = Backwards /\ UNCHANGED <<header, currentBlock>>
    BY <1>0, <1>2, ChainBackwards DEF Destroy
  <2>2. QED  BY <2>1 DEF BlocksOK, Backwards
<1>3. CASE UNCHANGED <<header, currentBlock, deleted>>
  BY <1>3 DEF BlocksOK, Backwards
<1>4. QED
  BY <1>1, <1>2, <1>3 DEF Allocate, AllocateFree, AllocateCut, Deallocate, vars

-----------------------------------------------------------------------------
(* The pool *)

PoolInv == IInv /\ BlocksOK

(* A new pool has no block and no slot. *)
LEMMA PoolInvInit == Init => PoolInv
<1> SUFFICES ASSUME Init PROVE PoolInv  OBVIOUS
<1>1. DOMAIN mem = {} /\ Held = {} /\ Live = {} /\ Free = {}
  BY DEF Init, Held, Live, Free
<1>2. CurrentOK
  BY MemoryPoolAssumption, SMT DEF Init, CurrentOK, MemoryPoolAssumption
<1>3. PlaceInv  BY <1>1, <1>2 DEF PlaceInv, InBlock, CutBefore, Disjoint
<1>4. Kept  BY <1>1 DEF Kept
<1>5. FreePath
  <2>1. <<>> \in Seq({}) /\ Len(<<>>) = 0  OBVIOUS
  <2>2. Path(<<>>, Null, {}, mem)  BY <2>1 DEF Path
  <2>3. QED  BY <1>1, <2>2 DEF Init, FreePath
<1>6. BlocksOK
  <2>1. <<>> \in Seq(Nat) /\ Len(<<>>) = 0  OBVIOUS
  <2>2. QED  BY <2>1 DEF Init, BlocksOK
<1>7. QED  BY <1>3, <1>4, <1>5, <1>6 DEF IInv, PoolInv

(* What a client may do with the pool keeps its invariant, whatever the     *)
(* objects are.                                                             *)
LEMMA PoolInvStep ==
    ASSUME PoolInv,
           \/ \E e : e \notin Held /\ Allocate(e)
           \/ \E e \in Held : Deallocate(e)
           \/ Destroy
           \/ UNCHANGED vars
    PROVE  PoolInv'
<1>1. ASSUME NEW e, e \notin Held, Allocate(e)  PROVE PoolInv'
  BY <1>1, AllocateFreeStep, AllocateCutStep, AllocateBlockStep, BlocksStep
     DEF Allocate, PoolInv
<1>2. ASSUME NEW e \in Held, Deallocate(e)  PROVE PoolInv'
  BY <1>2, DeallocateStep, BlocksStep DEF PoolInv
<1>3. CASE Destroy  BY <1>3, IdleStep, BlocksStep DEF Destroy, PoolInv
<1>4. CASE UNCHANGED vars  BY <1>4, IdleStep, BlocksStep DEF vars, PoolInv
<1>5. QED  BY <1>1, <1>2, <1>3, <1>4

(* Every reachable state of the pool satisfies the inductive invariant. *)
LEMMA PoolInvariant == Spec => []PoolInv
<1>1. PoolInv /\ [Next]_vars => PoolInv'  BY PoolInvStep DEF Next
<1>2. QED  BY <1>1, PoolInvInit, PTL DEF Spec

(* For every block size, slot size and alignment that allocateBlock accepts, *)
(* each slot that allocate hands out lies in its block, behind the block's   *)
(* pointer, and is aligned.                                                  *)
THEOREM SlotsInBlock == Spec => []InBlock
<1>1. PoolInv => InBlock  BY DEF PoolInv, IInv, PlaceInv
<1>2. QED  BY <1>1, PoolInvariant, PTL

(* No two slots that allocate cut overlap. *)
THEOREM SlotsApart == Spec => []Disjoint
<1>1. PoolInv => Disjoint  BY DEF PoolInv, IInv, PlaceInv
<1>2. QED  BY <1>1, PoolInvariant, PTL

\* An object that a client constructed is whole until he gives it back, and
\* neither the head of the free list nor a link in it leads to an object.
ObjectsKept ==
    /\ \A e \in Held : mem[at[e]] = e
    /\ freeSlots \notin Live
    /\ \A s \in DOMAIN mem \ Live : mem[s] \notin Live

(* allocate never returns a slot that is in use, and the links that         *)
(* deallocate writes over objects never hit one that a client still holds.  *)
THEOREM ObjectsAreKept == Spec => []ObjectsKept
<1>1. ASSUME PoolInv PROVE ObjectsKept
  <2>1. Kept /\ Live \subseteq Slots  BY <1>1 DEF PoolInv, IInv, PlaceInv, Kept, Live
  <2>2. Null \notin Live  BY <2>1, NullAssumption DEF NullAssumption
  <2>3. PICK q : Path(q, freeSlots, Free, mem)  BY <1>1 DEF PoolInv, IInv, FreePath
  <2>4. freeSlots \in Free \cup {Null} /\ \A s \in Free : mem[s] \in Free \cup {Null}
    BY <2>3, PathFirst
  <2>5. QED  BY <2>1, <2>2, <2>4 DEF ObjectsKept, Kept, Free
<1>2. QED  BY <1>1, PoolInvariant, PTL

(* The free list has every slot that was cut and that no client holds, and  *)
(* each once; ~MemoryPool gives every block back, and each once.            *)
THEOREM PoolIsSound == Spec => []PoolSound
<1>1. ASSUME PoolInv PROVE FreeListExact
  <2> DEFINE n == Cardinality(Free)
             walk == CHOOSE w : w = [i \in 0 .. n |->
                         IF i = 0 THEN freeSlots
                         ELSE IF w[i - 1] \in Free THEN mem[w[i - 1]] ELSE Null]
  <2>1. PICK q : Path(q, freeSlots, Free, mem)  BY <1>1 DEF PoolInv, IInv, FreePath
  <2>2. n \in Nat /\ n = Len(q)  BY <2>1, PathLength
  <2>3. walk = [i \in 0 .. n |-> IF i < Len(q) THEN q[i + 1] ELSE Null]
    <3>1. walk = Walk(freeSlots, Free, mem, n)  BY Zenon DEF Walk
    <3> HIDE DEF n, walk
    <3>2. QED  BY <2>1, <2>2, <3>1, PathWalk
  <2> HIDE DEF walk
  <2>4. walk[n] = Null  BY <2>2, <2>3
  <2>5. ASSUME NEW i \in 0 .. n PROVE walk[i] \in Free \cup {Null}
    <3>1. \A j \in 1 .. Len(q) : q[j] \in Free  BY <2>1 DEF Path
    <3>2. QED  BY <2>2, <2>3, <3>1
  <2>6. ASSUME NEW s \in Free PROVE \E i \in 0 .. n : walk[i] = s
    <3>1. PICK j \in 1 .. Len(q) : q[j] = s  BY <2>1 DEF Path
    <3>2. j - 1 \in 0 .. n /\ (j - 1) + 1 = j /\ j - 1 < Len(q)  BY <2>2
    <3>3. QED  BY <2>3, <3>1, <3>2
  <2>7. {walk[i] : i \in 0 .. n} = Free \cup {Null}
    <3>1. n \in 0 .. n  BY <2>2
    <3>2. QED  BY <2>4, <2>5, <2>6, <3>1
  <2>8. \A e \in Held : mem[at[e]] = e  BY <1>1 DEF PoolInv, IInv, Kept
  <2>9. QED  BY <2>4, <2>7, <2>8, Zenon DEF FreeListExact, walk, Free
<1>2. ASSUME PoolInv PROVE BlocksFreed
  <2>1. SUFFICES ASSUME ~Alive
                 PROVE  /\ Len(deleted) = currentBlock
                        /\ {deleted[i] : i \in DOMAIN deleted} = 1 .. currentBlock
    BY DEF BlocksFreed
  <2>2. currentBlock \in Nat /\ deleted = [i \in 1 .. currentBlock |-> currentBlock + 1 - i]
    BY <1>2, <2>1 DEF PoolInv, BlocksOK, Backwards, Alive, IInv, PlaceInv, CurrentOK
  <2>3. \A i \in 1 .. currentBlock : currentBlock + 1 - i \in 1 .. currentBlock
                                     /\ deleted[currentBlock + 1 - i] = i
    BY <2>2
  <2>4. Len(deleted) = currentBlock  BY <2>2
  <2>5. QED  BY <2>2, <2>3, <2>4
<1>3. QED  BY <1>1, <1>2, PoolInvariant, PTL DEF PoolSound

-----------------------------------------------------------------------------
(* The stack over the pool *)

Below == [t \in Live |-> prev(t)]
Top == IF clearing THEN curr ELSE head

\* The nodes that clients hold are linked one after the other, from the top or
\* from where clear is.
StackPath == \E q : Path(q, Top, Live, Below)

StackInv == PoolInv /\ StackPath /\ clearing \in BOOLEAN

(* A node is what its slot holds, and is found there. *)
LEMMA NodeAt ==
    ASSUME Kept, NEW s \in Live
    PROVE  s \in DOMAIN mem /\ mem[s] \in Held /\ at[mem[s]] = s
<1>1. PICK e \in Held : s = at[e]  BY DEF Live
<1>2. QED  BY <1>1 DEF Kept

(* allocate gives a slot that no client holds, and leaves theirs alone. *)
LEMMA AllocateEffect ==
    ASSUME IInv, NEW e, e \notin Held, Allocate(e)
    PROVE  \E s : /\ s \notin Live /\ s # Null
                  /\ at'[e] = s /\ mem'[s] = e /\ Live' = Live \cup {s}
                  /\ \A t \in Live : mem'[t] = mem[t]
<1>0. /\ Live \subseteq DOMAIN mem /\ DOMAIN mem \subseteq Slots /\ Null \notin Slots
      /\ Null \notin DOMAIN mem
  BY NullAssumption DEF NullAssumption, IInv, PlaceInv, Kept, Live
<1>1. ASSUME NEW s, s \notin Live, s # Null, Construct(e, s)
      PROVE  /\ at'[e] = s /\ mem'[s] = e /\ Live' = Live \cup {s}
             /\ \A t \in Live : mem'[t] = mem[t]
  <2>1. /\ Held' = Held \cup {e}
        /\ at'[e] = s
        /\ \A x \in Held : at'[x] = at[x]
        /\ DOMAIN mem' = DOMAIN mem \cup {s}
        /\ mem'[s] = e
        /\ \A t \in DOMAIN mem : t # s => mem'[t] = mem[t]
        /\ Live' = Live \cup {s}
    BY <1>1, ConstructEffect
  <2>2. QED  BY <1>0, <1>1, <2>1
<1> USE MemoryPoolAssumption DEF MemoryPoolAssumption
<1>2. CASE AllocateFree(e)
  <2>1. PICK q : Path(q, freeSlots, Free, mem)  BY DEF IInv, FreePath
  <2>2. freeSlots \in Free /\ freeSlots # Null /\ Construct(e, freeSlots)
    BY <1>2, <2>1, PathFirst DEF AllocateFree
  <2>3. freeSlots \notin Live  BY <2>2 DEF Free
  <2>4. QED  BY <1>1, <2>2, <2>3
<1>3. CASE AllocateCut(e)
  <2>1. currentSlot # Null /\ Construct(e, currentSlot)
    BY <1>3 DEF AllocateCut, BlockIsFull, Cut
  <2>2. currentSlot \notin DOMAIN mem
    <3>1. SUFFICES ASSUME currentSlot \in DOMAIN mem PROVE FALSE  OBVIOUS
    <3>2. currentSlot \in Slots /\ currentSlot[1] = currentBlock
      BY <2>1 DEF IInv, PlaceInv, CurrentOK
    <3>3. currentSlot[2] + SlotSize <= currentSlot[2] /\ currentSlot[2] \in Nat
      BY <3>1, <3>2 DEF IInv, PlaceInv, CutBefore, Slots
    <3>4. QED  BY <3>3
  <2>3. QED  BY <1>0, <1>1, <2>1, <2>2
<1>4. CASE AllocateBlock(e)
  <2> DEFINE s == <<currentBlock + 1, FirstSlot>>
  <2>1. currentBlock \in 0 .. MaxBlocks - 1 /\ FirstSlot \in Nat /\ FirstSlot <= SlotSize
    BY <1>4, FirstSlotFits DEF AllocateBlock, IInv, PlaceInv, CurrentOK
  <2>2. s \in Slots /\ s[1] = currentBlock + 1  BY <2>1 DEF Slots
  <2>3. Construct(e, s)  BY <1>4, Zenon DEF AllocateBlock, Cut
  <2> HIDE DEF s
  <2>4. s \notin DOMAIN mem  BY <2>1, <2>2 DEF IInv, PlaceInv, InBlock
  <2>5. QED  BY <1>0, <1>1, <2>2, <2>3, <2>4
<1>5. QED  BY <1>2, <1>3, <1>4 DEF Allocate

(* push: the new node is on top of the others. *)
LEMMA PushPath ==
    ASSUME StackInv, NEW v, Push(v), NEW q, Path(q, head, Live, Below)
    PROVE  /\ <<v, head>> \notin Held /\ Allocate(<<v, head>>)
           /\ Path(<<head'>> \o q, head', Live', Below')
           /\ head' \notin Live /\ mem'[head'] = <<v, head>>
           /\ \A t \in Live : mem'[t] = mem[t]
<1> DEFINE e == <<v, head>>
<1>1. e[2] = head /\ Kept /\ IInv  BY DEF StackInv, PoolInv, IInv
<1>2. Allocate(e) /\ head' = at'[e]  BY Zenon DEF Push
<1> HIDE DEF e
<1>3. e \notin Held
  <2>1. SUFFICES ASSUME e \in Held PROVE FALSE  OBVIOUS
  <2>2. at[e] \in Live /\ mem[at[e]] = e  BY <1>1, <2>1 DEF Kept, Live
  <2>3. Below[at[e]] = head  BY <1>1, <2>2 DEF Below, prev
  <2>4. QED  BY <2>2, <2>3, PathFirst
<1>4. PICK s : /\ s \notin Live /\ s # Null
               /\ at'[e] = s /\ mem'[s] = e /\ Live' = Live \cup {s}
               /\ \A t \in Live : mem'[t] = mem[t]
  BY <1>1, <1>2, <1>3, AllocateEffect
<1>5. Below' = [t \in Live' |-> mem'[t][2]]  BY DEF Below, prev
<1>6. Below'[s] = head /\ \A t \in Live : Below'[t] = Below[t]
  BY <1>1, <1>4, <1>5 DEF Below, prev
<1>7. Path(<<s>> \o q, s, Live \cup {s}, Below')
  BY <1>4, <1>6, PathPush
<1>8. QED  BY <1>2, <1>3, <1>4, <1>7 DEF e

(* pop and the loop of clear: the node given back was on top of the others, *)
(* and the link below was read before.                                      *)
LEMMA PopPath ==
    ASSUME StackInv, NEW top, top # Null, Deallocate(mem[top]),
           NEW q, Path(q, top, Live, Below)
    PROVE  /\ mem[top] \in Held /\ Path(Tail(q), prev(top), Live', Below')
           /\ \A t \in Live' : t \in Live /\ mem'[t] = mem[t]
<1>1. Kept  BY DEF StackInv, PoolInv, IInv
<1>2. top \in Live  BY PathFirst
<1>3. mem[top] \in Held /\ at[mem[top]] = top /\ Live \subseteq DOMAIN mem
  BY <1>1, <1>2, NodeAt
<1>4. /\ \A t \in DOMAIN mem : t # top => mem'[t] = mem[t]
      /\ Live' = Live \ {top}
  BY <1>1, <1>3, DeallocateEffect
<1>5. Below' = [t \in Live' |-> mem'[t][2]]  BY DEF Below, prev
<1>6. \A t \in Live \ {top} : Below'[t] = Below[t]
  BY <1>3, <1>4, <1>5 DEF Below, prev
<1>7. Below[top] = prev(top)  BY <1>2 DEF Below
<1>8. Path(Tail(q), prev(top), Live \ {top}, Below')
  BY <1>6, <1>7, PathPop
<1>9. QED  BY <1>3, <1>4, <1>8

(* Every call keeps the pool and the links of the stack. *)
LEMMA StackInvStep == StackInv /\ [StackNext]_<<vars, stackVars>> => StackInv'
<1> SUFFICES ASSUME StackInv, [StackNext]_<<vars, stackVars>> PROVE StackInv'  OBVIOUS
<1>0. PoolInv /\ clearing \in BOOLEAN  BY DEF StackInv
<1>1. PICK q : Path(q, Top, Live, Below)  BY DEF StackInv, StackPath
<1>2. ASSUME NEW v, Push(v) PROVE StackInv'
  <2>1. ~clearing /\ clearing' = clearing  BY <1>2 DEF Push
  <2>2. /\ <<v, head>> \notin Held /\ Allocate(<<v, head>>)
        /\ Path(<<head'>> \o q, head', Live', Below')
    <3>1. Path(q, head, Live, Below)  BY <1>1, <2>1 DEF Top
    <3>2. QED  BY <1>2, <3>1, PushPath
  <2>3. PoolInv'  BY <1>0, <2>2, PoolInvStep
  <2>4. Top' = head'  BY <2>1 DEF Top
  <2>5. QED  BY <1>0, <2>1, <2>2, <2>3, <2>4 DEF StackInv, StackPath
<1>3. CASE Pop
  <2>1. ~clearing /\ clearing' = clearing /\ head # Null /\ head' = prev(head)
        /\ Deallocate(mem[head])
    BY <1>3 DEF Pop
  <2>2. mem[head] \in Held /\ Path(Tail(q), prev(head), Live', Below')
    <3>1. Path(q, head, Live, Below)  BY <1>1, <2>1 DEF Top
    <3>2. QED  BY <2>1, <3>1, PopPath
  <2>3. PoolInv'  BY <1>0, <2>1, <2>2, PoolInvStep
  <2>4. Top' = prev(head)  BY <2>1 DEF Top
  <2>5. QED  BY <1>0, <2>1, <2>2, <2>3, <2>4 DEF StackInv, StackPath
<1>4. CASE ClearNode
  <2>1. clearing /\ clearing' = clearing /\ curr # Null /\ curr' = prev(curr)
        /\ Deallocate(mem[curr])
    BY <1>4 DEF ClearNode
  <2>2. mem[curr] \in Held /\ Path(Tail(q), prev(curr), Live', Below')
    <3>1. Path(q, curr, Live, Below)  BY <1>1, <2>1 DEF Top
    <3>2. QED  BY <2>1, <3>1, PopPath
  <2>3. PoolInv'  BY <1>0, <2>1, <2>2, PoolInvStep
  <2>4. Top' = prev(curr)  BY <2>1 DEF Top
  <2>5. QED  BY <1>0, <2>1, <2>2, <2>3, <2>4 DEF StackInv, StackPath
<1>5. ASSUME Destroy \/ UNCHANGED vars, Top' = Top, clearing' \in BOOLEAN PROVE StackInv'
  <2>1. PoolInv'  BY <1>0, <1>5, PoolInvStep
  <2>2. UNCHANGED <<mem, at>>  BY <1>5 DEF Destroy, vars
  <2>3. Live' = Live /\ Below' = Below  BY <2>2 DEF Live, Held, Below, prev
  <2>4. QED  BY <1>1, <1>5, <2>1, <2>3 DEF StackInv, StackPath
<1>6. CASE ClearStart \/ ClearEnd
  BY <1>5, <1>6 DEF ClearStart, ClearEnd, Top
<1>7. CASE End \/ UNCHANGED <<vars, stackVars>>
  <2>1. UNCHANGED <<head, curr, clearing>> /\ (Destroy \/ UNCHANGED vars)
    BY <1>7 DEF End, stackVars
  <2>2. QED  BY <1>0, <1>5, <2>1 DEF Top
<1>8. QED
  BY <1>2, <1>3, <1>4, <1>6, <1>7 DEF StackNext, Clearing

(* A walk down from the top meets the nodes of the path. *)
LEMMA ChainedIsPath ==
    ASSUME NEW q, NEW s, Path(q, s, Live, Below)
    PROVE  Chained(s) = q
<1> DEFINE n == Cardinality(Live)
           walk == CHOOSE w : w = [i \in 0 .. n |->
                       IF i = 0 THEN s
                       ELSE IF w[i - 1] \in Live THEN Below[w[i - 1]] ELSE Null]
           length == Cardinality({i \in 0 .. n - 1 : walk[i] # Null})
<1>1. n \in Nat /\ n = Len(q)  BY PathLength
<1>2. walk = [i \in 0 .. n |-> IF i < Len(q) THEN q[i + 1] ELSE Null]
  <2>1. walk = Walk(s, Live, Below, n)  BY Zenon DEF Walk
  <2> HIDE DEF n, walk
  <2>2. QED  BY <1>1, <2>1, PathWalk
<1>3. Chained(s) = [i \in 1 .. length |-> walk[i - 1]]  BY Zenon DEF Chained, Below
<1> HIDE DEF walk
<1>4. q \in Seq(Live) /\ Null \notin Live  BY DEF Path
<1> HIDE DEF n
<1>5. length = n
  <2>1. \A i \in 0 .. n - 1 : walk[i] # Null  BY <1>1, <1>2, <1>4
  <2>2. {i \in 0 .. n - 1 : walk[i] # Null} = 0 .. n - 1  BY <2>1
  <2>3. Cardinality(0 .. n - 1) = n
    <3>1. 0 \in Int /\ n - 1 \in Int  BY <1>1
    <3>2. Cardinality(0 .. n - 1) = IF 0 > n - 1 THEN 0 ELSE (n - 1) - 0 + 1
      BY <3>1, FS_Interval
    <3>3. QED  BY <1>1, <3>2
  <2>4. QED  BY <2>2, <2>3
<1> HIDE DEF length
<1>6. \A i \in 1 .. n : walk[i - 1] = q[i]  BY <1>1, <1>2
<1>7. QED  BY <1>1, <1>3, <1>4, <1>5, <1>6

(* At first nothing is on the stack. *)
LEMMA StackInvInit == StackInit => StackInv
<1> SUFFICES ASSUME StackInit PROVE StackInv  OBVIOUS
<1>1. PoolInv /\ clearing \in BOOLEAN  BY PoolInvInit DEF StackInit
<1>2. Live = {} /\ Top = Null  BY DEF StackInit, Init, Live, Held, Top
<1>3. <<>> \in Seq({}) /\ Len(<<>>) = 0  OBVIOUS
<1>4. Path(<<>>, Null, {}, Below)  BY <1>3 DEF Path
<1>5. QED  BY <1>1, <1>2, <1>4 DEF StackInv, StackPath

(* Every reachable state of a stack satisfies the inductive invariant. *)
LEMMA StackInvariant == StackSpec => []StackInv
BY StackInvInit, StackInvStep, PTL DEF StackSpec

(* What the pool counts as taken is on the stack. *)
LEMMA StackInvLeaks == StackInv => NoLeak
<1> SUFFICES ASSUME StackInv PROVE NoLeak  OBVIOUS
<1>1. PICK q : Path(q, Top, Live, Below)  BY DEF StackInv, StackPath
<1>2. Chained(IF clearing THEN curr ELSE head) = q  BY <1>1, ChainedIsPath DEF Top
<1>3. Len(q) = Cardinality(Live)  BY <1>1, PathLength
<1>4. {q[i] : i \in DOMAIN q} = Live  BY <1>1 DEF Path
<1>5. QED  BY <1>2, <1>3, <1>4 DEF NoLeak

(* push, pop and clear of StackAllocator leak no slot of the pool: what the *)
(* pool counts as taken is on the stack, or still to be met by clear.       *)
THEOREM StackLeaksNothing == StackSpec => []NoLeak
BY StackInvariant, StackInvLeaks, PTL

\* What a client sees are the data of the nodes on the path, the top one last.
Shown ==
    \A q : Path(q, head, Live, Below) =>
               Contents = [i \in 1 .. Len(q) |-> mem[q[Len(q) + 1 - i]][1]]

(* The walk from head_ down gives what a client sees. *)
LEMMA ContentsShown == Shown
<1> SUFFICES ASSUME NEW q, Path(q, head, Live, Below)
             PROVE  Contents = [i \in 1 .. Len(q) |-> mem[q[Len(q) + 1 - i]][1]]
  BY DEF Shown
<1>1. Chained(head) = q  BY ChainedIsPath
<1>2. DOMAIN q = 1 .. Len(q)  BY DEF Path
<1>3. QED  BY <1>1, <1>2 DEF Contents, data

(* The same of the state after a step. *)
LEMMA ContentsShownNext == Shown'
BY ContentsShown, PTL

(* A function on 1 .. n is a sequence. *)
LEMMA FunctionIsSequence ==
    ASSUME NEW n \in Nat, NEW f, f = [i \in 1 .. n |-> f[i]], NEW v
    PROVE  /\ Len(f) = n
           /\ Append(f, v) = [i \in 1 .. n + 1 |-> IF i \in 1 .. n THEN f[i] ELSE v]
           /\ n > 0 => f # <<>> /\ SubSeq(f, 1, n - 1) = [i \in 1 .. n - 1 |-> f[i]]
<1> DEFINE S == {f[i] : i \in 1 .. n} \cup {v}
<1>1. \A i \in 1 .. n : f[i] \in S  OBVIOUS
<1>2. v \in S  OBVIOUS
<1> HIDE DEF S
<1>3. f \in [1 .. n -> S]  BY <1>1
<1>4. f \in Seq(S) /\ Len(f) = n  BY <1>3
<1>5. Append(f, v) = [i \in 1 .. n + 1 |-> IF i \in 1 .. n THEN f[i] ELSE v]
  <2>1. /\ Append(f, v) \in Seq(S) /\ Len(Append(f, v)) = n + 1
        /\ \A i \in 1 .. n : Append(f, v)[i] = f[i]
        /\ Append(f, v)[n + 1] = v
    BY <1>2, <1>4, AppendProperties
  <2>2. Append(f, v) = [i \in 1 .. n + 1 |-> Append(f, v)[i]]  BY <2>1
  <2>3. \A i \in 1 .. n + 1 : Append(f, v)[i] = IF i \in 1 .. n THEN f[i] ELSE v
    BY <2>1
  <2>4. QED  BY <2>2, <2>3
<1>6. n > 0 => SubSeq(f, 1, n - 1) = [i \in 1 .. n - 1 |-> f[i]]
  BY <1>4
<1>7. QED  BY <1>4, <1>5, <1>6

(* push adds its value to what is seen. *)
LEMMA PushShows ==
    ASSUME StackInv, NEW v, Push(v)
    PROVE  Visible' = Append(Visible, v) /\ result' = result
<1>1. ~clearing /\ ~clearing' /\ result' = result  BY DEF Push
<1>2. PICK q : Path(q, head, Live, Below)
  BY <1>1 DEF StackInv, StackPath, Top
<1> DEFINE p == <<head'>> \o q
           n == Len(q)
<1>3. /\ Path(p, head', Live', Below') /\ mem'[head'] = <<v, head>>
      /\ \A t \in Live : mem'[t] = mem[t]
  BY <1>2, PushPath
<1>4. n \in Nat /\ q \in Seq(Live) /\ \A i \in 1 .. n : q[i] \in Live  BY <1>2 DEF Path
<1>5. Len(p) = n + 1 /\ p[1] = head' /\ \A i \in 2 .. n + 1 : p[i] = q[i - 1]
  <2>1. <<head'>> \in Seq(Live \cup {head'}) /\ q \in Seq(Live \cup {head'})
        /\ Len(<<head'>>) = 1
    BY <1>4
  <2>2. QED  BY <1>4, <2>1, ConcatProperties
<1> HIDE DEF p
<1>6. Contents = [i \in 1 .. n |-> mem[q[n + 1 - i]][1]]  BY <1>2, ContentsShown DEF Shown
<1>7. Contents' = [i \in 1 .. n + 1 |-> mem'[p[n + 1 + 1 - i]][1]]
  BY <1>3, <1>5, ContentsShownNext DEF Shown
<1>8. ASSUME NEW i \in 1 .. n PROVE mem'[p[n + 1 + 1 - i]] = mem[q[n + 1 - i]]
  <2>1. n + 1 + 1 - i \in 2 .. n + 1 /\ (n + 1 + 1 - i) - 1 = n + 1 - i
        /\ n + 1 - i \in 1 .. n
    BY <1>4
  <2>2. p[n + 1 + 1 - i] = q[n + 1 - i] /\ q[n + 1 - i] \in Live  BY <1>4, <1>5, <2>1
  <2>3. QED  BY <1>3, <2>2
<1>9. mem'[p[n + 1 + 1 - (n + 1)]][1] = v
  <2>1. n + 1 + 1 - (n + 1) = 1  BY <1>4
  <2>2. QED  BY <1>3, <1>5, <2>1
<1>10. Contents = [i \in 1 .. n |-> Contents[i]]  BY <1>6
<1>11. Append(Contents, v) = [i \in 1 .. n + 1 |-> IF i \in 1 .. n THEN Contents[i] ELSE v]
  <2> HIDE DEF n
  <2>1. QED  BY <1>4, <1>10, FunctionIsSequence
<1>12. ASSUME NEW i \in 1 .. n + 1
       PROVE  mem'[p[n + 1 + 1 - i]][1] = IF i \in 1 .. n THEN Contents[i] ELSE v
  <2>1. CASE i \in 1 .. n  BY <1>6, <1>8, <2>1
  <2>2. CASE i = n + 1  BY <1>4, <1>9, <2>2
  <2>3. QED  BY <1>4, <2>1, <2>2
<1>13. Contents' = Append(Contents, v)
  <2> HIDE DEF n
  <2>1. QED  BY <1>7, <1>11, <1>12
<1>14. QED  BY <1>1, <1>13 DEF Visible

(* pop returns the top of what is seen and takes it off. *)
LEMMA PopShows ==
    ASSUME StackInv, Pop
    PROVE  Stack!Pop
<1>1. ~clearing /\ ~clearing' /\ head # Null /\ head' = prev(head)
      /\ Deallocate(mem[head]) /\ result' = mem[head][1]
  BY DEF Pop, data
<1>2. PICK q : Path(q, head, Live, Below)
  BY <1>1 DEF StackInv, StackPath, Top
<1> DEFINE p == Tail(q)
           n == Len(q)
<1>3. Path(p, head', Live', Below') /\ \A t \in Live' : mem'[t] = mem[t]
  BY <1>1, <1>2, PopPath
<1>4. n \in Nat \ {0} /\ q \in Seq(Live) /\ q[1] = head  BY <1>1, <1>2 DEF Path
<1>5. Len(p) = n - 1 /\ \A i \in 1 .. n - 1 : p[i] = q[i + 1]  BY <1>4
<1> HIDE DEF p
<1>6. Contents = [i \in 1 .. n |-> mem[q[n + 1 - i]][1]]  BY <1>2, ContentsShown DEF Shown
<1>7. Contents' = [i \in 1 .. n - 1 |-> mem'[p[n - 1 + 1 - i]][1]]
  <2>1. Contents' = [i \in 1 .. Len(p) |-> mem'[p[Len(p) + 1 - i]][1]]
    BY <1>3, ContentsShownNext DEF Shown
  <2>2. QED  BY <1>5, <2>1
<1>8. ASSUME NEW i \in 1 .. n - 1 PROVE mem'[p[n - 1 + 1 - i]][1] = Contents[i]
  <2>1. n - 1 + 1 - i \in 1 .. n - 1 /\ (n - 1 + 1 - i) + 1 = n + 1 - i /\ i \in 1 .. n
    BY <1>4
  <2>2. p[n - 1 + 1 - i] \in Live'  BY <1>3, <1>5, <2>1 DEF Path
  <2>3. p[n - 1 + 1 - i] = q[n + 1 - i]  BY <1>5, <2>1
  <2>4. QED  BY <1>3, <1>6, <2>1, <2>2, <2>3
<1>9. Contents = [i \in 1 .. n |-> Contents[i]]  BY <1>6
<1>10. /\ Len(Contents) = n /\ Contents # <<>>
       /\ SubSeq(Contents, 1, n - 1) = [i \in 1 .. n - 1 |-> Contents[i]]
  <2> HIDE DEF n
  <2>1. n \in Nat /\ n > 0  BY <1>4
  <2>2. QED  BY <1>9, <2>1, FunctionIsSequence
<1>11. Contents' = SubSeq(Contents, 1, n - 1)
  <2> HIDE DEF n
  <2>1. QED  BY <1>7, <1>8, <1>10
<1>12. result' = Contents[n]
  <2>1. n \in 1 .. n /\ n + 1 - n = 1  BY <1>4
  <2>2. Contents[n] = mem[q[1]][1]  BY <1>6, <2>1
  <2>3. QED  BY <1>1, <1>4, <2>2
<1>13. QED  BY <1>1, <1>10, <1>11, <1>12 DEF Stack!Pop, Visible

(* Nothing is on a stack without a top. *)
LEMMA EmptyShows ==
    ASSUME StackInv, head = Null, ~clearing
    PROVE  Contents = <<>>
<1>1. PICK q : Path(q, head, Live, Below)  BY DEF StackInv, StackPath, Top
<1>2. Len(q) = 0  BY <1>1, PathFirst, PathLength, FS_EmptySet
<1>3. Contents = [i \in 1 .. 0 |-> mem[q[0 + 1 - i]][1]]
  BY <1>1, <1>2, ContentsShown DEF Shown
<1>4. QED  BY <1>3

(* The same of the state after a step. *)
LEMMA EmptyShowsNext == (StackInv /\ head = Null /\ ~clearing => Contents = <<>>)'
<1>1. StackInv /\ head = Null /\ ~clearing => Contents = <<>>  BY EmptyShows
<1>2. QED  BY <1>1, PTL

(* Each call does to what is seen what the same call of a stack does, or    *)
(* nothing.                                                                 *)
LEMMA StackStep ==
    StackInv /\ StackInv' /\ [StackNext]_<<vars, stackVars>>
    => [Stack!Next]_<<Visible, result>>
<1> SUFFICES ASSUME StackInv, StackInv', [StackNext]_<<vars, stackVars>>
             PROVE  [Stack!Next]_<<Visible, result>>
  OBVIOUS
<1>1. ASSUME NEW v \in Values, Push(v) PROVE Stack!Next
  BY <1>1, PushShows DEF Stack!Next, Stack!Push
<1>2. CASE Pop  BY <1>2, PopShows DEF Stack!Next
<1>3. CASE ClearStart
  BY <1>3 DEF ClearStart, Visible, Stack!Next, Stack!Clear
<1>4. CASE ClearNode
  BY <1>4 DEF ClearNode, Visible
<1>5. CASE ClearEnd
  <2>1. clearing /\ ~clearing' /\ head' = Null /\ result' = result  BY <1>5 DEF ClearEnd
  <2>2. Contents' = <<>>  BY <2>1, EmptyShowsNext
  <2>3. QED  BY <2>1, <2>2 DEF Visible
<1>6. CASE End \/ UNCHANGED <<vars, stackVars>>
  <2>1. UNCHANGED <<mem, at, head, clearing, result>>
    BY <1>6 DEF End, Destroy, vars, stackVars
  <2>2. Live' = Live  BY <2>1 DEF Live, Held
  <2>3. Contents' = Contents
    BY <2>1, <2>2 DEF Contents, Chained, prev, data
  <2>4. QED  BY <2>1, <2>3 DEF Visible
<1>7. QED
  BY <1>1, <1>2, <1>3, <1>4, <1>5, <1>6 DEF StackNext, Clearing

(* StackAllocator over a MemoryPool, whose slots come back in any order, is *)
(* a stack: pop returns what was pushed last, and clear forgets all of it.  *)
THEOREM StackIsStack == StackSpec => IsStack
<1>1. StackInit /\ StackInv => Stack!Init
  BY EmptyShows DEF StackInit, Stack!Init, Visible
<1>2. QED
  BY <1>1, StackInvariant, StackStep, PTL DEF StackSpec, IsStack, Stack!Spec
=============================================================================

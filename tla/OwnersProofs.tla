---------------------------- MODULE OwnersProofs ----------------------------
(***************************************************************************)
(* For every number of cells, pointers, vectors and places: what the       *)
(* owning classes own is alive and owned once, and their calls do to the   *)
(* values what their names say.  Each class has an invariant of its own,   *)
(* which its member functions keep; a behaviour of Owners is one of them.  *)
(***************************************************************************)
EXTENDS MapsProofs, MemoryPoolProofs, FunctionTheorems

\* An operator has a name in every instance.
LEMMA SameCardinality ==
    \A S : /\ Shared!Cardinality(S) = Cardinality(S) /\ Unique!Cardinality(S) = Cardinality(S)
           /\ Vec!Cardinality(S) = Cardinality(S) /\ Grid!Cardinality(S) = Cardinality(S)
BY DEF Shared!Cardinality, Unique!Cardinality, Vec!Cardinality, Grid!Cardinality, Cardinality

-----------------------------------------------------------------------------
(* SharedPtr *)

\* Heap h is that of the pointers o, and has the objects X beside, which no
\* pointer owns yet: cells are either objects or counters, pointers share a
\* counter if and only if they share an object, and it counts them.
OwnersIn(o, x) == {q \in DOMAIN o : o[q].ptr = x}
SharedTyped(h, o, X) ==
    /\ h \in [DOMAIN h -> Nat] /\ DOMAIN h \subseteq CountedCells
    /\ o \in [DOMAIN o -> [ptr : CountedCells \cup {0}, rc : CountedCells \cup {0}]]
    /\ DOMAIN o \subseteq Ptrs
    /\ X \subseteq DOMAIN h
SharedLinks(h, o, X) ==
    /\ \A p \in DOMAIN o : (o[p].ptr = 0) <=> (o[p].rc = 0)
    /\ \A p \in DOMAIN o : o[p].ptr # 0 =>
           o[p].ptr \in DOMAIN h \ X /\ o[p].rc \in DOMAIN h \ X
    /\ \A p, q \in DOMAIN o : o[p].ptr # 0 =>
           /\ (o[p].ptr = o[q].ptr) <=> (o[p].rc = o[q].rc)
           /\ o[p].ptr # o[q].rc
    /\ \A c \in DOMAIN h \ X : \E p \in DOMAIN o : c = o[p].ptr \/ c = o[p].rc
SharedCounts(h, o) ==
    \A p \in DOMAIN o : o[p].ptr # 0 => h[o[p].rc] = Cardinality(OwnersIn(o, o[p].ptr))
SharedOK(h, o, X) == SharedTyped(h, o, X) /\ SharedLinks(h, o, X) /\ SharedCounts(h, o)

\* The owners of an object are finitely many, and one more or less of them.
LEMMA OwnersCount ==
    ASSUME NEW o, DOMAIN o \subseteq Ptrs, NEW x
    PROVE  /\ IsFiniteSet(OwnersIn(o, x))
           /\ Cardinality(OwnersIn(o, x)) \in Nat
           /\ Cardinality(OwnersIn(o, x)) = 0 <=> OwnersIn(o, x) = {}
           /\ \A p : p \notin OwnersIn(o, x) =>
                  Cardinality(OwnersIn(o, x) \cup {p}) = Cardinality(OwnersIn(o, x)) + 1
           /\ \A p \in OwnersIn(o, x) :
                  /\ Cardinality(OwnersIn(o, x) \ {p}) = Cardinality(OwnersIn(o, x)) - 1
                  /\ Cardinality(OwnersIn(o, x)) = 1 => OwnersIn(o, x) = {p}
<1> DEFINE S == OwnersIn(o, x)
<1>1. IsFiniteSet(S)
  BY OwnersAssumption, FS_Subset DEF OwnersAssumption, OwnersIn
<1> HIDE DEF S
<1>2. Cardinality(S) \in Nat /\ (Cardinality(S) = 0 <=> S = {})
  BY <1>1, FS_CardinalityType, FS_EmptySet
<1>3. \A p : p \notin S => Cardinality(S \cup {p}) = Cardinality(S) + 1
  BY <1>1, FS_AddElement
<1>4. \A p \in S : Cardinality(S \ {p}) = Cardinality(S) - 1
  BY <1>1, FS_RemoveElement
<1>5. ASSUME NEW p \in S, Cardinality(S) = 1 PROVE S = {p}
  <2>1. Cardinality(S \ {p}) = 0  BY <1>4, <1>5
  <2>2. IsFiniteSet(S \ {p})  BY <1>1, FS_RemoveElement
  <2>3. S \ {p} = {}  BY <2>1, <2>2, FS_EmptySet
  <2>4. QED  BY <2>3
<1>6. QED  BY <1>1, <1>2, <1>3, <1>4, <1>5 DEF S

\* What new gives is a cell that was not live.
LEMMA SharedFresh ==
    ASSUME NEW h, NEW n \in Nat \ {0}, Shared!Room(h, n)
    PROVE  Shared!Fresh(h) \in CountedCells \ DOMAIN h
<1>1. CountedCells \ DOMAIN h # {}
  <2>1. SUFFICES ASSUME CountedCells \ DOMAIN h = {} PROVE FALSE  OBVIOUS
  <2>2. Cardinality(CountedCells \ DOMAIN h) = 0  BY <2>1, FS_EmptySet
  <2>3. QED  BY <2>2, SameCardinality DEF Shared!Room
<1>2. QED  BY <1>1 DEF Shared!Fresh

Without(o, p) == [q \in DOMAIN o \ {p} |-> o[q]]

\* release: the pointer that owned the object last deletes it and its counter.
LEMMA SharedRelease ==
    ASSUME NEW h, NEW o, NEW X, SharedOK(h, o, X), NEW p \in DOMAIN o,
           NEW m, m = Shared!release([mem |-> h, p |-> o[p]])
    PROVE  SharedOK(m, Without(o, p), X) /\ DOMAIN m \subseteq DOMAIN h
<1> DEFINE x == o[p].ptr
           c == o[p].rc
           u == Without(o, p)
<1>1. /\ DOMAIN u = DOMAIN o \ {p} /\ \A q \in DOMAIN u : u[q] = o[q]
      /\ u \in [DOMAIN u -> [ptr : CountedCells \cup {0}, rc : CountedCells \cup {0}]]
  BY DEF SharedOK, SharedTyped, Without
<1>2. /\ DOMAIN o \subseteq Ptrs /\ DOMAIN u \subseteq Ptrs
      /\ h \in [DOMAIN h -> Nat] /\ DOMAIN h \subseteq CountedCells /\ X \subseteq DOMAIN h
  BY <1>1 DEF SharedOK, SharedTyped
<1>3. \A y : OwnersIn(u, y) = OwnersIn(o, y) \ {p}
  BY <1>1 DEF OwnersIn
<1>4. 0 \notin CountedCells  BY OwnersAssumption DEF OwnersAssumption
<1> HIDE DEF u
<1>5. CASE x = 0
  <2>1. m = h  BY <1>5 DEF Shared!release, Shared!Nil
  <2>2. \A y : y # 0 => OwnersIn(u, y) = OwnersIn(o, y)
    BY <1>3, <1>5 DEF OwnersIn
  <2>3. c = 0  BY <1>5 DEF SharedOK, SharedLinks
  <2>4. SharedLinks(m, u, X)
    <3>1. \A d \in DOMAIN m \ X : \E q \in DOMAIN u : d = u[q].ptr \/ d = u[q].rc
      <4>1. TAKE d \in DOMAIN m \ X
      <4>2. PICK q \in DOMAIN o : d = o[q].ptr \/ d = o[q].rc
        BY <2>1 DEF SharedOK, SharedLinks
      <4>3. d # 0 BY <1>2, <1>4, <2>1
      <4>4. q # p  BY <1>5, <2>3, <4>2, <4>3
      <4>5. QED  BY <1>1, <4>2, <4>4
    <3>2. \A q, r \in DOMAIN u : u[q].ptr # 0 =>
              /\ (u[q].ptr = u[r].ptr) <=> (u[q].rc = u[r].rc)
              /\ u[q].ptr # u[r].rc
      BY <1>1 DEF SharedOK, SharedLinks
    <3>3. \A q \in DOMAIN u :
              /\ (u[q].ptr = 0) <=> (u[q].rc = 0)
              /\ u[q].ptr # 0 => u[q].ptr \in DOMAIN m \ X /\ u[q].rc \in DOMAIN m \ X
      BY <1>1, <2>1 DEF SharedOK, SharedLinks
    <3>4. QED  BY <3>1, <3>2, <3>3 DEF SharedLinks
  <2>5. SharedCounts(m, u)
    BY <1>1, <2>1, <2>2 DEF SharedOK, SharedCounts
  <2>6. QED  BY <1>1, <1>2, <2>1, <2>4, <2>5 DEF SharedOK, SharedTyped, u
<1>6. CASE x # 0
  <2>1. /\ x \in DOMAIN h \ X /\ c \in DOMAIN h \ X /\ x # c
        /\ h[c] = Cardinality(OwnersIn(o, x)) /\ p \in OwnersIn(o, x)
    BY <1>6 DEF SharedOK, SharedLinks, SharedCounts, OwnersIn
  <2>2. \A q \in DOMAIN o : /\ (o[q].ptr = x) <=> (o[q].rc = c)
                            /\ o[q].ptr # c /\ o[q].rc # x
    <3>1. TAKE q \in DOMAIN o
    <3>2. ((o[q].ptr = x) <=> (o[q].rc = c)) /\ x # o[q].rc
      BY <1>6 DEF SharedOK, SharedLinks
    <3>3. o[q].ptr # 0 => o[q].ptr # c
      BY DEF SharedOK, SharedLinks
    <3>4. c # 0  BY <1>2, <1>4, <2>1
    <3>5. QED  BY <3>2, <3>3, <3>4
  <2>3. \A y : y # x => OwnersIn(u, y) = OwnersIn(o, y)
    BY <1>3 DEF OwnersIn
  <2>4. CASE h[c] = 1
    <3>1. m = Shared!Freed(Shared!Freed(h, x), c)
      BY <1>6, <2>4 DEF Shared!release, Shared!Nil
    <3>2. /\ DOMAIN m = DOMAIN h \ {x, c} /\ \A d \in DOMAIN m : m[d] = h[d]
          /\ m \in [DOMAIN m -> Nat]
      BY <1>2, <3>1 DEF Shared!Freed
    <3>3. \A q \in DOMAIN u : o[q].ptr # x
      <4>1. OwnersIn(o, x) = {p}  BY <1>2, <2>1, <2>4, OwnersCount
      <4>2. QED  BY <1>1, <4>1 DEF OwnersIn
    <3>4. \A q \in DOMAIN u : u[q].rc # c /\ u[q].ptr # c /\ u[q].rc # x /\ u[q].ptr # x
      BY <1>1, <2>2, <3>3
    <3>5. SharedLinks(m, u, X)
      <4>1. \A q \in DOMAIN u : ((u[q].ptr = 0) <=> (u[q].rc = 0))
        BY <1>1 DEF SharedOK, SharedLinks
      <4>2. \A q \in DOMAIN u : u[q].ptr # 0 =>
                u[q].ptr \in DOMAIN m \ X /\ u[q].rc \in DOMAIN m \ X
        BY <1>1, <3>2, <3>4 DEF SharedOK, SharedLinks
      <4>3. \A q, r \in DOMAIN u : u[q].ptr # 0 =>
                /\ (u[q].ptr = u[r].ptr) <=> (u[q].rc = u[r].rc)
                /\ u[q].ptr # u[r].rc
        BY <1>1 DEF SharedOK, SharedLinks
      <4>4. \A d \in DOMAIN m \ X : \E q \in DOMAIN u : d = u[q].ptr \/ d = u[q].rc
        <5>1. TAKE d \in DOMAIN m \ X
        <5>2. PICK q \in DOMAIN o : d = o[q].ptr \/ d = o[q].rc
          BY <3>2 DEF SharedOK, SharedLinks
        <5>3. q # p  BY <3>2, <5>2
        <5>4. QED  BY <1>1, <5>2, <5>3
      <4>5. QED  BY <4>1, <4>2, <4>3, <4>4 DEF SharedLinks
    <3>6. SharedCounts(m, u)
      <4>1. SUFFICES ASSUME NEW q \in DOMAIN u, u[q].ptr # 0
                     PROVE  m[u[q].rc] = Cardinality(OwnersIn(u, u[q].ptr))
        BY DEF SharedCounts
      <4>2. h[u[q].rc] = Cardinality(OwnersIn(o, u[q].ptr))
        BY <1>1, <4>1 DEF SharedOK, SharedCounts
      <4>3. m[u[q].rc] = h[u[q].rc]
        BY <1>1, <3>2, <3>5, <4>1 DEF SharedLinks
      <4>4. QED  BY <2>3, <3>4, <4>2, <4>3
    <3>7. QED  BY <1>1, <1>2, <2>1, <3>2, <3>5, <3>6 DEF SharedOK, SharedTyped, u
  <2>5. CASE h[c] # 1
    <3>1. m = [h EXCEPT ![c] = @ - 1]
      BY <1>6, <2>5 DEF Shared!release, Shared!Nil
    <3>2. h[c] \in Nat /\ h[c] >= 2
      <4>1. OwnersIn(o, x) # {}  BY <2>1
      <4>2. h[c] \in Nat /\ h[c] # 0  BY <1>2, <2>1, <4>1, OwnersCount
      <4>3. QED  BY <2>5, <4>2
    <3>3. /\ DOMAIN m = DOMAIN h /\ m \in [DOMAIN m -> Nat]
          /\ m[c] = h[c] - 1 /\ \A d \in DOMAIN h \ {c} : m[d] = h[d]
      BY <1>2, <2>1, <3>1, <3>2
    <3>4. PICK r \in DOMAIN u : o[r].ptr = x
      <4>1. Cardinality(OwnersIn(o, x) \ {p}) = h[c] - 1
        BY <1>2, <2>1, OwnersCount
      <4>2. Cardinality(OwnersIn(u, x)) # 0
        <5>1. OwnersIn(u, x) = OwnersIn(o, x) \ {p}  BY <1>3
        <5>2. h[c] - 1 # 0  BY <3>2
        <5>3. QED  BY <4>1, <5>1, <5>2
      <4>3. OwnersIn(u, x) # {}
        BY <1>2, <4>2, OwnersCount
      <4>4. QED  BY <1>1, <4>3 DEF OwnersIn
    <3>5. SharedLinks(m, u, X)
      <4>1. \A q \in DOMAIN u : ((u[q].ptr = 0) <=> (u[q].rc = 0))
        BY <1>1 DEF SharedOK, SharedLinks
      <4>2. \A q \in DOMAIN u : u[q].ptr # 0 =>
                u[q].ptr \in DOMAIN m \ X /\ u[q].rc \in DOMAIN m \ X
        BY <1>1, <3>3 DEF SharedOK, SharedLinks
      <4>3. \A q, s \in DOMAIN u : u[q].ptr # 0 =>
                /\ (u[q].ptr = u[s].ptr) <=> (u[q].rc = u[s].rc)
                /\ u[q].ptr # u[s].rc
        BY <1>1 DEF SharedOK, SharedLinks
      <4>4. \A d \in DOMAIN m \ X : \E q \in DOMAIN u : d = u[q].ptr \/ d = u[q].rc
        <5>1. TAKE d \in DOMAIN m \ X
        <5>2. PICK q \in DOMAIN o : d = o[q].ptr \/ d = o[q].rc
          BY <3>3 DEF SharedOK, SharedLinks
        <5>3. o[r].ptr = x /\ o[r].rc = c  BY <1>1, <2>2, <3>4
        <5>4. QED  BY <1>1, <3>4, <5>2, <5>3
      <4>5. QED  BY <4>1, <4>2, <4>3, <4>4 DEF SharedLinks
    <3>6. SharedCounts(m, u)
      <4>1. SUFFICES ASSUME NEW q \in DOMAIN u, u[q].ptr # 0
                     PROVE  m[u[q].rc] = Cardinality(OwnersIn(u, u[q].ptr))
        BY DEF SharedCounts
      <4>2. h[u[q].rc] = Cardinality(OwnersIn(o, u[q].ptr)) /\ u[q].rc \in DOMAIN h
        BY <1>1, <4>1 DEF SharedOK, SharedCounts, SharedLinks
      <4>3. CASE u[q].ptr = x
        <5>1. u[q].rc = c  BY <1>1, <2>2, <4>3
        <5>2. Cardinality(OwnersIn(u, x)) = Cardinality(OwnersIn(o, x)) - 1
          BY <1>2, <1>3, <2>1, OwnersCount
        <5>3. QED  BY <2>1, <3>3, <4>3, <5>1, <5>2
      <4>4. CASE u[q].ptr # x
        <5>1. u[q].rc # c  BY <1>1, <2>2, <4>4
        <5>2. QED  BY <2>3, <3>3, <4>2, <4>4, <5>1
      <4>5. QED  BY <4>3, <4>4
    <3>7. QED  BY <1>1, <1>2, <2>1, <3>3, <3>5, <3>6 DEF SharedOK, SharedTyped, u
  <2>6. QED  BY <2>4, <2>5
<1>7. QED  BY <1>5, <1>6

\* A pointer more on what another one owns, and its counter one more.
LEMMA SharedAcquire ==
    ASSUME NEW h, NEW o, NEW X, SharedOK(h, o, X), NEW q \in DOMAIN o,
           NEW p \in Ptrs \ DOMAIN o,
           NEW s, s = Shared!acquire([mem |-> h, p |-> o[q]])
    PROVE  /\ SharedOK(s.mem, Shared!Stored(o, p, s.p), X)
           /\ DOMAIN s.mem = DOMAIN h /\ s.p = o[q]
<1> DEFINE x == o[q].ptr
           c == o[q].rc
           u == Shared!Stored(o, p, o[q])
<1>1. /\ DOMAIN u = DOMAIN o \cup {p} /\ u[p] = o[q] /\ \A r \in DOMAIN o : u[r] = o[r]
      /\ u \in [DOMAIN u -> [ptr : CountedCells \cup {0}, rc : CountedCells \cup {0}]]
  BY DEF SharedOK, SharedTyped, Shared!Stored
<1>2. /\ DOMAIN o \subseteq Ptrs /\ DOMAIN u \subseteq Ptrs
      /\ h \in [DOMAIN h -> Nat] /\ DOMAIN h \subseteq CountedCells /\ X \subseteq DOMAIN h
      /\ o[q] \in [ptr : CountedCells \cup {0}, rc : CountedCells \cup {0}]
  BY <1>1 DEF SharedOK, SharedTyped
<1>3. 0 \notin CountedCells  BY OwnersAssumption DEF OwnersAssumption
<1>4. \A y : OwnersIn(u, y) = IF y = x THEN OwnersIn(o, y) \cup {p} ELSE OwnersIn(o, y)
  BY <1>1 DEF OwnersIn
<1> HIDE DEF u
<1>5. CASE x = 0
  <2>1. s = [mem |-> h, p |-> o[q]]  BY <1>5 DEF Shared!acquire, Shared!Nil
  <2>2. s.mem = h /\ s.p = o[q]  BY <2>1
  <2>3. SharedLinks(h, u, X)
    BY <1>1, <1>5 DEF SharedOK, SharedLinks
  <2>4. SharedCounts(h, u)
    BY <1>1, <1>4, <1>5 DEF SharedOK, SharedCounts
  <2>5. QED  BY <1>1, <1>2, <2>2, <2>3, <2>4 DEF SharedOK, SharedTyped, u
<1>6. CASE x # 0
  <2>1. x \in DOMAIN h \ X /\ c \in DOMAIN h \ X /\ h[c] = Cardinality(OwnersIn(o, x)) /\ c # 0
    BY <1>2, <1>3, <1>6 DEF SharedOK, SharedLinks, SharedCounts
  <2>2. s = [mem |-> Shared!Stored(h, c, h[c] + 1), p |-> [o[q] EXCEPT !.rc = c]]
    BY <1>6, <2>1 DEF Shared!acquire, Shared!Nil
  <2>3. s.mem = Shared!Stored(h, c, h[c] + 1) /\ s.p = o[q]  BY <1>2, <2>2
  <2>4. /\ DOMAIN s.mem = DOMAIN h /\ s.mem[c] = h[c] + 1
        /\ \A d \in DOMAIN h \ {c} : s.mem[d] = h[d]
        /\ s.mem \in [DOMAIN s.mem -> Nat]
    BY <1>2, <2>1, <2>3 DEF Shared!Stored
  <2>5. SharedLinks(s.mem, u, X)
    BY <1>1, <2>4 DEF SharedOK, SharedLinks
  <2>6. SharedCounts(s.mem, u)
    <3>1. SUFFICES ASSUME NEW r \in DOMAIN u, u[r].ptr # 0
                   PROVE  s.mem[u[r].rc] = Cardinality(OwnersIn(u, u[r].ptr))
      BY DEF SharedCounts
    <3>2. PICK t \in DOMAIN o : u[r] = o[t]  BY <1>1
    <3>3. h[o[t].rc] = Cardinality(OwnersIn(o, o[t].ptr)) /\ o[t].rc \in DOMAIN h
      BY <3>1, <3>2 DEF SharedOK, SharedCounts, SharedLinks
    <3>4. (o[t].ptr = x) <=> (o[t].rc = c)
      BY <1>6 DEF SharedOK, SharedLinks
    <3>5. CASE o[t].ptr = x
      <4>1. p \notin OwnersIn(o, x)  BY DEF OwnersIn
      <4>2. Cardinality(OwnersIn(u, x)) = h[c] + 1
        BY <1>2, <1>4, <2>1, <4>1, OwnersCount
      <4>3. QED  BY <2>4, <3>2, <3>4, <3>5, <4>2
    <3>6. CASE o[t].ptr # x
      BY <1>4, <2>4, <3>2, <3>3, <3>4, <3>6
    <3>7. QED  BY <3>5, <3>6
  <2>7. QED  BY <1>1, <1>2, <2>3, <2>4, <2>5, <2>6 DEF SharedOK, SharedTyped, u
<1>7. QED  BY <1>5, <1>6

\* A pointer that is the first to own an object gets a counter of its own.
LEMMA SharedAcquireNew ==
    ASSUME NEW h, NEW o, NEW x \in DOMAIN h, SharedOK(h, o, {x}),
           Shared!Room(h, 1), NEW p \in Ptrs \ DOMAIN o,
           NEW s, s = Shared!acquire([mem |-> h, p |-> [ptr |-> x, rc |-> 0]])
    PROVE  SharedOK(s.mem, Shared!Stored(o, p, s.p), {}) /\ s.p.ptr = x
<1> DEFINE c == Shared!Fresh(h)
<1>1. c \in CountedCells \ DOMAIN h  BY SharedFresh
<1> HIDE DEF c
<1>2. /\ DOMAIN o \subseteq Ptrs /\ x \in CountedCells /\ x # 0 /\ c # 0 /\ c # x
      /\ h \in [DOMAIN h -> Nat] /\ DOMAIN h \subseteq CountedCells
      /\ o \in [DOMAIN o -> [ptr : CountedCells \cup {0}, rc : CountedCells \cup {0}]]
  BY <1>1, OwnersAssumption DEF OwnersAssumption, SharedOK, SharedTyped
<1>3. s = [mem |-> Shared!Stored(h, c, 1), p |-> [ptr |-> x, rc |-> c]]
  BY <1>2 DEF Shared!acquire, Shared!Nil, c
<1> DEFINE u == Shared!Stored(o, p, s.p)
<1>4. /\ DOMAIN u = DOMAIN o \cup {p} /\ u[p].ptr = x /\ u[p].rc = c
      /\ \A r \in DOMAIN o : u[r] = o[r]
      /\ u \in [DOMAIN u -> [ptr : CountedCells \cup {0}, rc : CountedCells \cup {0}]]
  BY <1>1, <1>2, <1>3 DEF Shared!Stored
<1>5. /\ DOMAIN s.mem = DOMAIN h \cup {c} /\ s.mem[c] = 1
      /\ \A d \in DOMAIN h : s.mem[d] = h[d]
      /\ s.mem \in [DOMAIN s.mem -> Nat] /\ s.p.ptr = x
  BY <1>1, <1>2, <1>3 DEF Shared!Stored
<1> HIDE DEF u
<1>6. \A r \in DOMAIN o : /\ o[r].ptr # x /\ o[r].ptr # c /\ o[r].rc # x /\ o[r].rc # c
                          /\ (o[r].ptr = 0) <=> (o[r].rc = 0)
                          /\ o[r].ptr # 0 => /\ o[r].ptr \in DOMAIN h /\ o[r].rc \in DOMAIN h
                                             /\ h[o[r].rc] = Cardinality(OwnersIn(o, o[r].ptr))
  BY <1>1, <1>2 DEF SharedOK, SharedLinks, SharedCounts
<1>7. SharedLinks(s.mem, u, {})
  <2>1. \A r \in DOMAIN u : /\ (u[r].ptr = 0) <=> (u[r].rc = 0)
                            /\ u[r].ptr # 0 => u[r].ptr \in DOMAIN s.mem /\ u[r].rc \in DOMAIN s.mem
    BY <1>2, <1>4, <1>5, <1>6
  <2>2. ASSUME NEW r \in DOMAIN u, NEW t \in DOMAIN u, u[r].ptr # 0
        PROVE  /\ (u[r].ptr = u[t].ptr) <=> (u[r].rc = u[t].rc)
               /\ u[r].ptr # u[t].rc
    <3>1. CASE r # p /\ t # p  BY <1>4, <2>2, <3>1 DEF SharedOK, SharedLinks
    <3>2. CASE r = p \/ t = p  BY <1>2, <1>4, <1>6, <3>2
    <3>3. QED  BY <3>1, <3>2
  <2>3. ASSUME NEW d \in DOMAIN s.mem PROVE \E r \in DOMAIN u : d = u[r].ptr \/ d = u[r].rc
    <3>1. CASE d \in {x, c}  BY <1>4, <3>1
    <3>2. CASE d \notin {x, c}
      <4>1. PICK r \in DOMAIN o : d = o[r].ptr \/ d = o[r].rc
        BY <1>5, <3>2 DEF SharedOK, SharedLinks
      <4>2. QED  BY <1>4, <4>1
    <3>3. QED  BY <3>1, <3>2
  <2>4. QED  BY <2>1, <2>2, <2>3 DEF SharedLinks
<1>8. SharedCounts(s.mem, u)
  <2>1. OwnersIn(u, x) = {p}  BY <1>4, <1>6 DEF OwnersIn
  <2>2. \A r \in DOMAIN o : OwnersIn(u, o[r].ptr) = OwnersIn(o, o[r].ptr)
    BY <1>4, <1>6 DEF OwnersIn
  <2>3. Cardinality({p}) = 1  BY FS_Singleton
  <2>4. ASSUME NEW r \in DOMAIN u, u[r].ptr # 0
        PROVE  s.mem[u[r].rc] = Cardinality(OwnersIn(u, u[r].ptr))
    <3>1. CASE r = p  BY <1>4, <1>5, <2>1, <2>3, <3>1
    <3>2. CASE r # p  BY <1>4, <1>5, <1>6, <2>2, <2>4, <3>2
    <3>3. QED  BY <3>1, <3>2
  <2>5. QED  BY <2>4 DEF SharedCounts
<1>9. SharedTyped(s.mem, u, {})
  BY <1>1, <1>2, <1>4, <1>5 DEF SharedTyped
<1>10. QED  BY <1>5, <1>7, <1>8, <1>9 DEF SharedOK, u

\* Pointers that own nothing, or take over what another one has.
LEMMA SharedEmpty ==
    ASSUME NEW h, NEW o, NEW X, SharedOK(h, o, X), NEW p \in Ptrs \ DOMAIN o
    PROVE  SharedOK(h, Shared!Stored(o, p, Shared!Empty), X)
<1> DEFINE u == Shared!Stored(o, p, Shared!Empty)
<1>1. /\ DOMAIN u = DOMAIN o \cup {p} /\ u[p].ptr = 0 /\ u[p].rc = 0
      /\ \A r \in DOMAIN o : u[r] = o[r]
      /\ u \in [DOMAIN u -> [ptr : CountedCells \cup {0}, rc : CountedCells \cup {0}]]
  BY DEF Shared!Stored, Shared!Empty, Shared!Nil, SharedOK, SharedTyped
<1> HIDE DEF u
<1>2. \A y : y # 0 => OwnersIn(u, y) = OwnersIn(o, y)
  BY <1>1 DEF OwnersIn
<1>3. SharedLinks(h, u, X)
  <2>1. \A r \in DOMAIN o : o[r].ptr # 0 => o[r].rc # 0
    BY DEF SharedOK, SharedLinks
  <2>2. QED  BY <1>1, <2>1 DEF SharedOK, SharedLinks
<1>4. SharedCounts(h, u)  BY <1>1, <1>2 DEF SharedOK, SharedCounts
<1>5. QED  BY <1>1, <1>3, <1>4 DEF SharedOK, SharedTyped, u

\* The owners of what p and q own change places.
LEMMA SharedExchange ==
    ASSUME NEW h, NEW o, NEW X, SharedOK(h, o, X), NEW p \in DOMAIN o, NEW q \in DOMAIN o
    PROVE  SharedOK(h, Shared!Stored(Shared!Stored(o, q, o[p]), p, o[q]), X)
<1> DEFINE u == Shared!Stored(Shared!Stored(o, q, o[p]), p, o[q])
           turn == [r \in DOMAIN o |-> IF r = p THEN q ELSE IF r = q THEN p ELSE r]
<1>1. /\ DOMAIN u = DOMAIN o
      /\ \A r \in DOMAIN o : turn[r] \in DOMAIN o /\ u[r] = o[turn[r]] /\ turn[turn[r]] = r
      /\ u \in [DOMAIN u -> [ptr : CountedCells \cup {0}, rc : CountedCells \cup {0}]]
  BY DEF Shared!Stored, SharedOK, SharedTyped
<1> HIDE DEF u, turn
<1>2. SharedLinks(h, u, X)
  <2>1. \A r \in DOMAIN u : /\ (u[r].ptr = 0) <=> (u[r].rc = 0)
                            /\ u[r].ptr # 0 => u[r].ptr \in DOMAIN h \ X /\ u[r].rc \in DOMAIN h \ X
    BY <1>1 DEF SharedOK, SharedLinks
  <2>2. \A r, t \in DOMAIN u : u[r].ptr # 0 =>
            /\ (u[r].ptr = u[t].ptr) <=> (u[r].rc = u[t].rc)
            /\ u[r].ptr # u[t].rc
    <3>1. \A a, b \in DOMAIN o : o[a].ptr # 0 =>
              /\ (o[a].ptr = o[b].ptr) <=> (o[a].rc = o[b].rc)
              /\ o[a].ptr # o[b].rc
      BY DEF SharedOK, SharedLinks
    <3>2. TAKE r, t \in DOMAIN u
    <3>3. PICK a \in DOMAIN o : u[r] = o[a]  BY <1>1
    <3>4. PICK b \in DOMAIN o : u[t] = o[b]  BY <1>1
    <3>5. QED  BY <3>1, <3>3, <3>4
  <2>3. ASSUME NEW d \in DOMAIN h \ X PROVE \E r \in DOMAIN u : d = u[r].ptr \/ d = u[r].rc
    <3>1. PICK r \in DOMAIN o : d = o[r].ptr \/ d = o[r].rc  BY DEF SharedOK, SharedLinks
    <3>2. turn[r] \in DOMAIN u /\ u[turn[r]] = o[r]  BY <1>1
    <3>3. QED  BY <3>1, <3>2
  <2>4. QED  BY <2>1, <2>2, <2>3 DEF SharedLinks
<1>3. \A y : Cardinality(OwnersIn(u, y)) = Cardinality(OwnersIn(o, y))
  <2>1. TAKE y
  <2> DEFINE f == [r \in OwnersIn(u, y) |-> turn[r]]
  <2>2. f \in Bijection(OwnersIn(u, y), OwnersIn(o, y))
    <3>1. f \in [OwnersIn(u, y) -> OwnersIn(o, y)]
      BY <1>1 DEF OwnersIn
    <3>2. \A r, t \in OwnersIn(u, y) : f[r] = f[t] => r = t
      BY <1>1 DEF OwnersIn
    <3>3. \A t \in OwnersIn(o, y) : \E r \in OwnersIn(u, y) : f[r] = t
      <4>1. TAKE t \in OwnersIn(o, y)
      <4>2. turn[t] \in OwnersIn(u, y) /\ turn[turn[t]] = t  BY <1>1 DEF OwnersIn
      <4>3. QED  BY <4>2
    <3>4. QED  BY <3>1, <3>2, <3>3, Fun_IsBij
  <2>3. IsFiniteSet(OwnersIn(u, y)) /\ IsFiniteSet(OwnersIn(o, y))
    BY <1>1, OwnersCount DEF SharedOK, SharedTyped
  <2> HIDE DEF f
  <2>4. ExistsBijection(OwnersIn(u, y), OwnersIn(o, y))  BY <2>2 DEF ExistsBijection
  <2>5. QED  BY <2>3, <2>4, FS_Bijection
<1>4. SharedCounts(h, u)  BY <1>1, <1>3 DEF SharedOK, SharedCounts
<1>5. QED  BY <1>1, <1>2, <1>4 DEF SharedOK, SharedTyped, u

\* A new object, which no pointer owns yet, and room for its counter.
LEMMA SharedAdded ==
    ASSUME NEW h, NEW o, SharedOK(h, o, {}), Shared!Room(h, 2),
           NEW x, x = Shared!Fresh(h), NEW m, m = Shared!Added(h, x)
    PROVE  /\ SharedOK(m, o, {x}) /\ Shared!Room(m, 1) /\ x \in DOMAIN m /\ x # 0
           /\ x \notin DOMAIN h
<1>1. x \in CountedCells \ DOMAIN h /\ x # 0
  BY SharedFresh, OwnersAssumption DEF OwnersAssumption
<1>2. m = Shared!Stored(h, x, 0)  BY <1>1 DEF Shared!Added, Shared!Nil
<1>3. /\ DOMAIN m = DOMAIN h \cup {x} /\ \A d \in DOMAIN h : m[d] = h[d]
      /\ m \in [DOMAIN m -> Nat] /\ DOMAIN m \subseteq CountedCells
  BY <1>1, <1>2 DEF Shared!Stored, SharedOK, SharedTyped
<1>4. SharedTyped(m, o, {x})  BY <1>3 DEF SharedOK, SharedTyped
<1>5. SharedLinks(m, o, {x})  BY <1>1, <1>3 DEF SharedOK, SharedLinks
<1>6. SharedCounts(m, o)  BY <1>3 DEF SharedOK, SharedLinks, SharedCounts
<1>7. Shared!Room(m, 1)
  <2> DEFINE S == CountedCells \ DOMAIN h
  <2>1. IsFiniteSet(S) /\ x \in S
    BY <1>1, OwnersAssumption, FS_Subset DEF OwnersAssumption
  <2>2. Cardinality(S) \in Nat /\ Cardinality(S) >= 2
    BY <2>1, FS_CardinalityType, SameCardinality DEF Shared!Room
  <2>3. CountedCells \ DOMAIN m = S \ {x}  BY <1>3
  <2> HIDE DEF S
  <2>4. Cardinality(S \ {x}) = Cardinality(S) - 1  BY <2>1, FS_RemoveElement
  <2>5. Cardinality(S \ {x}) >= 1  BY <2>2, <2>4
  <2>6. QED  BY <2>3, <2>5, SameCardinality DEF Shared!Room
<1>8. QED  BY <1>1, <1>3, <1>4, <1>5, <1>6, <1>7 DEF SharedOK

\* What is freed leaves room.
LEMMA SharedRoom ==
    ASSUME NEW h, NEW m, DOMAIN m \subseteq DOMAIN h, Shared!Room(h, 1)
    PROVE  Shared!Room(m, 1)
<1>1. IsFiniteSet(CountedCells \ DOMAIN m) /\ IsFiniteSet(CountedCells \ DOMAIN h)
  BY OwnersAssumption, FS_Subset DEF OwnersAssumption
<1>2. CountedCells \ DOMAIN h \subseteq CountedCells \ DOMAIN m  OBVIOUS
<1>3. /\ Cardinality(CountedCells \ DOMAIN h) \in Nat
      /\ Cardinality(CountedCells \ DOMAIN m) \in Nat
      /\ Cardinality(CountedCells \ DOMAIN h) <= Cardinality(CountedCells \ DOMAIN m)
  BY <1>1, <1>2, FS_Subset, FS_CardinalityType
<1>4. QED  BY <1>3, SameCardinality DEF Shared!Room

\* The counters in the cells that the heap maps are those of the pointers.
SharedInv == SharedOK(heap, obj, {})

\* At first there is no pointer and no cell.
LEMMA SharedInit == Shared!Init => SharedInv
<1> SUFFICES ASSUME Shared!Init PROVE SharedInv  OBVIOUS
<1>1. DOMAIN heap = {} /\ DOMAIN obj = {} /\ heap = <<>> /\ obj = <<>>  BY DEF Shared!Init
<1>2. heap \in [{} -> Nat]  BY <1>1
<1>3. obj \in [{} -> [ptr : CountedCells \cup {0}, rc : CountedCells \cup {0}]]  BY <1>1
<1>4. QED
  BY <1>1, <1>2, <1>3 DEF SharedInv, SharedOK, SharedTyped, SharedLinks, SharedCounts

\* Each member function keeps the invariant.
LEMMA SharedStep == SharedInv /\ Shared!Next => SharedInv'
<1> SUFFICES ASSUME SharedInv, Shared!Next PROVE SharedInv'  OBVIOUS
<1>0. /\ SharedOK(heap, obj, {})
      /\ heap \in [DOMAIN heap -> Nat] /\ DOMAIN heap \subseteq CountedCells
      /\ obj \in [DOMAIN obj -> [ptr : CountedCells \cup {0}, rc : CountedCells \cup {0}]]
      /\ DOMAIN obj \subseteq Ptrs /\ 0 \notin CountedCells
  BY OwnersAssumption DEF OwnersAssumption, SharedInv, SharedOK, SharedTyped
<1> USE DEF Shared!Nil
<1>1. ASSUME NEW p \in Ptrs, NEW x, Shared!FromPointer(p, x) PROVE SharedInv'
  <2> DEFINE m == Shared!Added(heap, x)
             s == Shared!acquire([mem |-> m, p |-> [ptr |-> x, rc |-> 0]])
  <2>1. /\ p \notin DOMAIN obj /\ heap' = s.mem /\ obj' = Shared!Stored(obj, p, s.p)
        /\ x \in Shared!WithNew(heap)
    BY <1>1 DEF Shared!FromPointer, Shared!Made, Shared!Becomes
  <2>2. CASE x = 0
    <3>1. s.mem = heap /\ s.p = Shared!Empty
      BY <2>2 DEF Shared!acquire, Shared!Added, Shared!Empty
    <3>2. QED  BY <1>0, <2>1, <3>1, SharedEmpty DEF SharedInv
  <2>3. CASE x # 0
    <3> HIDE DEF m, s
    <3>1. Shared!Room(heap, 2) /\ x = Shared!Fresh(heap)
      BY <2>1, <2>3 DEF Shared!WithNew
    <3>2. SharedOK(m, obj, {x}) /\ Shared!Room(m, 1) /\ x \in DOMAIN m
      BY <1>0, <3>1, SharedAdded DEF m
    <3>3. SharedOK(s.mem, Shared!Stored(obj, p, s.p), {})
      BY <2>1, <3>2, SharedAcquireNew DEF s
    <3>4. QED  BY <2>1, <3>3 DEF SharedInv
  <2>4. QED  BY <2>2, <2>3
<1>2. ASSUME NEW p \in Ptrs, NEW q \in Ptrs, Shared!CopyConstruct(p, q) PROVE SharedInv'
  <2> DEFINE s == Shared!acquire([mem |-> heap, p |-> obj[q]])
  <2>1. p \notin DOMAIN obj /\ q \in DOMAIN obj /\ heap' = s.mem /\ obj' = Shared!Stored(obj, p, s.p)
    BY <1>2 DEF Shared!CopyConstruct, Shared!Made, Shared!Becomes, Shared!State
  <2> HIDE DEF s
  <2>2. SharedOK(s.mem, Shared!Stored(obj, p, s.p), {})
    BY <1>0, <2>1, SharedAcquire DEF s
  <2>3. QED  BY <2>1, <2>2 DEF SharedInv
<1>3. ASSUME NEW p \in Ptrs, NEW q \in Ptrs, Shared!MoveConstruct(p, q) PROVE SharedInv'
  <2>1. /\ p \notin DOMAIN obj /\ q \in DOMAIN obj /\ heap' = heap
        /\ obj' = Shared!Stored(Shared!Stored(obj, q, Shared!Empty), p, obj[q])
    BY <1>3 DEF Shared!MoveConstruct, Shared!Made
  <2> DEFINE o == Shared!Stored(obj, p, Shared!Empty)
  <2>2. SharedOK(heap, o, {})  BY <1>0, <2>1, SharedEmpty
  <2>3. p \in DOMAIN o /\ q \in DOMAIN o /\ o[p] = Shared!Empty /\ o[q] = obj[q]
    BY <2>1 DEF Shared!Stored
  <2>4. obj' = Shared!Stored(Shared!Stored(o, q, o[p]), p, o[q])
    BY <2>1, <2>3 DEF Shared!Stored
  <2> HIDE DEF o
  <2>5. QED  BY <2>1, <2>2, <2>3, <2>4, SharedExchange DEF SharedInv
<1>4. ASSUME NEW p \in Ptrs, NEW x, Shared!AssignPointer(p, x) PROVE SharedInv'
  <2> DEFINE h == Shared!Added(heap, x)
             m == Shared!release([mem |-> h, p |-> obj[p]])
             o == Without(obj, p)
             s == Shared!acquire([mem |-> m, p |-> [ptr |-> x, rc |-> 0]])
  <2>1. CASE obj[p].ptr = x
    BY <1>0, <1>4, <2>1 DEF Shared!AssignPointer, SharedInv
  <2>2. CASE obj[p].ptr # x
    <3>1. /\ p \in DOMAIN obj /\ x \in Shared!WithNew(heap)
          /\ heap' = s.mem /\ obj' = Shared!Stored(obj, p, s.p)
      <4>1. [Shared!State(p) EXCEPT !.mem = h] = [mem |-> h, p |-> obj[p]]
        BY DEF Shared!State
      <4>2. QED  BY <1>4, <2>2, <4>1 DEF Shared!AssignPointer, Shared!Made, Shared!Becomes
    <3>2. p \notin DOMAIN o /\ Shared!Stored(o, p, s.p) = Shared!Stored(obj, p, s.p)
      BY <3>1 DEF Shared!Stored, Without
    <3>3. CASE x = 0
      <4>1. h = heap  BY <3>3 DEF Shared!Added
      <4>2. SharedOK(m, o, {})  BY <1>0, <3>1, <4>1, SharedRelease
      <4>3. s.mem = m /\ s.p = Shared!Empty
        BY <3>3 DEF Shared!acquire, Shared!Empty
      <4>4. QED  BY <3>1, <3>2, <4>2, <4>3, SharedEmpty DEF SharedInv
    <3>4. CASE x # 0
      <4> HIDE DEF h, m, s
      <4>1. Shared!Room(heap, 2) /\ x = Shared!Fresh(heap)
        BY <3>1, <3>4 DEF Shared!WithNew
      <4>2. SharedOK(h, obj, {x}) /\ Shared!Room(h, 1)
        BY <1>0, <4>1, SharedAdded DEF h
      <4>3. SharedOK(m, o, {x}) /\ DOMAIN m \subseteq DOMAIN h
        BY <3>1, <4>2, SharedRelease DEF m
      <4>4. Shared!Room(m, 1)  BY <4>2, <4>3, SharedRoom
      <4>5. x \in DOMAIN m  BY <4>3 DEF SharedOK, SharedTyped
      <4>6. SharedOK(s.mem, Shared!Stored(o, p, s.p), {})
        BY <3>2, <4>3, <4>4, <4>5, SharedAcquireNew DEF s
      <4>7. QED  BY <3>1, <3>2, <4>6 DEF SharedInv
    <3>5. QED  BY <3>3, <3>4
  <2>3. QED  BY <2>1, <2>2
<1>5. ASSUME NEW p \in Ptrs, NEW q \in Ptrs, Shared!MoveAssign(p, q) PROVE SharedInv'
  <2>1. CASE obj[p].ptr = obj[q].ptr
    BY <1>0, <1>5, <2>1 DEF Shared!MoveAssign, SharedInv
  <2>2. CASE obj[p].ptr # obj[q].ptr
    <3> DEFINE m == Shared!release([mem |-> heap, p |-> obj[p]])
               o == Shared!Stored(Without(obj, p), p, Shared!Empty)
    <3>1. /\ p \in DOMAIN obj /\ q \in DOMAIN obj /\ q # p /\ heap' = m
          /\ obj' = Shared!Stored(Shared!Stored(obj, q, Shared!Empty), p, obj[q])
      BY <1>5, <2>2 DEF Shared!MoveAssign, Shared!Made, Shared!Copy, Shared!State
    <3> HIDE DEF m
    <3>2. SharedOK(m, Without(obj, p), {})  BY <1>0, <3>1, SharedRelease DEF m
    <3>3. p \notin DOMAIN Without(obj, p)  BY DEF Without
    <3>4. SharedOK(m, o, {})  BY <3>2, <3>3, SharedEmpty
    <3>5. p \in DOMAIN o /\ q \in DOMAIN o /\ o[p] = Shared!Empty /\ o[q] = obj[q]
      BY <3>1 DEF Shared!Stored, Without
    <3>6. obj' = Shared!Stored(Shared!Stored(o, q, o[p]), p, o[q])
      BY <3>1, <3>5 DEF Shared!Stored, Without
    <3> HIDE DEF o
    <3>7. QED  BY <3>1, <3>4, <3>5, <3>6, SharedExchange DEF SharedInv
  <2>3. QED  BY <2>1, <2>2
<1>6. ASSUME NEW p \in Ptrs, NEW q \in Ptrs, Shared!CopyAssign(p, q) PROVE SharedInv'
  <2>1. CASE obj[p].ptr = obj[q].ptr
    BY <1>0, <1>6, <2>1 DEF Shared!CopyAssign, SharedInv
  <2>2. CASE obj[p].ptr # obj[q].ptr
    <3> DEFINE m == Shared!release([mem |-> heap, p |-> obj[p]])
               o == Without(obj, p)
               s == Shared!acquire([mem |-> m, p |-> obj[q]])
    <3>1. /\ p \in DOMAIN obj /\ q \in DOMAIN obj /\ q # p
          /\ heap' = s.mem /\ obj' = Shared!Stored(obj, p, s.p)
      BY <1>6, <2>2 DEF Shared!CopyAssign, Shared!Made, Shared!Copy, Shared!State, Shared!Becomes
    <3> HIDE DEF m, s
    <3>2. SharedOK(m, o, {})  BY <1>0, <3>1, SharedRelease DEF m
    <3>3. p \notin DOMAIN o /\ q \in DOMAIN o /\ o[q] = obj[q]  BY <3>1 DEF Without
    <3>4. SharedOK(s.mem, Shared!Stored(o, p, s.p), {})
      BY <3>2, <3>3, SharedAcquire DEF s
    <3>5. Shared!Stored(o, p, s.p) = Shared!Stored(obj, p, s.p)
      BY <3>1 DEF Shared!Stored, Without
    <3>6. QED  BY <3>1, <3>4, <3>5 DEF SharedInv
  <2>3. QED  BY <2>1, <2>2
<1>7. ASSUME NEW p \in Ptrs, NEW q \in Ptrs, Shared!Swap(p, q) PROVE SharedInv'
  <2>1. /\ p \in DOMAIN obj /\ q \in DOMAIN obj /\ heap' = heap
        /\ obj' = Shared!Stored(Shared!Stored(obj, q, obj[p]), p, obj[q])
    BY <1>7 DEF Shared!Swap, Shared!Made
  <2>2. QED  BY <1>0, <2>1, SharedExchange DEF SharedInv
<1>8. ASSUME NEW p \in Ptrs, Shared!Destroy(p) PROVE SharedInv'
  <2>1. /\ p \in DOMAIN obj /\ obj' = Without(obj, p)
        /\ heap' = Shared!release([mem |-> heap, p |-> obj[p]])
    BY <1>8 DEF Shared!Destroy, Shared!Made, Shared!State, Without
  <2>2. QED  BY <1>0, <2>1, SharedRelease DEF SharedInv
<1>9. QED
  BY <1>1, <1>2, <1>3, <1>4, <1>5, <1>6, <1>7, <1>8 DEF Shared!Next

\* The invariant says what Sound says.
LEMMA SharedIsSound == SharedInv => Shared!Sound
<1> SUFFICES ASSUME SharedInv PROVE Shared!Sound  OBVIOUS
<1>0. 0 \notin CountedCells /\ DOMAIN heap \subseteq CountedCells
  BY OwnersAssumption DEF OwnersAssumption, SharedInv, SharedOK, SharedTyped
<1>1. \A x : Shared!Owners(x) = OwnersIn(obj, x)
  BY DEF Shared!Owners, OwnersIn, Shared!Made
<1>2. ASSUME NEW p \in DOMAIN obj
      PROVE  /\ obj[p].ptr = 0 <=> obj[p].rc = 0
             /\ obj[p].ptr # 0 =>
                    /\ {obj[p].ptr, obj[p].rc} \subseteq DOMAIN heap
                    /\ Shared!use_count(p) = Shared!Cardinality(Shared!Owners(obj[p].ptr))
                    /\ \A q \in Shared!Owners(obj[p].ptr) : obj[q].rc = obj[p].rc
  <2>1. /\ obj[p].ptr = 0 <=> obj[p].rc = 0
        /\ obj[p].ptr # 0 => /\ {obj[p].ptr, obj[p].rc} \subseteq DOMAIN heap
                             /\ heap[obj[p].rc] = Cardinality(OwnersIn(obj, obj[p].ptr))
                             /\ \A q \in OwnersIn(obj, obj[p].ptr) : obj[q].rc = obj[p].rc
    BY DEF SharedInv, SharedOK, SharedLinks, SharedCounts, OwnersIn
  <2>2. QED  BY <1>1, <2>1, SameCardinality DEF Shared!use_count, Shared!Nil
<1>3. DOMAIN heap = (UNION {{obj[p].ptr, obj[p].rc} : p \in DOMAIN obj}) \ {0}
  <2> SUFFICES ASSUME NEW U, U = UNION {{obj[p].ptr, obj[p].rc} : p \in DOMAIN obj}
               PROVE  DOMAIN heap = U \ {0}
    OBVIOUS
  <2>1. ASSUME NEW c \in DOMAIN heap
        PROVE  c # 0 /\ \E p \in DOMAIN obj : c \in {obj[p].ptr, obj[p].rc}
    BY <1>0 DEF SharedInv, SharedOK, SharedLinks
  <2>2. ASSUME NEW p \in DOMAIN obj, NEW c \in {obj[p].ptr, obj[p].rc}, c # 0
        PROVE  c \in DOMAIN heap
    BY <2>2 DEF SharedInv, SharedOK, SharedLinks
  <2>3. \A c : c \in DOMAIN heap <=> c # 0 /\ \E p \in DOMAIN obj : c \in {obj[p].ptr, obj[p].rc}
    BY <2>1, <2>2
  <2>4. \A c : c \in U <=> \E p \in DOMAIN obj : c \in {obj[p].ptr, obj[p].rc}
    OBVIOUS
  <2>5. QED  BY <2>3, <2>4
<1>4. QED  BY <1>2, <1>3 DEF Shared!Sound, Shared!Made, Shared!Nil

\* What copies and moves give their pointers, and what they leave alone.
LEMMA SharedRefines == SharedInv /\ SharedInv' => Shared!Refines
<1> SUFFICES ASSUME SharedInv, SharedInv', NEW p \in Ptrs, NEW q \in Ptrs
             PROVE  /\ Shared!CopyAssign(p, q) \/ Shared!CopyConstruct(p, q)
                           => obj'[p] = obj[q] /\ UNCHANGED obj[q]
                    /\ Shared!MoveConstruct(p, q) => obj'[p] = obj[q] /\ obj'[q] = Shared!Empty
                    /\ Shared!MoveAssign(p, q)
                           => obj'[p] = obj[q] /\ (obj'[q] = Shared!Empty \/ obj[q] = obj[p])
                    /\ Shared!Destroy(p) => \A r \in Shared!Made \ {p} :
                           UNCHANGED obj[r] /\ obj[r].ptr \in DOMAIN heap' \cup {0}
  BY DEF Shared!Refines, Shared!Nil
<1>0. /\ SharedOK(heap, obj, {})
      /\ DOMAIN obj \subseteq Ptrs /\ 0 \notin CountedCells
      /\ obj \in [DOMAIN obj -> [ptr : CountedCells \cup {0}, rc : CountedCells \cup {0}]]
      /\ \A r \in DOMAIN obj : ((obj[r].ptr = 0) <=> (obj[r].rc = 0))
  BY OwnersAssumption DEF OwnersAssumption, SharedInv, SharedOK, SharedTyped, SharedLinks
<1>1. ASSUME p \in DOMAIN obj, q \in DOMAIN obj, obj[p].ptr = obj[q].ptr PROVE obj[p] = obj[q]
  <2>1. obj[p].rc = obj[q].rc
    <3>1. CASE obj[p].ptr = 0  BY <1>0, <1>1, <3>1
    <3>2. CASE obj[p].ptr # 0  BY <1>1, <3>2 DEF SharedInv, SharedOK, SharedLinks
    <3>3. QED  BY <3>1, <3>2
  <2>2. QED  BY <1>0, <1>1, <2>1
<1>2. ASSUME Shared!CopyConstruct(p, q) PROVE obj'[p] = obj[q] /\ UNCHANGED obj[q]
  <2> DEFINE s == Shared!acquire([mem |-> heap, p |-> obj[q]])
  <2>1. p \notin DOMAIN obj /\ q \in DOMAIN obj /\ obj' = Shared!Stored(obj, p, s.p)
    BY <1>2 DEF Shared!CopyConstruct, Shared!Made, Shared!Becomes, Shared!State
  <2> HIDE DEF s
  <2>2. s.p = obj[q]  BY <1>0, <2>1, SharedAcquire DEF s
  <2>3. QED  BY <2>1, <2>2 DEF Shared!Stored
<1>3. ASSUME Shared!CopyAssign(p, q) PROVE obj'[p] = obj[q] /\ UNCHANGED obj[q]
  <2>0. p \in DOMAIN obj /\ q \in DOMAIN obj  BY <1>3 DEF Shared!CopyAssign, Shared!Made
  <2>1. CASE obj[p].ptr = obj[q].ptr
    BY <1>1, <1>3, <2>0, <2>1 DEF Shared!CopyAssign
  <2>2. CASE obj[p].ptr # obj[q].ptr
    <3> DEFINE m == Shared!release([mem |-> heap, p |-> obj[p]])
               o == Without(obj, p)
               s == Shared!acquire([mem |-> m, p |-> obj[q]])
    <3>1. q # p /\ obj' = Shared!Stored(obj, p, s.p)
      BY <1>3, <2>2 DEF Shared!CopyAssign, Shared!Made, Shared!Copy, Shared!State, Shared!Becomes
    <3> HIDE DEF m, s
    <3>2. SharedOK(m, o, {})  BY <1>0, <2>0, SharedRelease DEF m
    <3>3. p \notin DOMAIN o /\ q \in DOMAIN o /\ o[q] = obj[q]  BY <2>0, <3>1 DEF Without
    <3>4. s.p = obj[q]  BY <3>2, <3>3, SharedAcquire DEF s
    <3>5. QED  BY <2>0, <3>1, <3>4 DEF Shared!Stored
  <2>3. QED  BY <2>1, <2>2
<1>4. ASSUME Shared!MoveConstruct(p, q) PROVE obj'[p] = obj[q] /\ obj'[q] = Shared!Empty
  BY <1>4 DEF Shared!MoveConstruct, Shared!Made, Shared!Stored
<1>5. ASSUME Shared!MoveAssign(p, q)
      PROVE  obj'[p] = obj[q] /\ (obj'[q] = Shared!Empty \/ obj[q] = obj[p])
  <2>1. CASE obj[p].ptr = obj[q].ptr
    BY <1>1, <1>5, <2>1 DEF Shared!MoveAssign, Shared!Made
  <2>2. CASE obj[p].ptr # obj[q].ptr
    BY <1>5, <2>2 DEF Shared!MoveAssign, Shared!Made, Shared!Stored
  <2>3. QED  BY <2>1, <2>2
<1>6. ASSUME Shared!Destroy(p), NEW r \in Shared!Made \ {p}
      PROVE  UNCHANGED obj[r] /\ obj[r].ptr \in DOMAIN heap' \cup {0}
  <2>1. DOMAIN obj' = DOMAIN obj \ {p} /\ r \in DOMAIN obj' /\ obj'[r] = obj[r]
    BY <1>6 DEF Shared!Destroy, Shared!Made
  <2>2. obj'[r].ptr # 0 => obj'[r].ptr \in DOMAIN heap'
    BY <2>1 DEF SharedInv, SharedOK, SharedLinks
  <2>3. QED  BY <2>1, <2>2
<1>7. QED  BY <1>2, <1>3, <1>4, <1>5, <1>6

-----------------------------------------------------------------------------
(* UniquePtr *)

\* Of a heap h, pointers a and objects raw that the client has: each object
\* has one owner, and while none was parted from it by swap, its deleter.
UniqueTyped(h, a, raw) ==
    /\ DOMAIN h \subseteq Cells /\ raw \subseteq DOMAIN h
    /\ a \in [DOMAIN a -> [ptr : Cells \cup {0}, del : Deleters \cup {"delete"}]]
    /\ DOMAIN a \subseteq Ptrs
UniqueOwned(h, a, raw) ==
    /\ \A p \in DOMAIN a : a[p].ptr # 0 => a[p].ptr \in DOMAIN h \ raw
    /\ \A p, q \in DOMAIN a : a[p].ptr # 0 /\ a[p].ptr = a[q].ptr => p = q
    /\ \A x \in DOMAIN h \ raw : \E p \in DOMAIN a : a[p].ptr = x
UniqueMatched(h, a) == \A p \in DOMAIN a : a[p].ptr # 0 => h[a[p].ptr] = a[p].del

UniqueInv ==
    /\ obj = [class |-> obj.class, at |-> obj.at, raw |-> obj.raw,
              swapped |-> obj.swapped, misused |-> obj.misused]
    /\ obj.swapped \in BOOLEAN /\ obj.misused \in BOOLEAN
    /\ UniqueTyped(heap, obj.at, obj.raw)
    /\ UniqueOwned(heap, obj.at, obj.raw)
    /\ ~obj.swapped => ~obj.misused /\ UniqueMatched(heap, obj.at)

\* new gives a cell that is not live.
LEMMA UniqueFresh ==
    ASSUME NEW h, Unique!Room(h, 1)
    PROVE  Unique!Fresh(h) \in Cells \ DOMAIN h
<1>1. CASE Cells \ DOMAIN h # {}  BY <1>1 DEF Unique!Fresh
<1>2. CASE Cells \ DOMAIN h = {}
  <2>1. Cardinality(Cells \ DOMAIN h) = 0  BY <1>2, FS_EmptySet
  <2>2. QED  BY <2>1, SameCardinality DEF Unique!Room
<1>3. QED  BY <1>1, <1>2

\* At first there is no pointer and no object.
LEMMA UniqueInit == Unique!Init => UniqueInv
<1> SUFFICES ASSUME Unique!Init PROVE UniqueInv  OBVIOUS
<1>1. /\ heap = <<>> /\ obj.at = <<>> /\ obj.raw = {} /\ ~obj.swapped /\ ~obj.misused
      /\ obj = [class |-> obj.class, at |-> obj.at, raw |-> obj.raw,
                swapped |-> obj.swapped, misused |-> obj.misused]
      /\ obj.swapped \in BOOLEAN /\ obj.misused \in BOOLEAN
  BY DEF Unique!Init
<1>2. obj.at \in [{} -> [ptr : Cells \cup {0}, del : Deleters \cup {"delete"}]] /\ DOMAIN obj.at = {}
  BY <1>1
<1>3. DOMAIN heap = {}  BY <1>1
<1>4. QED
  BY <1>1, <1>2, <1>3 DEF UniqueInv, UniqueTyped, UniqueOwned, UniqueMatched

\* The delete of what p owns, which then owns nothing.
LEMMA UniqueDelete ==
    ASSUME UniqueInv, NEW p \in DOMAIN obj.at
    PROVE  LET m == Unique!Deleted(heap, p)
               a == Unique!Emptied(obj.at, p)
           IN  /\ UniqueTyped(m, a, obj.raw) /\ UniqueOwned(m, a, obj.raw)
               /\ UniqueMatched(heap, obj.at) => UniqueMatched(m, a) /\ ~Unique!Misuse(p)
               /\ DOMAIN a = DOMAIN obj.at /\ a[p].ptr = 0 /\ a[p].del = obj.at[p].del
               /\ \A q \in DOMAIN a \ {p} : a[q] = obj.at[q]
               /\ DOMAIN m \subseteq DOMAIN heap /\ \A c \in DOMAIN m : m[c] = heap[c]
<1> DEFINE m == Unique!Deleted(heap, p)
           a == Unique!Emptied(obj.at, p)
           x == obj.at[p].ptr
<1>0. /\ UniqueTyped(heap, obj.at, obj.raw) /\ UniqueOwned(heap, obj.at, obj.raw)
      /\ 0 \notin Cells
  BY OwnersAssumption DEF UniqueInv, OwnersAssumption
<1>1. /\ DOMAIN m = DOMAIN heap \ {x} /\ \A c \in DOMAIN m : m[c] = heap[c]
  BY <1>0 DEF Unique!Deleted, Unique!Owned, Unique!Freed, Unique!Nil, UniqueTyped
<1>2. /\ DOMAIN a = DOMAIN obj.at /\ a[p].ptr = 0 /\ a[p].del = obj.at[p].del
      /\ \A q \in DOMAIN a \ {p} : a[q] = obj.at[q]
      /\ a \in [DOMAIN a -> [ptr : Cells \cup {0}, del : Deleters \cup {"delete"}]]
  BY <1>0 DEF Unique!Emptied, Unique!Nil, UniqueTyped
<1>3. x # 0 => x \in DOMAIN heap \ obj.raw  BY <1>0 DEF UniqueOwned
<1>4. UniqueTyped(m, a, obj.raw)
  BY <1>0, <1>1, <1>2, <1>3 DEF UniqueTyped
<1> HIDE DEF m, a
<1>5. UniqueOwned(m, a, obj.raw)
  <2>1. ASSUME NEW q \in DOMAIN a, a[q].ptr # 0 PROVE a[q].ptr \in DOMAIN m \ obj.raw
    BY <1>0, <1>1, <1>2, <2>1 DEF UniqueOwned
  <2>2. ASSUME NEW q \in DOMAIN a, NEW r \in DOMAIN a, a[q].ptr # 0, a[q].ptr = a[r].ptr PROVE q = r
    BY <1>0, <1>2, <2>2 DEF UniqueOwned
  <2>3. ASSUME NEW y \in DOMAIN m \ obj.raw PROVE \E q \in DOMAIN a : a[q].ptr = y
    <3>1. PICK q \in DOMAIN obj.at : obj.at[q].ptr = y  BY <1>0, <1>1 DEF UniqueOwned
    <3>2. q # p  BY <1>1, <3>1
    <3>3. QED  BY <1>2, <3>1, <3>2
  <2>4. QED  BY <2>1, <2>2, <2>3 DEF UniqueOwned
<1>6. ASSUME UniqueMatched(heap, obj.at) PROVE UniqueMatched(m, a) /\ ~Unique!Misuse(p)
  <2>1. UniqueMatched(m, a)
    BY <1>1, <1>2, <1>5, <1>6 DEF UniqueMatched, UniqueOwned
  <2>2. ~Unique!Misuse(p)
    BY <1>6 DEF UniqueMatched, Unique!Misuse, Unique!Owned, Unique!Nil
  <2>3. QED  BY <2>1, <2>2
<1>7. QED  BY <1>1, <1>2, <1>4, <1>5, <1>6 DEF m, a

\* A pointer p that owns nothing, or is new, takes over what q owns, and its
\* deleter with it.
LEMMA UniqueTake ==
    ASSUME NEW h, NEW a, NEW raw, UniqueTyped(h, a, raw), UniqueOwned(h, a, raw),
           NEW q \in DOMAIN a, NEW p \in Ptrs \ {q}, p \in DOMAIN a => a[p].ptr = 0,
           NEW b, DOMAIN b = DOMAIN a \cup {p}, b[p] = a[q],
           b \in [DOMAIN b -> [ptr : Cells \cup {0}, del : Deleters \cup {"delete"}]],
           b[q].ptr = 0, \A r \in DOMAIN a \ {p, q} : b[r] = a[r]
    PROVE  /\ UniqueTyped(h, b, raw) /\ UniqueOwned(h, b, raw)
           /\ UniqueMatched(h, a) => UniqueMatched(h, b)
<1>1. UniqueTyped(h, b, raw)  BY DEF UniqueTyped
<1>2. ASSUME NEW r \in DOMAIN b, b[r].ptr # 0 PROVE b[r].ptr \in DOMAIN h \ raw
  BY <1>2 DEF UniqueOwned
<1>3. ASSUME NEW r \in DOMAIN b, NEW s \in DOMAIN b, b[r].ptr # 0, b[r].ptr = b[s].ptr PROVE r = s
  <2>1. r # q /\ s # q  BY <1>3
  <2>2. r \in DOMAIN a \ {p} => a[r].ptr # a[q].ptr
    BY <1>3, <2>1 DEF UniqueOwned
  <2>3. s \in DOMAIN a \ {p} => a[s].ptr # a[q].ptr
    BY <1>3, <2>1 DEF UniqueOwned
  <2>4. CASE r = p \/ s = p  BY <1>3, <2>1, <2>2, <2>3, <2>4
  <2>5. CASE r # p /\ s # p  BY <1>3, <2>1, <2>5 DEF UniqueOwned
  <2>6. QED  BY <2>4, <2>5
<1>4. ASSUME NEW x \in DOMAIN h \ raw PROVE \E r \in DOMAIN b : b[r].ptr = x
  <2>1. PICK r \in DOMAIN a : a[r].ptr = x  BY DEF UniqueOwned
  <2>2. x # 0  BY OwnersAssumption DEF OwnersAssumption, UniqueTyped
  <2>3. CASE r = q  BY <2>1, <2>3
  <2>4. CASE r # q  BY <2>1, <2>2, <2>4
  <2>5. QED  BY <2>3, <2>4
<1>5. ASSUME UniqueMatched(h, a) PROVE UniqueMatched(h, b)
  BY <1>5 DEF UniqueMatched
<1>6. QED  BY <1>1, <1>2, <1>3, <1>4, <1>5 DEF UniqueOwned

\* What a pointer is given, new or from the client, goes to p, which owns
\* nothing or is new, with the deleter that it was made for.
LEMMA UniqueGive ==
    ASSUME NEW h, NEW a, NEW raw, UniqueTyped(h, a, raw), UniqueOwned(h, a, raw),
           NEW d \in Deleters \cup {"delete"},
           NEW x, x = 0 \/ (x \in raw /\ h[x] = d) \/ x \in Cells \ DOMAIN h,
           NEW p \in Ptrs, p \in DOMAIN a => a[p].ptr = 0,
           NEW m, m = Unique!Added(h, x, d),
           NEW b, b = Unique!Stored(a, p, [ptr |-> x, del |-> d])
    PROVE  /\ UniqueTyped(m, b, raw \ {x}) /\ UniqueOwned(m, b, raw \ {x})
           /\ UniqueMatched(h, a) => UniqueMatched(m, b)
<1>0. 0 \notin Cells  BY OwnersAssumption DEF OwnersAssumption
<1>1. /\ x \in Cells \cup {0} /\ DOMAIN m = (DOMAIN h \cup {x}) \ {0}
      /\ x # 0 => m[x] = d
      /\ \A c \in DOMAIN h : m[c] = h[c]
  BY <1>0 DEF Unique!Added, Unique!Stored, Unique!Nil, UniqueTyped
<1>2. /\ DOMAIN b = DOMAIN a \cup {p} /\ b[p].ptr = x /\ b[p].del = d
      /\ \A r \in DOMAIN a \ {p} : b[r] = a[r]
      /\ b \in [DOMAIN b -> [ptr : Cells \cup {0}, del : Deleters \cup {"delete"}]]
  BY <1>1 DEF Unique!Stored, UniqueTyped
<1>3. UniqueTyped(m, b, raw \ {x})
  BY <1>0, <1>1, <1>2 DEF UniqueTyped
<1>4. \A r \in DOMAIN a \ {p} : a[r].ptr # 0 => a[r].ptr # x /\ a[r].ptr \in DOMAIN h \ raw
  BY DEF UniqueOwned
<1>5. UniqueOwned(m, b, raw \ {x})
  <2>1. ASSUME NEW r \in DOMAIN b, b[r].ptr # 0 PROVE b[r].ptr \in DOMAIN m \ (raw \ {x})
    BY <1>0, <1>1, <1>2, <1>4, <2>1
  <2>2. ASSUME NEW r \in DOMAIN b, NEW s \in DOMAIN b, b[r].ptr # 0, b[r].ptr = b[s].ptr PROVE r = s
    BY <1>2, <1>4, <2>2 DEF UniqueOwned
  <2>3. ASSUME NEW y \in DOMAIN m \ (raw \ {x}) PROVE \E r \in DOMAIN b : b[r].ptr = y
    <3>1. CASE y = x  BY <1>2, <3>1
    <3>2. CASE y # x
      <4>1. PICK r \in DOMAIN a : a[r].ptr = y  BY <1>1, <3>2 DEF UniqueOwned
      <4>2. r # p  BY <1>1, <4>1
      <4>3. QED  BY <1>2, <4>1, <4>2
    <3>3. QED  BY <3>1, <3>2
  <2>4. QED  BY <2>1, <2>2, <2>3 DEF UniqueOwned
<1>6. ASSUME UniqueMatched(h, a), NEW r \in DOMAIN b, b[r].ptr # 0 PROVE m[b[r].ptr] = b[r].del
  <2>1. CASE r = p  BY <1>1, <1>2, <1>6, <2>1
  <2>2. CASE r # p
    <3>1. a[r].ptr \in DOMAIN h /\ b[r] = a[r]  BY <1>2, <1>4, <1>6, <2>2
    <3>2. QED  BY <1>1, <1>2, <1>6, <2>2, <3>1 DEF UniqueMatched
  <2>3. QED  BY <2>1, <2>2
<1>7. QED  BY <1>3, <1>5, <1>6 DEF UniqueMatched

\* Each member function keeps the invariant.
LEMMA UniqueStep == UniqueInv /\ Unique!Next => UniqueInv'
<1> SUFFICES ASSUME UniqueInv, Unique!Next PROVE UniqueInv'  OBVIOUS
<1> DEFINE Type == [ptr : Cells \cup {0}, del : Deleters \cup {"delete"}]
<1>0. /\ UniqueTyped(heap, obj.at, obj.raw) /\ UniqueOwned(heap, obj.at, obj.raw)
      /\ obj.at \in [DOMAIN obj.at -> Type] /\ DOMAIN obj.at \subseteq Ptrs
      /\ obj.raw \subseteq DOMAIN heap /\ DOMAIN heap \subseteq Cells
      /\ 0 \notin Cells /\ obj.swapped \in BOOLEAN /\ obj.misused \in BOOLEAN
      /\ obj = [class |-> obj.class, at |-> obj.at, raw |-> obj.raw,
                swapped |-> obj.swapped, misused |-> obj.misused]
      /\ ~obj.swapped => ~obj.misused /\ UniqueMatched(heap, obj.at)
  BY OwnersAssumption DEF UniqueInv, UniqueTyped, OwnersAssumption
<1>1. ASSUME NEW p \in Ptrs, NEW x \in Cells \cup {0},
             NEW d \in Deleters \cup {"delete"}, Unique!Construct(p, x, d)
      PROVE  UniqueInv'
  <2>1. /\ p \notin DOMAIN obj.at /\ heap' = Unique!Added(heap, x, d)
        /\ x = 0 \/ (x \in obj.raw /\ heap[x] = d) \/ x \in Cells \ DOMAIN heap
    BY <1>1, UniqueFresh DEF Unique!Construct, Unique!Made, Unique!Given, Unique!Nil
  <2>2. obj' = [class |-> obj.class, at |-> Unique!Stored(obj.at, p, [ptr |-> x, del |-> d]),
                raw |-> obj.raw \ {x}, swapped |-> obj.swapped, misused |-> obj.misused]
    BY <1>0, <1>1 DEF Unique!Construct, Unique!Set
  <2>3. /\ UniqueTyped(heap', obj'.at, obj'.raw) /\ UniqueOwned(heap', obj'.at, obj'.raw)
        /\ UniqueMatched(heap, obj.at) => UniqueMatched(heap', obj'.at)
    BY <1>0, <2>1, <2>2, UniqueGive
  <2>4. QED  BY <1>0, <2>2, <2>3 DEF UniqueInv
<1>2. ASSUME NEW p \in Ptrs, NEW q \in Ptrs, Unique!MoveConstruct(p, q) PROVE UniqueInv'
  <2> DEFINE b == Unique!Emptied(Unique!Set(p, Unique!Owned(q), obj.at[q].del), q)
  <2>1. p \notin DOMAIN obj.at /\ q \in DOMAIN obj.at /\ heap' = heap
    BY <1>2 DEF Unique!MoveConstruct, Unique!Made
  <2>2. obj' = [class |-> obj.class, at |-> b, raw |-> obj.raw,
                swapped |-> obj.swapped, misused |-> obj.misused]
    BY <1>0, <1>2 DEF Unique!MoveConstruct
  <2>3. /\ DOMAIN b = DOMAIN obj.at \cup {p} /\ b[p] = obj.at[q] /\ b[q].ptr = 0
        /\ b \in [DOMAIN b -> Type]
        /\ \A r \in DOMAIN obj.at \ {p, q} : b[r] = obj.at[r]
    BY <1>0, <2>1 DEF Unique!Emptied, Unique!Set, Unique!Owned, Unique!Stored, Unique!Nil
  <2> HIDE DEF b
  <2>4. /\ UniqueTyped(heap, b, obj.raw) /\ UniqueOwned(heap, b, obj.raw)
        /\ UniqueMatched(heap, obj.at) => UniqueMatched(heap, b)
    BY <1>0, <2>1, <2>3, UniqueTake
  <2>5. QED  BY <1>0, <2>1, <2>2, <2>4 DEF UniqueInv
<1>3. ASSUME NEW p \in Ptrs, NEW q \in Ptrs, Unique!MoveAssign(p, q) PROVE UniqueInv'
  <2> DEFINE m == Unique!Deleted(heap, p)
             a == Unique!Emptied(obj.at, p)
             b == Unique!Emptied(Unique!Set(p, Unique!Owned(q), obj.at[q].del), q)
  <2>1. p \in DOMAIN obj.at /\ q \in DOMAIN obj.at \ {p} /\ heap' = m
    BY <1>3 DEF Unique!MoveAssign, Unique!Made
  <2>2. obj' = [class |-> obj.class, at |-> b, raw |-> obj.raw,
                swapped |-> obj.swapped, misused |-> obj.misused \/ Unique!Misuse(p)]
    BY <1>0, <1>3 DEF Unique!MoveAssign
  <2>3. /\ DOMAIN b = DOMAIN obj.at /\ b[p] = obj.at[q] /\ b[q].ptr = 0
        /\ b \in [DOMAIN b -> Type]
        /\ \A r \in DOMAIN obj.at \ {p, q} : b[r] = obj.at[r]
    BY <1>0, <2>1 DEF Unique!Emptied, Unique!Set, Unique!Owned, Unique!Stored, Unique!Nil
  <2> HIDE DEF m, a, b
  <2>4. /\ UniqueTyped(m, a, obj.raw) /\ UniqueOwned(m, a, obj.raw)
        /\ UniqueMatched(heap, obj.at) => UniqueMatched(m, a) /\ ~Unique!Misuse(p)
        /\ DOMAIN a = DOMAIN obj.at /\ a[p].ptr = 0
        /\ \A r \in DOMAIN a \ {p} : a[r] = obj.at[r]
    BY <2>1, UniqueDelete DEF m, a
  <2>5. /\ UniqueTyped(m, b, obj.raw) /\ UniqueOwned(m, b, obj.raw)
        /\ UniqueMatched(m, a) => UniqueMatched(m, b)
    <3>1. DOMAIN b = DOMAIN a \cup {p} /\ b[p] = a[q] /\ q \in DOMAIN a /\ p \in Ptrs \ {q}
          /\ \A r \in DOMAIN a \ {p, q} : b[r] = a[r]
      BY <2>1, <2>3, <2>4
    <3>2. QED  BY <2>3, <2>4, <3>1, UniqueTake
  <2>6. ~obj'.swapped => ~obj'.misused /\ UniqueMatched(m, b)
    BY <1>0, <2>2, <2>4, <2>5
  <2>7. obj'.misused \in BOOLEAN  BY <1>0, <2>2
  <2>8. QED  BY <1>0, <2>1, <2>2, <2>5, <2>6, <2>7 DEF UniqueInv
<1>4. ASSUME NEW p \in Ptrs, Unique!SelfMove(p) PROVE UniqueInv'
  <2>1. CASE UNCHANGED <<heap, obj>>  BY <2>1 DEF UniqueInv
  <2>2. CASE /\ heap' = Unique!Deleted(heap, p)
             /\ obj' = [obj EXCEPT !.at = Unique!Emptied(@, p), !.misused = @ \/ Unique!Misuse(p)]
    <3>1. p \in DOMAIN obj.at  BY <1>4 DEF Unique!SelfMove, Unique!Made
    <3>2. obj' = [class |-> obj.class, at |-> Unique!Emptied(obj.at, p), raw |-> obj.raw,
                  swapped |-> obj.swapped, misused |-> obj.misused \/ Unique!Misuse(p)]
      BY <1>0, <2>2
    <3>3. /\ UniqueTyped(heap', obj'.at, obj'.raw) /\ UniqueOwned(heap', obj'.at, obj'.raw)
          /\ UniqueMatched(heap, obj.at) => UniqueMatched(heap', obj'.at) /\ ~Unique!Misuse(p)
      BY <2>2, <3>1, <3>2, UniqueDelete
    <3>4. ~obj'.swapped => ~obj'.misused /\ UniqueMatched(heap', obj'.at)  BY <1>0, <3>2, <3>3
    <3>5. obj'.misused \in BOOLEAN  BY <1>0, <3>2
    <3>6. QED  BY <1>0, <3>2, <3>3, <3>4, <3>5 DEF UniqueInv
  <2>3. QED  BY <1>4, <2>1, <2>2 DEF Unique!SelfMove
<1>5. ASSUME NEW p \in Ptrs, NEW x \in Cells \cup {0}, Unique!Reset(p, x) PROVE UniqueInv'
  <2> DEFINE d == obj.at[p].del
             m == Unique!Deleted(heap, p)
             a == Unique!Emptied(obj.at, p)
             n == Unique!Added(m, x, d)
             b == Unique!Stored(a, p, [ptr |-> x, del |-> d])
  <2>1. /\ p \in DOMAIN obj.at /\ d \in Deleters \cup {"delete"}
        /\ x = 0 \/ (x \in obj.raw /\ heap[x] = d) \/ x \in Cells \ DOMAIN heap
    BY <1>0, <1>5, UniqueFresh DEF Unique!Reset, Unique!Made, Unique!Given, Unique!Nil
  <2>2. obj.at[p].ptr # 0 => obj.at[p].ptr \in DOMAIN heap \ obj.raw
    BY <1>0, <2>1 DEF UniqueOwned
  <2>3. heap' = n
    <3>0. heap' = Unique!Deleted(Unique!Added(heap, x, d), p)  BY <1>5 DEF Unique!Reset
    <3>1. CASE obj.at[p].ptr = 0 \/ x = 0
      BY <3>0, <3>1 DEF Unique!Added, Unique!Deleted, Unique!Owned, Unique!Nil
    <3>2. CASE obj.at[p].ptr # 0 /\ x # 0
      <4>1. x # obj.at[p].ptr  BY <2>1, <2>2, <3>2
      <4>2. Unique!Freed(Unique!Stored(heap, x, d), obj.at[p].ptr)
            = Unique!Stored(Unique!Freed(heap, obj.at[p].ptr), x, d)
        BY <4>1 DEF Unique!Freed, Unique!Stored
      <4>3. QED  BY <3>0, <3>2, <4>2 DEF Unique!Added, Unique!Deleted, Unique!Owned, Unique!Nil
    <3>3. QED  BY <3>1, <3>2
  <2>4. b = [obj.at EXCEPT ![p].ptr = x]
    BY <1>0, <2>1 DEF Unique!Stored, Unique!Emptied, Unique!Nil
  <2>5. obj' = [class |-> obj.class, at |-> [obj.at EXCEPT ![p].ptr = x], raw |-> obj.raw \ {x},
                swapped |-> obj.swapped, misused |-> obj.misused \/ Unique!Misuse(p)]
    BY <1>0, <1>5 DEF Unique!Reset
  <2>6. /\ UniqueTyped(m, a, obj.raw) /\ UniqueOwned(m, a, obj.raw)
        /\ UniqueMatched(heap, obj.at) => UniqueMatched(m, a) /\ ~Unique!Misuse(p)
        /\ DOMAIN a = DOMAIN obj.at /\ a[p].ptr = 0
        /\ DOMAIN m \subseteq DOMAIN heap /\ \A c \in DOMAIN m : m[c] = heap[c]
    BY <2>1, UniqueDelete
  <2> HIDE DEF m, a, n, b, d
  <2>7. x = 0 \/ (x \in obj.raw /\ m[x] = d) \/ x \in Cells \ DOMAIN m
    BY <2>1, <2>6 DEF UniqueTyped
  <2>8. /\ UniqueTyped(n, b, obj.raw \ {x}) /\ UniqueOwned(n, b, obj.raw \ {x})
        /\ UniqueMatched(m, a) => UniqueMatched(n, b)
    BY <2>1, <2>6, <2>7, UniqueGive DEF n, b
  <2>9. ~obj'.swapped => ~obj'.misused /\ UniqueMatched(n, b)  BY <1>0, <2>5, <2>6, <2>8
  <2>10. obj'.misused \in BOOLEAN  BY <1>0, <2>5
  <2>11. QED  BY <1>0, <2>3, <2>4, <2>5, <2>8, <2>9, <2>10 DEF UniqueInv
<1>6. ASSUME NEW p \in Ptrs, Unique!Release(p) PROVE UniqueInv'
  <2> DEFINE x == obj.at[p].ptr
             b == [obj.at EXCEPT ![p].ptr = 0]
  <2>1. p \in DOMAIN obj.at /\ x # 0 /\ x \in DOMAIN heap \ obj.raw /\ heap' = heap
    BY <1>0, <1>6 DEF Unique!Release, Unique!Made, Unique!Owned, Unique!Nil, UniqueOwned
  <2>2. obj' = [class |-> obj.class, at |-> b, raw |-> obj.raw \cup {x},
                swapped |-> obj.swapped, misused |-> obj.misused]
    BY <1>0, <1>6 DEF Unique!Release, Unique!Owned, Unique!Nil
  <2>3. /\ DOMAIN b = DOMAIN obj.at /\ b[p].ptr = 0 /\ b \in [DOMAIN b -> Type]
        /\ \A r \in DOMAIN b \ {p} : b[r] = obj.at[r]
    BY <1>0, <2>1
  <2> HIDE DEF b
  <2>4. UniqueTyped(heap, b, obj.raw \cup {x})  BY <1>0, <2>1, <2>3 DEF UniqueTyped
  <2>5. UniqueOwned(heap, b, obj.raw \cup {x})
    <3>1. ASSUME NEW r \in DOMAIN b, b[r].ptr # 0 PROVE b[r].ptr \in DOMAIN heap \ (obj.raw \cup {x})
      BY <1>0, <2>1, <2>3, <3>1 DEF UniqueOwned
    <3>2. ASSUME NEW r \in DOMAIN b, NEW s \in DOMAIN b, b[r].ptr # 0, b[r].ptr = b[s].ptr PROVE r = s
      BY <1>0, <2>3, <3>2 DEF UniqueOwned
    <3>3. ASSUME NEW y \in DOMAIN heap \ (obj.raw \cup {x}) PROVE \E r \in DOMAIN b : b[r].ptr = y
      <4>1. PICK r \in DOMAIN obj.at : obj.at[r].ptr = y  BY <1>0 DEF UniqueOwned
      <4>2. QED  BY <2>3, <4>1
    <3>4. QED  BY <3>1, <3>2, <3>3 DEF UniqueOwned
  <2>6. UniqueMatched(heap, obj.at) => UniqueMatched(heap, b)  BY <2>3 DEF UniqueMatched
  <2>7. QED  BY <1>0, <2>1, <2>2, <2>4, <2>5, <2>6 DEF UniqueInv
<1>7. ASSUME NEW p \in Ptrs, NEW q \in Ptrs, Unique!Swap(p, q) PROVE UniqueInv'
  <2> DEFINE b == [obj.at EXCEPT ![p].ptr = Unique!Owned(q), ![q].ptr = Unique!Owned(p)]
  <2>1. p \in DOMAIN obj.at /\ q \in DOMAIN obj.at \ {p} /\ heap' = heap
    BY <1>7 DEF Unique!Swap, Unique!Made
  <2>2. obj' = [class |-> obj.class, at |-> b, raw |-> obj.raw, misused |-> obj.misused,
                swapped |-> obj.swapped \/ obj.at[p].del # obj.at[q].del]
    BY <1>0, <1>7 DEF Unique!Swap
  <2>3. /\ DOMAIN b = DOMAIN obj.at /\ b \in [DOMAIN b -> Type]
        /\ b[p].ptr = obj.at[q].ptr /\ b[p].del = obj.at[p].del
        /\ b[q].ptr = obj.at[p].ptr /\ b[q].del = obj.at[q].del
        /\ \A r \in DOMAIN b \ {p, q} : b[r] = obj.at[r]
    BY <1>0, <2>1 DEF Unique!Owned
  <2> HIDE DEF b
  <2>4. UniqueTyped(heap, b, obj.raw)  BY <1>0, <2>1, <2>3 DEF UniqueTyped
  <2>5. UniqueOwned(heap, b, obj.raw)
    <3>1. ASSUME NEW r \in DOMAIN b, b[r].ptr # 0 PROVE b[r].ptr \in DOMAIN heap \ obj.raw
      BY <1>0, <2>1, <2>3, <3>1 DEF UniqueOwned
    <3>2. ASSUME NEW r \in DOMAIN b, NEW s \in DOMAIN b, b[r].ptr # 0, b[r].ptr = b[s].ptr PROVE r = s
      BY <1>0, <2>1, <2>3, <3>2 DEF UniqueOwned
    <3>3. ASSUME NEW y \in DOMAIN heap \ obj.raw PROVE \E r \in DOMAIN b : b[r].ptr = y
      <4>1. PICK r \in DOMAIN obj.at : obj.at[r].ptr = y  BY <1>0 DEF UniqueOwned
      <4>2. QED  BY <2>1, <2>3, <4>1
    <3>4. QED  BY <3>1, <3>2, <3>3 DEF UniqueOwned
  <2>6. ASSUME UniqueMatched(heap, obj.at), obj.at[p].del = obj.at[q].del
        PROVE  UniqueMatched(heap, b)
    BY <2>1, <2>3, <2>6 DEF UniqueMatched
  <2>7. ~obj'.swapped => ~obj'.misused /\ UniqueMatched(heap, b)  BY <1>0, <2>2, <2>6
  <2>8. obj'.swapped \in BOOLEAN  BY <1>0, <2>2
  <2>9. QED  BY <1>0, <2>1, <2>2, <2>4, <2>5, <2>7, <2>8 DEF UniqueInv
<1>8. ASSUME NEW p \in Ptrs, Unique!Destroy(p) PROVE UniqueInv'
  <2> DEFINE m == Unique!Deleted(heap, p)
             a == Unique!Emptied(obj.at, p)
             b == [q \in DOMAIN obj.at \ {p} |-> obj.at[q]]
  <2>1. p \in DOMAIN obj.at /\ heap' = m  BY <1>8 DEF Unique!Destroy, Unique!Made
  <2>2. obj' = [class |-> obj.class, at |-> b, raw |-> obj.raw,
                swapped |-> obj.swapped, misused |-> obj.misused \/ Unique!Misuse(p)]
    BY <1>0, <1>8 DEF Unique!Destroy, Unique!Made
  <2>3. DOMAIN b = DOMAIN obj.at \ {p} /\ b \in [DOMAIN b -> Type]
        /\ \A r \in DOMAIN b : b[r] = obj.at[r]
    BY <1>0
  <2> HIDE DEF m, a, b
  <2>4. /\ UniqueTyped(m, a, obj.raw) /\ UniqueOwned(m, a, obj.raw)
        /\ UniqueMatched(heap, obj.at) => UniqueMatched(m, a) /\ ~Unique!Misuse(p)
        /\ DOMAIN a = DOMAIN obj.at /\ a[p].ptr = 0
        /\ \A r \in DOMAIN a \ {p} : a[r] = obj.at[r]
    BY <2>1, UniqueDelete DEF m, a
  <2>5. UniqueTyped(m, b, obj.raw)  BY <1>0, <2>3, <2>4 DEF UniqueTyped
  <2>6. UniqueOwned(m, b, obj.raw)
    <3>1. ASSUME NEW r \in DOMAIN b, b[r].ptr # 0 PROVE b[r].ptr \in DOMAIN m \ obj.raw
      BY <2>3, <2>4, <3>1 DEF UniqueOwned
    <3>2. ASSUME NEW r \in DOMAIN b, NEW s \in DOMAIN b, b[r].ptr # 0, b[r].ptr = b[s].ptr PROVE r = s
      BY <2>3, <2>4, <3>2 DEF UniqueOwned
    <3>3. ASSUME NEW y \in DOMAIN m \ obj.raw PROVE \E r \in DOMAIN b : b[r].ptr = y
      <4>1. PICK r \in DOMAIN a : a[r].ptr = y  BY <2>4 DEF UniqueOwned
      <4>2. r # p  BY <1>0, <2>4, <4>1 DEF UniqueTyped
      <4>3. QED  BY <2>3, <2>4, <4>1, <4>2
    <3>4. QED  BY <3>1, <3>2, <3>3 DEF UniqueOwned
  <2>7. UniqueMatched(m, a) => UniqueMatched(m, b)  BY <2>3, <2>4 DEF UniqueMatched
  <2>8. ~obj'.swapped => ~obj'.misused /\ UniqueMatched(m, b)  BY <1>0, <2>2, <2>4, <2>7
  <2>9. obj'.misused \in BOOLEAN  BY <1>0, <2>2
  <2>10. QED  BY <1>0, <2>1, <2>2, <2>5, <2>6, <2>8, <2>9 DEF UniqueInv
<1>9. QED  BY <1>1, <1>2, <1>3, <1>4, <1>5, <1>6, <1>7, <1>8 DEF Unique!Next, Unique!Nil

\* The invariant gives what UniquePtr promises: an owner is the only one.
LEMMA UniqueIsSound == UniqueInv => Unique!Sound
<1> SUFFICES ASSUME UniqueInv PROVE Unique!Sound  OBVIOUS
<1>0. /\ UniqueTyped(heap, obj.at, obj.raw) /\ UniqueOwned(heap, obj.at, obj.raw)
      /\ ~obj.swapped => ~obj.misused
  BY DEF UniqueInv
<1>1. ASSUME NEW x \in DOMAIN heap
      PROVE  Cardinality({p \in DOMAIN obj.at : obj.at[p].ptr = x}) = IF x \in obj.raw THEN 0 ELSE 1
  <2> DEFINE S == {p \in DOMAIN obj.at : obj.at[p].ptr = x}
  <2>0. x # 0  BY OwnersAssumption, <1>0 DEF OwnersAssumption, UniqueTyped
  <2>1. CASE x \in obj.raw
    <3>1. S = {}  BY <1>0, <2>0, <2>1 DEF UniqueOwned
    <3>2. QED  BY <2>1, <3>1, FS_EmptySet
  <2>2. CASE x \notin obj.raw
    <3>1. PICK p \in DOMAIN obj.at : obj.at[p].ptr = x  BY <1>0, <2>2 DEF UniqueOwned
    <3>2. S = {p}  BY <1>0, <2>0, <3>1 DEF UniqueOwned
    <3>3. QED  BY <2>2, <3>2, FS_Singleton
  <2>3. QED  BY <2>1, <2>2
<1>2. \A p \in DOMAIN obj.at : obj.at[p].ptr \in DOMAIN heap \cup {0}  BY <1>0 DEF UniqueOwned
<1>3. obj.raw \subseteq DOMAIN heap  BY <1>0 DEF UniqueTyped
<1>4. QED
  BY <1>0, <1>1, <1>2, <1>3, SameCardinality DEF Unique!Sound, Unique!Made, Unique!Owned, Unique!Nil

-----------------------------------------------------------------------------
(* Optional *)

\* A buffer holds the T that defined promises, and nothing else.
OptState(s) == s.data \in Seq(Values) /\ s.defined \in BOOLEAN /\ Len(s.data) = IF s.defined THEN 1 ELSE 0
OptInv ==
    /\ heap \in [DOMAIN obj -> Seq(Values)] /\ obj \in [DOMAIN obj -> BOOLEAN]
    /\ \A o \in DOMAIN obj : OptState([data |-> heap[o], defined |-> obj[o]])

\* At first there is no Optional.
LEMMA OptInit == Opt!Init => OptInv
<1> SUFFICES ASSUME Opt!Init PROVE OptInv  OBVIOUS
<1>1. heap = <<>> /\ obj = <<>>  BY DEF Opt!Init
<1>2. DOMAIN heap = {} /\ DOMAIN obj = {}  BY <1>1
<1>3. heap \in [{} -> Seq(Values)] /\ obj \in [{} -> BOOLEAN]  BY <1>1, <1>2
<1>4. QED  BY <1>2, <1>3 DEF OptInv

\* What the operators do to a buffer.
LEMMA OptOperators ==
    ASSUME NEW s, OptState(s), NEW v \in Values
    PROVE  /\ OptState(Opt!copy_data(s, v)) /\ Opt!copy_data(s, v) = [data |-> <<v>>, defined |-> TRUE]
           /\ OptState(Opt!reset(s)) /\ ~Opt!reset(s).defined
           /\ ~s.defined => /\ OptState(Opt!move_data(s, v))
                            /\ Opt!move_data(s, v) = [data |-> <<v>>, defined |-> TRUE]
<1>1. ~s.defined => Append(s.data, v) = <<v>>
  <2>1. ~s.defined => s.data = <<>>  BY DEF OptState
  <2>2. Append(<<>>, v) = <<v>>  OBVIOUS
  <2>3. QED  BY <2>1, <2>2
<1>2. s.defined => Tail(s.data) \in Seq(Values) /\ Len(Tail(s.data)) = 0
  BY DEF OptState
<1>3. OptState([data |-> <<v>>, defined |-> TRUE])
  <2>1. <<v>> \in Seq(Values) /\ Len(<<v>>) = 1  OBVIOUS
  <2>2. QED  BY <2>1 DEF OptState
<1>4. Opt!copy_data(s, v) = [data |-> <<v>>, defined |-> TRUE]
  BY <1>1 DEF Opt!copy_data
<1>5. ~s.defined => Opt!move_data(s, v) = [data |-> <<v>>, defined |-> TRUE]
  BY <1>1 DEF Opt!move_data
<1>6. OptState(Opt!reset(s)) /\ ~Opt!reset(s).defined
  BY <1>2 DEF Opt!reset, OptState
<1>7. QED  BY <1>3, <1>4, <1>5, <1>6

\* A copy of other: its value, or none.
LEMMA OptCopy ==
    ASSUME NEW s, OptState(s), NEW t, OptState(t)
    PROVE  /\ OptState(Opt!copy(s, t)) /\ Opt!value(Opt!copy(s, t)) = Opt!value(t)
           /\ Opt!copy(s, t).defined = t.defined
<1>1. CASE t.defined
  <2>1. PICK v \in Values : t.data = <<v>>
    <3>1. t.data[1] \in Values /\ t.data = <<t.data[1]>>  BY <1>1 DEF OptState
    <3>2. QED  BY <3>1
  <2>2. Opt!copy(s, t) = Opt!copy_data(s, v)  BY <1>1, <2>1 DEF Opt!copy, Opt!value
  <2>3. OptState(Opt!copy(s, t)) /\ Opt!copy(s, t) = [data |-> <<v>>, defined |-> TRUE]
    <3>1. OptState(Opt!copy_data(s, v)) /\ Opt!copy_data(s, v) = [data |-> <<v>>, defined |-> TRUE]
      BY OptOperators
    <3>2. QED  BY <2>2, <3>1
  <2>4. t.defined = TRUE  BY <1>1 DEF OptState
  <2>5. QED  BY <1>1, <2>1, <2>3, <2>4 DEF Opt!value
<1>2. CASE ~t.defined
  <2>1. Opt!copy(s, t) = Opt!reset(s)  BY <1>2 DEF Opt!copy
  <2>2. OptState(Opt!reset(s)) /\ ~Opt!reset(s).defined
    <3>1. s.defined => Tail(s.data) \in Seq(Values) /\ Len(Tail(s.data)) = 0  BY DEF OptState
    <3>2. QED  BY <3>1 DEF Opt!reset, OptState
  <2>3. Opt!reset(s).defined = FALSE /\ t.defined = FALSE  BY <1>2, <2>2 DEF OptState
  <2>4. QED  BY <2>1, <2>2, <2>3 DEF Opt!value
<1>3. QED  BY <1>1, <1>2

\* The buffer of o becomes s, and the others stay.
LEMMA OptBecomes ==
    ASSUME OptInv, NEW o \in Optionals, NEW s, OptState(s), Opt!Becomes(o, s)
    PROVE  OptInv' /\ Opt!State(o)' = [data |-> s.data, defined |-> s.defined]
                   /\ \A p \in DOMAIN obj \ {o} : Opt!State(p)' = Opt!State(p)
<1>1. /\ DOMAIN obj' = DOMAIN obj \cup {o} /\ DOMAIN heap' = DOMAIN obj \cup {o}
      /\ obj'[o] = s.defined /\ heap'[o] = s.data
      /\ \A p \in DOMAIN obj \ {o} : obj'[p] = obj[p] /\ heap'[p] = heap[p]
      /\ heap' \in [DOMAIN obj' -> Seq(Values)] /\ obj' \in [DOMAIN obj' -> BOOLEAN]
  BY DEF Opt!Becomes, Opt!Made, OptInv, OptState
<1>2. ASSUME NEW p \in DOMAIN obj' PROVE OptState([data |-> heap'[p], defined |-> obj'[p]])
  <2>1. CASE p = o  BY <1>1, <2>1 DEF OptState
  <2>2. CASE p # o  BY <1>1, <2>2 DEF OptInv
  <2>3. QED  BY <2>1, <2>2
<1>3. QED  BY <1>1, <1>2 DEF OptInv, Opt!State

\* The states of the buffers that the member functions start from.
LEMMA OptStates ==
    /\ OptState(Opt!Fresh) /\ ~Opt!Fresh.defined
    /\ OptInv => \A o \in DOMAIN obj : /\ OptState(Opt!State(o)) /\ Opt!State(o).defined = obj[o]
                                        /\ Opt!State(o).data = heap[o]
<1>1. <<>> \in Seq(Values) /\ Len(<<>>) = 0  OBVIOUS
<1>2. OptState(Opt!Fresh) /\ ~Opt!Fresh.defined  BY <1>1 DEF OptState, Opt!Fresh
<1>3. QED  BY <1>2 DEF OptInv, Opt!State

\* Each member function keeps the invariant, and gives the buffer its value.
LEMMA OptActions ==
    ASSUME OptInv, NEW o \in Optionals
    PROVE  /\ Opt!Construct(o) \/ Opt!Reset(o) \/ Opt!Destroy(o) => OptInv'
           /\ \A v \in Values :
                  Opt!FromValue(o, v) \/ Opt!FromMoved(o, v)
                  \/ Opt!AssignValue(o, v) \/ Opt!AssignMoved(o, v)
                  => OptInv' /\ Opt!State(o)' = [data |-> <<v>>, defined |-> TRUE]
           /\ \A p \in Optionals :
                  Opt!CopyConstruct(o, p) \/ Opt!AssignOptional(o, p)
                  => /\ OptInv' /\ UNCHANGED Opt!State(p)
                     /\ Opt!value(Opt!State(o)') = Opt!value(Opt!State(p))
<1>1. Opt!Construct(o) => OptInv'  BY OptStates, OptBecomes DEF Opt!Construct
<1>2. ASSUME Opt!Reset(o) PROVE OptInv'
  <2> DEFINE s == Opt!State(o)
  <2>1. OptState(s) /\ Opt!Becomes(o, Opt!reset(s))
    BY <1>2, OptStates DEF Opt!Reset, Opt!Made
  <2> HIDE DEF s
  <2>2. s.defined => Tail(s.data) \in Seq(Values) /\ Len(Tail(s.data)) = 0  BY <2>1 DEF OptState
  <2>3. OptState(Opt!reset(s))  BY <2>1, <2>2 DEF Opt!reset, OptState
  <2>4. QED  BY <2>1, <2>3, OptBecomes
<1>3. ASSUME Opt!Destroy(o) PROVE OptInv'
  <2>1. /\ DOMAIN obj' = DOMAIN obj \ {o} /\ DOMAIN heap' = DOMAIN obj \ {o}
        /\ \A p \in DOMAIN obj' : obj'[p] = obj[p] /\ heap'[p] = heap[p]
        /\ heap' \in [DOMAIN obj' -> Seq(Values)] /\ obj' \in [DOMAIN obj' -> BOOLEAN]
    BY <1>3 DEF Opt!Destroy, Opt!Made, OptInv
  <2>2. QED  BY <2>1 DEF OptInv
<1>4. ASSUME NEW v \in Values,
             Opt!FromValue(o, v) \/ Opt!FromMoved(o, v) \/ Opt!AssignValue(o, v) \/ Opt!AssignMoved(o, v)
      PROVE  OptInv' /\ Opt!State(o)' = [data |-> <<v>>, defined |-> TRUE]
  <2> DEFINE t == [data |-> <<v>>, defined |-> TRUE]
  <2>1. OptState(t)
    <3>1. <<v>> \in Seq(Values) /\ Len(<<v>>) = 1  OBVIOUS
    <3>2. QED  BY <3>1 DEF OptState
  <2>2. Opt!Becomes(o, t)
    <3>1. CASE Opt!FromValue(o, v)  BY <3>1, OptStates, OptOperators DEF Opt!FromValue
    <3>2. CASE Opt!FromMoved(o, v)  BY <3>2, OptStates, OptOperators DEF Opt!FromMoved
    <3>3. CASE Opt!AssignValue(o, v)
      BY <3>3, OptStates, OptOperators DEF Opt!AssignValue, Opt!Made
    <3>4. CASE Opt!AssignMoved(o, v)
      <4>1. o \in DOMAIN obj /\ OptState(Opt!State(o)) /\ Opt!State(o).defined = obj[o]
            /\ obj[o] \in BOOLEAN
        BY <3>4, OptStates DEF Opt!AssignMoved, Opt!Made, OptInv
      <4>2. CASE obj[o]
        <5>0. obj[o] = TRUE  BY <4>1, <4>2
        <5>a. \A h, d, x : [[data |-> h, defined |-> d] EXCEPT !.data = x] = [data |-> x, defined |-> d]
          OBVIOUS
        <5>1. [Opt!State(o) EXCEPT !.data = <<v>>] = t  BY <5>0, <5>a, Zenon DEF Opt!State
        <5>2. QED  BY <3>4, <4>2, <5>1 DEF Opt!AssignMoved
      <4>3. CASE ~obj[o]
        <5>1. Opt!move_data(Opt!State(o), v) = t  BY <4>1, <4>3, OptOperators
        <5>2. QED  BY <3>4, <4>3, <5>1 DEF Opt!AssignMoved
      <4>4. QED  BY <4>2, <4>3
    <3>5. QED  BY <1>4, <3>1, <3>2, <3>3, <3>4
  <2>3. QED  BY <2>1, <2>2, OptBecomes
<1>5. ASSUME NEW p \in Optionals, Opt!CopyConstruct(o, p)
      PROVE  /\ OptInv' /\ UNCHANGED Opt!State(p)
             /\ Opt!value(Opt!State(o)') = Opt!value(Opt!State(p))
  <2> DEFINE s == Opt!copy(Opt!Fresh, Opt!State(p))
  <2>1. o \notin DOMAIN obj /\ p \in DOMAIN obj /\ Opt!Becomes(o, s)
    BY <1>5 DEF Opt!CopyConstruct, Opt!Made
  <2>2. OptState(s) /\ Opt!value(s) = Opt!value(Opt!State(p))  BY <2>1, OptStates, OptCopy
  <2> HIDE DEF s
  <2>3. OptInv' /\ Opt!State(o)' = [data |-> s.data, defined |-> s.defined]
        /\ \A q \in DOMAIN obj \ {o} : Opt!State(q)' = Opt!State(q)
    BY <2>1, <2>2, OptBecomes
  <2>4. Opt!value([data |-> s.data, defined |-> s.defined]) = Opt!value(s)  BY DEF Opt!value
  <2>5. QED  BY <2>1, <2>2, <2>3, <2>4
<1>6. ASSUME NEW p \in Optionals, Opt!AssignOptional(o, p)
      PROVE  /\ OptInv' /\ UNCHANGED Opt!State(p)
             /\ Opt!value(Opt!State(o)') = Opt!value(Opt!State(p))
  <2> DEFINE s == IF o = p THEN Opt!State(o) ELSE Opt!copy(Opt!State(o), Opt!State(p))
  <2>1. o \in DOMAIN obj /\ p \in DOMAIN obj /\ Opt!Becomes(o, s)
    BY <1>6 DEF Opt!AssignOptional, Opt!Made
  <2>2. OptState(s) /\ Opt!value(s) = Opt!value(Opt!State(p))  BY <2>1, OptStates, OptCopy
  <2>2a. o = p => [data |-> s.data, defined |-> s.defined] = Opt!State(p)  BY DEF Opt!State
  <2> HIDE DEF s
  <2>3. OptInv' /\ Opt!State(o)' = [data |-> s.data, defined |-> s.defined]
        /\ \A q \in DOMAIN obj \ {o} : Opt!State(q)' = Opt!State(q)
    BY <2>1, <2>2, OptBecomes
  <2>4. Opt!value([data |-> s.data, defined |-> s.defined]) = Opt!value(s)  BY DEF Opt!value
  <2>5. QED  BY <2>1, <2>2, <2>2a, <2>3, <2>4
<1>7. QED  BY <1>1, <1>2, <1>3, <1>4, <1>5, <1>6

\* Each step keeps the invariant.
LEMMA OptStep == OptInv /\ Opt!Next => OptInv'
BY OptActions DEF Opt!Next

\* The invariant says what Sound says, and more of the buffers.
LEMMA OptIsSound == OptInv => Opt!Sound
BY DEF OptInv, OptState, Opt!Sound, Opt!Made

\* What assignments give an Optional.
LEMMA OptRefines == OptInv => Opt!Refines
<1> SUFFICES ASSUME OptInv, NEW o \in Optionals
             PROVE  /\ \A v \in Values :
                           (Opt!FromValue(o, v) \/ Opt!FromMoved(o, v)
                            \/ Opt!AssignValue(o, v) \/ Opt!AssignMoved(o, v))
                           => Opt!value(Opt!State(o))' = <<v>>
                    /\ \A p \in Optionals :
                           Opt!CopyConstruct(o, p) \/ Opt!AssignOptional(o, p)
                           => /\ Opt!value(Opt!State(o))' = Opt!value(Opt!State(p))
                              /\ UNCHANGED Opt!State(p)
  BY DEF Opt!Refines
<1>1. Opt!value(Opt!State(o))' = Opt!value(Opt!State(o)')  BY DEF Opt!value
<1>2. \A v : Opt!value([data |-> <<v>>, defined |-> TRUE]) = <<v>>  BY DEF Opt!value
<1>3. QED  BY <1>1, <1>2, OptActions

-----------------------------------------------------------------------------
(* Vectors *)

\* Of a heap h and vectors a: each vector has an array of its own, of the size
\* that reserved says and with room for its elements.
VecElements == Numbers \cup {-1, 0}
VecTyped(h, a) ==
    /\ h \in [DOMAIN h -> Nat] /\ DOMAIN h \subseteq Cells /\ DOMAIN a \subseteq Vecs
    /\ a \in [DOMAIN a -> [arr : Cells, items : Seq(VecElements), reserved : Nat]]
VecOwned(h, a) ==
    /\ \A v \in DOMAIN a : /\ a[v].arr \in DOMAIN h /\ h[a[v].arr] = a[v].reserved
                           /\ Len(a[v].items) <= a[v].reserved
    /\ \A v, w \in DOMAIN a : a[v].arr = a[w].arr => v = w
VecFull(h, a) == \A x \in DOMAIN h : \E v \in DOMAIN a : a[v].arr = x

\* What was moved, listed or out of bounds loses a part of it.
VecInv ==
    /\ obj = [class |-> obj.class, at |-> obj.at, ub |-> obj.ub, moved |-> obj.moved,
              listed |-> obj.listed]
    /\ obj.ub \in BOOLEAN /\ obj.moved \in BOOLEAN /\ obj.listed \in BOOLEAN
    /\ ~obj.ub => VecTyped(heap, obj.at)
    /\ ~obj.ub /\ ~obj.moved => VecOwned(heap, obj.at)
    /\ ~obj.ub /\ ~obj.moved /\ ~obj.listed => VecFull(heap, obj.at)

\* s = [mem, v] as the state after a call for vector v.
VecNow(s, v) == Vec!Stored(obj.at, v, s.v)
VecGood(s, v) ==
    /\ s = [mem |-> s.mem, v |-> [arr |-> s.v.arr, items |-> s.v.items, reserved |-> s.v.reserved]]
    /\ VecTyped(s.mem, VecNow(s, v)) /\ VecOwned(s.mem, VecNow(s, v))
    /\ VecFull(heap, obj.at) => VecFull(s.mem, VecNow(s, v))

\* new gives a cell that is not live.
LEMMA VecFresh ==
    ASSUME NEW h, Vec!Room(h, 1)
    PROVE  Vec!Fresh(h) \in Cells \ DOMAIN h
<1>1. CASE Cells \ DOMAIN h # {}  BY <1>1 DEF Vec!Fresh
<1>2. CASE Cells \ DOMAIN h = {}
  <2>1. Cardinality(Cells \ DOMAIN h) = 0  BY <1>2, FS_EmptySet
  <2>2. QED  BY <2>1, SameCardinality DEF Vec!Room
<1>3. QED  BY <1>1, <1>2

\* At first there is no vector and no array.
LEMMA VecInit == Vec!Init => VecInv
<1> SUFFICES ASSUME Vec!Init PROVE VecInv  OBVIOUS
<1>1. /\ heap = <<>> /\ obj.at = <<>>
      /\ obj = [class |-> obj.class, at |-> obj.at, ub |-> obj.ub, moved |-> obj.moved,
                listed |-> obj.listed]
      /\ obj.ub \in BOOLEAN /\ obj.moved \in BOOLEAN /\ obj.listed \in BOOLEAN
  BY DEF Vec!Init
<1>2. DOMAIN heap = {} /\ DOMAIN obj.at = {}  BY <1>1
<1>3. /\ obj.at \in [{} -> [arr : Cells, items : Seq(VecElements), reserved : Nat]]
      /\ heap \in [{} -> Nat]
  BY <1>1, <1>2
<1>4. QED  BY <1>1, <1>2, <1>3 DEF VecInv, VecTyped, VecOwned, VecFull

\* The vectors that a call starts from.
LEMMA VecState ==
    ASSUME VecInv, ~obj.ub, ~obj.moved, NEW v \in DOMAIN obj.at
    PROVE  /\ VecGood(Vec!State(v), v) /\ VecNow(Vec!State(v), v) = obj.at
           /\ Vec!State(v).mem = heap /\ Vec!State(v).v = obj.at[v]
<1>1. VecTyped(heap, obj.at) /\ VecOwned(heap, obj.at)  BY DEF VecInv
<1>2. Vec!Stored(obj.at, v, obj.at[v]) = obj.at  BY <1>1 DEF Vec!Stored, VecTyped
<1>3. obj.at[v] = [arr |-> obj.at[v].arr, items |-> obj.at[v].items, reserved |-> obj.at[v].reserved]
  BY <1>1 DEF VecTyped
<1>4. Vec!State(v) = [mem |-> heap, v |-> obj.at[v]]  BY DEF Vec!State
<1>5. QED  BY <1>1, <1>2, <1>3, <1>4 DEF VecGood, VecNow

\* A vector v on a new array, whose elements are items: the old array, where v
\* has one, is lost.
LEMMA VecFilled ==
    ASSUME VecInv, ~obj.ub, ~obj.moved, NEW v \in Vecs, Vec!Room(heap, 1),
           NEW size \in Nat, NEW items \in Seq(VecElements), Len(items) <= size
    PROVE  LET s == Vec!Filled(heap, size, items)
           IN  /\ VecTyped(s.mem, VecNow(s, v)) /\ VecOwned(s.mem, VecNow(s, v))
               /\ v \notin DOMAIN obj.at => VecGood(s, v)
               /\ s.v.items = items /\ s.v.arr # 0
<1> DEFINE n == Vec!Fresh(heap)
           m == Vec!Stored(heap, n, size)
           r == [arr |-> n, items |-> items, reserved |-> size]
           s == [mem |-> m, v |-> r]
           b == Vec!Stored(obj.at, v, r)
<1>0. VecTyped(heap, obj.at) /\ VecOwned(heap, obj.at) /\ n \in Cells \ DOMAIN heap /\ 0 \notin Cells
  BY VecFresh, OwnersAssumption DEF VecInv, OwnersAssumption
<1> HIDE DEF n
<1>1. /\ DOMAIN m = DOMAIN heap \cup {n} /\ m[n] = size /\ \A c \in DOMAIN heap : m[c] = heap[c]
      /\ m \in [DOMAIN m -> Nat]
  BY <1>0 DEF Vec!Stored, VecTyped
<1>2. Vec!Filled(heap, size, items) = s
  <2>1. Vec!newArray(heap, size) = m  BY DEF Vec!newArray, n
  <2> DEFINE e == [mem |-> m, v |-> [arr |-> n, items |-> <<>>, reserved |-> size]]
  <2>2. e.mem[e.v.arr] = size /\ e.v.arr = n /\ e.mem = m /\ e.v.reserved = size  BY <1>1
  <2> HIDE DEF m, e
  <2>3. Vec!Holding(e, items) = s  BY <2>2 DEF Vec!Holding
  <2>4. QED  BY <2>1, <2>3 DEF Vec!Filled, n, e
<1>3. /\ DOMAIN b = DOMAIN obj.at \cup {v} /\ b[v] = r /\ \A w \in DOMAIN obj.at \ {v} : b[w] = obj.at[w]
      /\ b \in [DOMAIN b -> [arr : Cells, items : Seq(VecElements), reserved : Nat]]
  BY <1>0 DEF Vec!Stored, VecTyped
<1>4. r.arr = n /\ r.items = items /\ r.reserved = size /\ s.mem = m /\ s.v = r /\ VecNow(s, v) = b
  BY DEF VecNow
<1>5. s = [mem |-> s.mem, v |-> [arr |-> s.v.arr, items |-> s.v.items, reserved |-> s.v.reserved]]
  OBVIOUS
<1> HIDE DEF m, b, r, s
<1>6. VecTyped(m, b)  BY <1>0, <1>1, <1>3 DEF VecTyped
<1>7. VecOwned(m, b)
  <2>1. ASSUME NEW w \in DOMAIN b
        PROVE  b[w].arr \in DOMAIN m /\ m[b[w].arr] = b[w].reserved /\ Len(b[w].items) <= b[w].reserved
    <3>1. CASE w = v  BY <1>1, <1>3, <1>4, <3>1
    <3>2. CASE w # v  BY <1>0, <1>1, <1>3, <3>2 DEF VecOwned
    <3>3. QED  BY <3>1, <3>2
  <2>2. ASSUME NEW w \in DOMAIN b, NEW u \in DOMAIN b, b[w].arr = b[u].arr PROVE w = u
    <3>1. \A x \in DOMAIN obj.at \ {v} : b[x].arr \in DOMAIN heap  BY <1>0, <1>3 DEF VecOwned
    <3>2. QED  BY <1>0, <1>3, <1>4, <2>2, <3>1 DEF VecOwned
  <2>3. QED  BY <2>1, <2>2 DEF VecOwned
<1>8. ASSUME v \notin DOMAIN obj.at, VecFull(heap, obj.at) PROVE VecFull(m, b)
  <2>1. SUFFICES ASSUME NEW x \in DOMAIN m PROVE \E w \in DOMAIN b : b[w].arr = x  BY DEF VecFull
  <2>2. CASE x = n  BY <1>3, <1>4, <2>2
  <2>3. CASE x # n
    <3>1. PICK w \in DOMAIN obj.at : obj.at[w].arr = x  BY <1>1, <1>8, <2>3 DEF VecFull
    <3>2. QED  BY <1>3, <1>8, <3>1
  <2>4. QED  BY <2>2, <2>3
<1>9. QED  BY <1>0, <1>2, <1>4, <1>5, <1>6, <1>7, <1>8 DEF VecGood

\* The elements become items: in the array, or outside of it.
LEMMA VecHolding ==
    ASSUME NEW v \in Vecs, NEW s, VecGood(s, v), NEW items \in Seq(VecElements)
    PROVE  LET t == Vec!Holding(s, items)
           IN  /\ Len(items) <= s.v.reserved => VecGood(t, v) /\ t.v.items = items /\ t.v.arr # 0
               /\ Len(items) > s.v.reserved => t.v.arr = 0
<1> DEFINE a == VecNow(s, v)
           r == [arr |-> s.v.arr, items |-> items, reserved |-> s.v.reserved]
           t == [mem |-> s.mem, v |-> r]
           b == VecNow(t, v)
<1>0. /\ a[v] = s.v /\ v \in DOMAIN a /\ VecTyped(s.mem, a) /\ VecOwned(s.mem, a) /\ 0 \notin Cells
      /\ s = [mem |-> s.mem, v |-> [arr |-> s.v.arr, items |-> s.v.items, reserved |-> s.v.reserved]]
  BY OwnersAssumption DEF VecGood, VecNow, Vec!Stored, OwnersAssumption
<1>1. s.mem[s.v.arr] = s.v.reserved /\ s.v.reserved \in Nat /\ s.v.arr \in Cells /\ Len(items) \in Nat
  BY <1>0 DEF VecOwned, VecTyped
<1>4. Vec!Holding(s, items)
      = [mem |-> s.mem, v |-> [arr |-> IF Len(items) <= s.v.reserved THEN s.v.arr ELSE 0,
                               items |-> items, reserved |-> s.v.reserved]]
  BY <1>1 DEF Vec!Holding, Vec!Nil
<1>5. ASSUME Len(items) <= s.v.reserved PROVE VecGood(t, v)
  <2>1. /\ DOMAIN b = DOMAIN a /\ b[v] = r /\ \A w \in DOMAIN a \ {v} : b[w] = a[w]
        /\ b \in [DOMAIN b -> [arr : Cells, items : Seq(VecElements), reserved : Nat]]
    BY <1>0, <1>1 DEF VecNow, Vec!Stored, VecTyped
  <2>2. r.arr = s.v.arr /\ r.items = items /\ r.reserved = s.v.reserved  OBVIOUS
  <2>3. t = [mem |-> s.mem, v |-> [arr |-> t.v.arr, items |-> t.v.items, reserved |-> t.v.reserved]]
        /\ t.mem = s.mem
    OBVIOUS
  <2> HIDE DEF a, b, r, t
  <2>4. VecTyped(s.mem, b)  BY <1>0, <2>1 DEF VecTyped
  <2>5. VecOwned(s.mem, b)
    <3>1. \A w \in DOMAIN b : b[w].arr = a[w].arr /\ b[w].reserved = a[w].reserved
      BY <1>0, <2>1, <2>2
    <3>2. \A w \in DOMAIN b : Len(b[w].items) <= b[w].reserved
      BY <1>0, <1>5, <2>1, <2>2, <3>1 DEF VecOwned
    <3>3. QED  BY <1>0, <2>1, <3>1, <3>2 DEF VecOwned
  <2>6. VecFull(s.mem, a) => VecFull(s.mem, b)
    BY <1>0, <2>1, <2>2 DEF VecFull
  <2>7. QED  BY <2>3, <2>4, <2>5, <2>6 DEF VecGood, a, b
<1>6. QED  BY <1>0, <1>1, <1>4, <1>5

\* A larger array takes the place of the old one.
LEMMA VecReserve ==
    ASSUME NEW v \in Vecs, NEW s, VecGood(s, v), Vec!Room(s.mem, 1),
           NEW n \in Nat, Len(s.v.items) <= 4 * n
    PROVE  LET t == Vec!Reserve(s, n)
           IN  VecGood(t, v) /\ t.v.items = s.v.items /\ t.v.reserved = 4 * n
<1> DEFINE a == VecNow(s, v)
           f == Vec!Fresh(s.mem)
           m == Vec!Freed(Vec!Stored(s.mem, f, 4 * n), s.v.arr)
           r == [arr |-> f, items |-> s.v.items, reserved |-> 4 * n]
           t == [mem |-> m, v |-> r]
           b == VecNow(t, v)
<1>0. /\ a[v] = s.v /\ v \in DOMAIN a /\ VecTyped(s.mem, a) /\ VecOwned(s.mem, a) /\ 4 * n \in Nat
      /\ s = [mem |-> s.mem, v |-> [arr |-> s.v.arr, items |-> s.v.items, reserved |-> s.v.reserved]]
  BY DEF VecGood, VecNow, Vec!Stored
<1>1. f \in Cells \ DOMAIN s.mem  BY VecFresh
<1>2. s.v.arr \in DOMAIN s.mem /\ s.v.items \in Seq(VecElements)  BY <1>0 DEF VecOwned, VecTyped
<1>3. Vec!Reserve(s, n) = t
  <2> DEFINE q == [s EXCEPT !.v.reserved = 4 * n]
  <2>1. q = [mem |-> s.mem, v |-> [arr |-> s.v.arr, items |-> s.v.items, reserved |-> 4 * n]]
    BY <1>0
  <2>2. /\ q.mem = s.mem /\ q.v.reserved = 4 * n /\ q.v.arr = s.v.arr
        /\ q.v = [arr |-> s.v.arr, items |-> s.v.items, reserved |-> 4 * n]
    BY <2>1
  <2> HIDE DEF q
  <2>3. [q.v EXCEPT !.arr = f] = r  BY <2>2
  <2>4. QED  BY <2>2, <2>3 DEF Vec!Reserve, Vec!reallocate, Vec!newArray, q
<1>4. /\ DOMAIN m = (DOMAIN s.mem \ {s.v.arr}) \cup {f} /\ m[f] = 4 * n
      /\ \A c \in DOMAIN s.mem \ {s.v.arr} : m[c] = s.mem[c]
      /\ m \in [DOMAIN m -> Nat]
  BY <1>0, <1>1, <1>2 DEF Vec!Freed, Vec!Stored, VecTyped
<1>5. /\ DOMAIN b = DOMAIN a /\ b[v] = r /\ \A w \in DOMAIN a \ {v} : b[w] = a[w]
  BY <1>0 DEF VecNow, Vec!Stored
<1>5a. b \in [DOMAIN b -> [arr : Cells, items : Seq(VecElements), reserved : Nat]]
  BY <1>0, <1>1, <1>2 DEF VecNow, Vec!Stored, VecTyped
<1>6. r.arr = f /\ r.items = s.v.items /\ r.reserved = 4 * n /\ t.mem = m /\ t.v = r
      /\ t = [mem |-> t.mem, v |-> [arr |-> t.v.arr, items |-> t.v.items, reserved |-> t.v.reserved]]
  OBVIOUS
<1> HIDE DEF a, f, m, r, t, b
<1>7. VecTyped(m, b)  BY <1>0, <1>1, <1>4, <1>5, <1>5a DEF VecTyped
<1>8. VecOwned(m, b)
  <2>1. \A w \in DOMAIN a \ {v} : a[w].arr \in DOMAIN s.mem \ {s.v.arr}  BY <1>0 DEF VecOwned
  <2>2. ASSUME NEW w \in DOMAIN b
        PROVE  b[w].arr \in DOMAIN m /\ m[b[w].arr] = b[w].reserved /\ Len(b[w].items) <= b[w].reserved
    <3>1. CASE w = v  BY <1>4, <1>5, <1>6, <3>1
    <3>2. CASE w # v  BY <1>0, <1>4, <1>5, <2>1, <3>2 DEF VecOwned
    <3>3. QED  BY <3>1, <3>2
  <2>3. ASSUME NEW w \in DOMAIN b, NEW u \in DOMAIN b, b[w].arr = b[u].arr PROVE w = u
    BY <1>0, <1>1, <1>5, <1>6, <2>1, <2>3 DEF VecOwned
  <2>4. QED  BY <2>2, <2>3 DEF VecOwned
<1>9. ASSUME VecFull(s.mem, a) PROVE VecFull(m, b)
  <2>1. SUFFICES ASSUME NEW x \in DOMAIN m PROVE \E w \in DOMAIN b : b[w].arr = x  BY DEF VecFull
  <2>2. CASE x = f  BY <1>0, <1>5, <1>6, <2>2
  <2>3. CASE x # f
    <3>1. PICK w \in DOMAIN a : a[w].arr = x  BY <1>4, <1>9, <2>3 DEF VecFull
    <3>2. w # v  BY <1>0, <1>1, <1>2, <1>4, <2>3, <3>1
    <3>3. QED  BY <1>5, <3>1, <3>2
  <2>4. QED  BY <2>2, <2>3
<1>10. VecGood(t, v)  BY <1>6, <1>7, <1>8, <1>9 DEF VecGood, a, b
<1>11. QED  BY <1>3, <1>6, <1>10

\* A call that ends in the array keeps the invariant, one that does not is ub.
LEMMA VecBecomes ==
    ASSUME VecInv, ~obj.ub, ~obj.moved, NEW v, NEW s,
           s.v.arr # 0 => VecGood(s, v), Vec!Becomes(v, s)
    PROVE  /\ VecInv' /\ obj'.moved = obj.moved /\ obj'.ub = (s.v.arr = 0)
           /\ v \in DOMAIN obj'.at /\ obj'.at[v] = s.v
           /\ \A w \in DOMAIN obj.at \ {v} : w \in DOMAIN obj'.at /\ obj'.at[w] = obj.at[w]
<1> DEFINE b == VecNow(s, v)
           u == s.v.arr = 0
<1>0. /\ obj = [class |-> obj.class, at |-> obj.at, ub |-> obj.ub, moved |-> obj.moved,
                listed |-> obj.listed]
      /\ obj.moved \in BOOLEAN /\ obj.listed \in BOOLEAN /\ u \in BOOLEAN
      /\ ~obj.listed => VecFull(heap, obj.at)
  BY DEF VecInv
<1>1. heap' = s.mem /\ obj' = [obj EXCEPT !.at = b, !.ub = u]
  BY DEF Vec!Becomes, VecNow, Vec!Nil
<1>2. v \in DOMAIN b /\ b[v] = s.v /\ \A w \in DOMAIN obj.at \ {v} : w \in DOMAIN b /\ b[w] = obj.at[w]
  BY DEF VecNow, Vec!Stored
<1>2a. u = (s.v.arr = 0)  OBVIOUS
<1>2b. u \/ VecGood(s, v)  OBVIOUS
<1> HIDE DEF b, u
<1>3. obj' = [class |-> obj.class, at |-> b, ub |-> u, moved |-> obj.moved, listed |-> obj.listed]
  BY <1>0, <1>1
<1>4. obj'.at = b /\ obj'.ub = u /\ obj'.moved = obj.moved /\ obj'.listed = obj.listed /\ obj'.class = obj.class
  BY <1>3
<1>5. ~u => VecTyped(s.mem, b) /\ VecOwned(s.mem, b) /\ (~obj.listed => VecFull(s.mem, b))
  BY <1>0, <1>2b DEF VecGood, b
<1>6. VecInv'
  <2>1. obj'.ub \in BOOLEAN /\ obj'.moved \in BOOLEAN /\ obj'.listed \in BOOLEAN  BY <1>0, <1>4
  <2>2. obj' = [class |-> obj'.class, at |-> obj'.at, ub |-> obj'.ub, moved |-> obj'.moved,
                listed |-> obj'.listed]
    BY <1>3, <1>4
  <2>3. ~obj'.ub => VecTyped(heap', obj'.at) /\ VecOwned(heap', obj'.at)
                    /\ (~obj'.listed => VecFull(heap', obj'.at))
    BY <1>1, <1>4, <1>5
  <2>4. QED  BY <2>1, <2>2, <2>3 DEF VecInv
<1>7. QED  BY <1>2, <1>2a, <1>4, <1>6

\* What the calls make of the elements, growing where they must.
LEMMA VecCalls ==
    ASSUME NEW v \in Vecs, NEW s, VecGood(s, v), Vec!Room(s.mem, 1), s.v.items \in Seq(VecElements),
           s.v.reserved \in Nat, Len(s.v.items) <= s.v.reserved,
           NEW from \in Seq(VecElements), NEW e \in VecElements
    PROVE  /\ LET t == Vec!assignCopy(s, from)
              IN  VecGood(t, v) /\ t.v.items = from /\ t.v.arr # 0
           /\ LET t == Vec!plus_back(s, from)
              IN  VecGood(t, v) /\ t.v.items = s.v.items \o from /\ t.v.arr # 0
           /\ LET t == Vec!push_back(s, e)
              IN  /\ s.v.reserved = 0 => t.v.arr = 0
                  /\ s.v.reserved # 0 => VecGood(t, v) /\ t.v.items = Append(s.v.items, e) /\ t.v.arr # 0
<1>0. Len(s.v.items) \in Nat /\ Len(from) \in Nat  OBVIOUS
<1>1. LET t == Vec!assignCopy(s, from) IN VecGood(t, v) /\ t.v.items = from /\ t.v.arr # 0
  <2> DEFINE q == IF s.v.reserved < Len(from) THEN Vec!Reserve(s, Len(from)) ELSE s
  <2>1. VecGood(q, v) /\ Len(from) <= q.v.reserved
    <3>1. CASE s.v.reserved < Len(from)
      <4>1. Len(s.v.items) <= 4 * Len(from) /\ Len(from) <= 4 * Len(from)  BY <1>0, <3>1
      <4>2. VecGood(Vec!Reserve(s, Len(from)), v) /\ Vec!Reserve(s, Len(from)).v.reserved = 4 * Len(from)
        BY <1>0, <4>1, VecReserve
      <4>3. QED  BY <3>1, <4>1, <4>2
    <3>2. CASE ~(s.v.reserved < Len(from))  BY <1>0, <3>2
    <3>3. QED  BY <3>1, <3>2
  <2>2. Vec!assignCopy(s, from) = Vec!Holding(q, from)  BY DEF Vec!assignCopy
  <2> HIDE DEF q
  <2>3. QED  BY <2>1, <2>2, VecHolding
<1>2. LET t == Vec!plus_back(s, from)
      IN  VecGood(t, v) /\ t.v.items = s.v.items \o from /\ t.v.arr # 0
  <2> DEFINE n == Len(s.v.items) + Len(from)
             q == IF n > s.v.reserved THEN Vec!Reserve(s, n) ELSE s
             i == s.v.items \o from
  <2>1. n \in Nat /\ i \in Seq(VecElements) /\ Len(i) = n
    BY <1>0
  <2>2. VecGood(q, v) /\ n <= q.v.reserved
    <3>1. CASE n > s.v.reserved
      <4>1. n \in Nat /\ Len(s.v.items) <= 4 * n /\ n <= 4 * n  BY <1>0
      <4> HIDE DEF n
      <4>2. VecGood(Vec!Reserve(s, n), v) /\ Vec!Reserve(s, n).v.reserved = 4 * n  BY <4>1, VecReserve
      <4>3. QED  BY <3>1, <4>1, <4>2
    <3>2. CASE ~(n > s.v.reserved)  BY <1>0, <3>2
    <3>3. QED  BY <3>1, <3>2
  <2>3. Vec!plus_back(s, from) = Vec!Holding(q, i)  BY DEF Vec!plus_back
  <2> HIDE DEF n, q, i
  <2>4. VecGood(Vec!Holding(q, i), v) /\ Vec!Holding(q, i).v.items = i /\ Vec!Holding(q, i).v.arr # 0
    BY <2>1, <2>2, VecHolding
  <2>5. QED  BY <2>3, <2>4 DEF i
<1>3. LET t == Vec!push_back(s, e)
      IN  /\ s.v.reserved = 0 => t.v.arr = 0
          /\ s.v.reserved # 0 => VecGood(t, v) /\ t.v.items = Append(s.v.items, e) /\ t.v.arr # 0
  <2> DEFINE l == Len(s.v.items)
             n == s.v.reserved
             q == IF l = n THEN Vec!Reserve(s, n) ELSE s
             i == Append(s.v.items, e)
  <2>1. i \in Seq(VecElements) /\ Len(i) = l + 1  BY <1>0
  <2>2. VecGood(q, v) /\ q.v.reserved \in Nat /\ (n # 0 => l + 1 <= q.v.reserved) /\ (n = 0 => q.v.reserved = 0)
    <3>1. CASE l = n
      <4>1. n \in Nat /\ l <= 4 * n /\ 4 * n \in Nat /\ (n # 0 => l + 1 <= 4 * n) /\ (n = 0 => 4 * n = 0)
        BY <1>0, <3>1
      <4>2. VecGood(Vec!Reserve(s, n), v) /\ Vec!Reserve(s, n).v.reserved = 4 * n  BY <4>1, VecReserve
      <4> HIDE DEF l, n
      <4>3. QED  BY <3>1, <4>1, <4>2
    <3>2. CASE l # n  BY <1>0, <3>2
    <3>3. QED  BY <3>1, <3>2
  <2>3. Vec!push_back(s, e) = Vec!Holding(q, i)  BY DEF Vec!push_back
  <2>4. l \in Nat /\ n \in Nat  BY <1>0
  <2>5. n = s.v.reserved  OBVIOUS
  <2> HIDE DEF q, l, n, i
  <2>6. CASE n = 0
    <3>1. Len(i) > q.v.reserved  BY <2>1, <2>2, <2>4, <2>6
    <3>2. Vec!Holding(q, i).v.arr = 0  BY <2>1, <2>2, <3>1, VecHolding
    <3>3. QED  BY <2>3, <2>5, <2>6, <3>2
  <2>7. CASE n # 0
    <3>1. Len(i) <= q.v.reserved  BY <2>1, <2>2, <2>7
    <3>2. VecGood(Vec!Holding(q, i), v) /\ Vec!Holding(q, i).v.items = i /\ Vec!Holding(q, i).v.arr # 0
      BY <2>1, <2>2, <3>1, VecHolding
    <3>3. QED  BY <2>3, <2>5, <2>7, <3>2 DEF i
  <2>8. QED  BY <2>6, <2>7
<1>4. QED  BY <1>1, <1>2, <1>3

\* Fewer elements fit as well.
LEMMA VecShrink ==
    ASSUME NEW v \in Vecs, NEW s, VecGood(s, v),
           NEW items \in Seq(VecElements), Len(items) <= s.v.reserved
    PROVE  [s EXCEPT !.v.items = items] = Vec!Holding(s, items)
<1> DEFINE t == [s EXCEPT !.v.items = items]
<1>1. /\ s = [mem |-> s.mem, v |-> [arr |-> s.v.arr, items |-> s.v.items, reserved |-> s.v.reserved]]
      /\ s.mem[s.v.arr] = s.v.reserved
  BY DEF VecGood, VecOwned, VecNow, Vec!Stored
<1>2. t = [mem |-> s.mem, v |-> [arr |-> s.v.arr, items |-> items, reserved |-> s.v.reserved]]
  BY <1>1
<1>3. Vec!Holding(s, items)
      = [mem |-> s.mem, v |-> [arr |-> s.v.arr, items |-> items, reserved |-> s.v.reserved]]
  BY <1>1 DEF Vec!Holding
<1>4. QED  BY <1>2, <1>3

\* The ranges that a client has, and the elements of a list that nobody writes.
LEMMA VecRanges ==
    ASSUME NEW range \in Vec!Ranges
    PROVE  /\ range \in Seq(VecElements) /\ Len(range) \in Nat
           /\ [i \in DOMAIN range |-> Vec!Junk] \in Seq(VecElements)
           /\ Len([i \in DOMAIN range |-> Vec!Junk]) = Len(range)
<1>1. PICK n \in 0 .. 1 : range \in [1 .. n -> Numbers]  BY DEF Vec!Ranges
<1>2. range \in Seq(VecElements) /\ Len(range) = n /\ DOMAIN range = 1 .. n /\ n \in Nat  BY <1>1 DEF VecElements
<1>3. [i \in 1 .. n |-> Vec!Junk] \in Seq(VecElements) /\ Len([i \in 1 .. n |-> Vec!Junk]) = n
  BY <1>2 DEF VecElements, Vec!Junk
<1>4. QED  BY <1>2, <1>3

\* A vector that is constructed, empty or from elements, has them.
LEMMA VecConstructs ==
    ASSUME VecInv, NEW v \in Vecs
    PROVE  /\ Vec!Construct(v) => VecInv'
           /\ \A range \in Vec!Ranges : Vec!ConstructFrom(v, range) =>
                  VecInv' /\ ~obj'.ub /\ obj'.at[v].items = range
           /\ \A w \in Vecs : Vec!CopyConstruct(v, w) =>
                  VecInv' /\ ~obj'.ub /\ obj'.at[v].items = obj.at[w].items
                  /\ obj'.at[w].items = obj.at[w].items
<1>1. ASSUME v \notin DOMAIN obj.at, Vec!Room(heap, 1), ~obj.ub, ~obj.moved,
             NEW size \in Nat, NEW items \in Seq(VecElements), Len(items) <= size,
             Vec!Becomes(v, Vec!Filled(heap, size, items))
      PROVE  /\ VecInv' /\ ~obj'.ub /\ obj'.at[v].items = items
             /\ \A w \in DOMAIN obj.at \ {v} : obj'.at[w] = obj.at[w]
  <2> DEFINE s == Vec!Filled(heap, size, items)
  <2>1. VecGood(s, v) /\ s.v.items = items /\ s.v.arr # 0  BY <1>1, VecFilled
  <2>2. Vec!Becomes(v, s)  BY <1>1
  <2> HIDE DEF s
  <2>3. /\ VecInv' /\ obj'.ub = (s.v.arr = 0) /\ obj'.at[v] = s.v
        /\ \A w \in DOMAIN obj.at \ {v} : obj'.at[w] = obj.at[w]
    BY <1>1, <2>1, <2>2, VecBecomes
  <2>4. QED  BY <2>1, <2>3
<1>2. ASSUME Vec!Construct(v) PROVE VecInv'
  <2>1. v \notin DOMAIN obj.at /\ Vec!Room(heap, 1) /\ ~obj.ub /\ ~obj.moved
    BY <1>2 DEF Vec!Construct, Vec!Made, Vec!Is
  <2>2. PICK n \in 0 .. 1 : \/ Vec!Becomes(v, Vec!Numvec(heap))
                            \/ Vec!Becomes(v, Vec!NumvecOfSize(heap, n))
    BY <1>2 DEF Vec!Construct, Vec!Vector
  <2>3. <<>> \in Seq(VecElements) /\ Len(<<>>) <= 4 /\ 4 \in Nat  OBVIOUS
  <2>4. [i \in 1 .. n |-> 0] \in Seq(VecElements) /\ Len([i \in 1 .. n |-> 0]) = n /\ n <= 4 * n /\ 4 * n \in Nat
    BY DEF VecElements
  <2>5. CASE Vec!Becomes(v, Vec!Numvec(heap))
    BY <1>1, <2>1, <2>3, <2>5 DEF Vec!Numvec, Vec!DEFAULT_RESERVED
  <2>6. CASE Vec!Becomes(v, Vec!NumvecOfSize(heap, n))
    <3> DEFINE i == [k \in 1 .. n |-> 0]
               z == 4 * n
    <3>1. Vec!Becomes(v, Vec!Filled(heap, z, i)) /\ i \in Seq(VecElements) /\ Len(i) <= z /\ z \in Nat
      BY <2>4, <2>6 DEF Vec!NumvecOfSize, Vec!Zero
    <3> HIDE DEF i, z
    <3>2. QED  BY <1>1, <2>1, <3>1
  <2>7. QED  BY <2>2, <2>5, <2>6
<1>3. ASSUME NEW range \in Vec!Ranges, Vec!ConstructFrom(v, range)
      PROVE  VecInv' /\ ~obj'.ub /\ obj'.at[v].items = range
  <2> DEFINE z == 4 * Len(range)
  <2>1. v \notin DOMAIN obj.at /\ Vec!Room(heap, 1) /\ ~obj.ub /\ ~obj.moved
    BY <1>3 DEF Vec!ConstructFrom, Vec!Made, Vec!Is
  <2>2. range \in Seq(VecElements) /\ Len(range) \in Nat  BY VecRanges
  <2>3. Vec!Becomes(v, Vec!Filled(heap, z, range)) /\ z \in Nat /\ Len(range) <= z
    BY <1>3, <2>2 DEF Vec!ConstructFrom, Vec!NumvecOfArray, Vec!NumvecOfList
  <2> HIDE DEF z
  <2>4. QED  BY <1>1, <2>1, <2>2, <2>3
<1>4. ASSUME NEW w \in Vecs, Vec!CopyConstruct(v, w)
      PROVE  VecInv' /\ ~obj'.ub /\ obj'.at[v].items = obj.at[w].items
             /\ obj'.at[w].items = obj.at[w].items
  <2> DEFINE r == obj.at[w].reserved
             i == obj.at[w].items
  <2>1. v \notin DOMAIN obj.at /\ w \in DOMAIN obj.at \ {v} /\ Vec!Room(heap, 1) /\ ~obj.ub /\ ~obj.moved
    BY <1>4 DEF Vec!CopyConstruct, Vec!Made, Vec!Is
  <2>2. VecTyped(heap, obj.at) /\ VecOwned(heap, obj.at)  BY <2>1 DEF VecInv
  <2>3. r \in Nat /\ i \in Seq(VecElements) /\ Len(i) <= r  BY <2>1, <2>2 DEF VecTyped, VecOwned
  <2>4. Vec!Becomes(v, Vec!Filled(heap, r, i))
    BY <1>4 DEF Vec!CopyConstruct, Vec!VectorCopy, Vec!NumvecCopy
  <2> HIDE DEF r, i
  <2>5. /\ VecInv' /\ ~obj'.ub /\ obj'.at[v].items = i
        /\ \A u \in DOMAIN obj.at \ {v} : obj'.at[u] = obj.at[u]
    BY <1>1, <2>1, <2>3, <2>4
  <2>6. QED  BY <2>1, <2>5 DEF i
<1>5. QED  BY <1>2, <1>3, <1>4

\* A vector that changes has the elements that the call stands for.
LEMMA VecChanges ==
    ASSUME VecInv, NEW v \in Vecs
    PROVE  /\ \A w \in Vecs : Vec!Assign(v, w) =>
                  VecInv' /\ ~obj'.ub /\ obj'.at[v].items = obj.at[w].items
                  /\ obj'.at[w].items = obj.at[w].items
           /\ \A w \in Vecs : Vec!PlusBack(v, w) =>
                  VecInv' /\ ~obj'.ub /\ obj'.at[v].items = obj.at[v].items \o obj.at[w].items
           /\ \A e \in Numbers : Vec!PushBack(v, e) =>
                  VecInv' /\ IF obj.at[v].reserved = 0 THEN obj'.ub
                             ELSE ~obj'.ub /\ obj'.at[v].items = Append(obj.at[v].items, e)
           /\ Vec!PopBack(v) => VecInv' /\ obj'.at[v].items = Vec!Front(obj.at[v].items)
           /\ Vec!Clear(v) => VecInv'
<1> SUFFICES ASSUME v \in DOMAIN obj.at, ~obj.ub, ~obj.moved
             PROVE  /\ \A w \in Vecs : Vec!Assign(v, w) =>
                           VecInv' /\ ~obj'.ub /\ obj'.at[v].items = obj.at[w].items
                           /\ obj'.at[w].items = obj.at[w].items
                    /\ \A w \in Vecs : Vec!PlusBack(v, w) =>
                           VecInv' /\ ~obj'.ub /\ obj'.at[v].items = obj.at[v].items \o obj.at[w].items
                    /\ \A e \in Numbers : Vec!PushBack(v, e) =>
                           VecInv' /\ IF obj.at[v].reserved = 0 THEN obj'.ub
                                      ELSE ~obj'.ub /\ obj'.at[v].items = Append(obj.at[v].items, e)
                    /\ Vec!PopBack(v) => VecInv' /\ obj'.at[v].items = Vec!Front(obj.at[v].items)
                    /\ Vec!Clear(v) => VecInv'
  BY DEF Vec!Assign, Vec!PlusBack, Vec!PushBack, Vec!PopBack, Vec!Clear, Vec!Is, Vec!Made
<1> DEFINE s == Vec!State(v)
           i == obj.at[v].items
<1>0. VecTyped(heap, obj.at) /\ VecOwned(heap, obj.at)  BY DEF VecInv
<1>1. /\ VecGood(s, v) /\ s.mem = heap /\ s.v = obj.at[v] /\ i \in Seq(VecElements) /\ Len(i) <= s.v.reserved
      /\ s.v.reserved \in Nat /\ s.v.items = i
      /\ \A w \in DOMAIN obj.at : obj.at[w].items \in Seq(VecElements)
  BY <1>0, VecState DEF VecTyped, VecOwned
<1> HIDE DEF s
<1>2. ASSUME NEW t, t.v.arr # 0 => VecGood(t, v), Vec!Becomes(v, t)
      PROVE  /\ VecInv' /\ obj'.ub = (t.v.arr = 0) /\ obj'.at[v] = t.v
             /\ \A w \in DOMAIN obj.at \ {v} : obj'.at[w] = obj.at[w]
  BY <1>2, VecBecomes
<1>3. ASSUME NEW w \in Vecs, Vec!Assign(v, w)
      PROVE  VecInv' /\ ~obj'.ub /\ obj'.at[v].items = obj.at[w].items
             /\ obj'.at[w].items = obj.at[w].items
  <2> DEFINE t == Vec!assignCopy(s, obj.at[w].items)
  <2>1. w \in DOMAIN obj.at /\ Vec!Room(heap, 1) /\ Vec!Becomes(v, t)
    BY <1>3 DEF Vec!Assign, Vec!Made, Vec!Items, Vec!assignMove, Vec!assignCopy, Vec!Vector_assign, s
  <2>2. VecGood(t, v) /\ t.v.items = obj.at[w].items /\ t.v.arr # 0
    <3>1. obj.at[w].items \in Seq(VecElements) /\ 0 \in VecElements  BY <1>1, <2>1 DEF VecElements
    <3>2. QED  BY <1>1, <2>1, <3>1, VecCalls
  <2> HIDE DEF t
  <2>3. QED  BY <1>2, <2>1, <2>2
<1>4. ASSUME NEW w \in Vecs, Vec!PlusBack(v, w)
      PROVE  VecInv' /\ ~obj'.ub /\ obj'.at[v].items = obj.at[v].items \o obj.at[w].items
  <2> DEFINE t == Vec!plus_back(s, obj.at[w].items)
  <2>1. w \in DOMAIN obj.at /\ Vec!Room(heap, 1) /\ Vec!Becomes(v, t)
    BY <1>4 DEF Vec!PlusBack, Vec!Made, Vec!Items, s
  <2>2. VecGood(t, v) /\ t.v.items = s.v.items \o obj.at[w].items /\ t.v.arr # 0
    <3> DEFINE f == obj.at[w].items
    <3>1. f \in Seq(VecElements) /\ 0 \in VecElements  BY <1>1, <2>1 DEF VecElements
    <3> HIDE DEF f
    <3>2. /\ VecGood(s, v) /\ Vec!Room(s.mem, 1) /\ s.v.items \in Seq(VecElements)
          /\ s.v.reserved \in Nat /\ Len(s.v.items) <= s.v.reserved
      BY <1>1, <2>1
    <3>3. VecGood(Vec!plus_back(s, f), v)  BY <3>1, <3>2, VecCalls
    <3>4. Vec!plus_back(s, f).v.items = s.v.items \o f  BY <3>1, <3>2, VecCalls
    <3>5. Vec!plus_back(s, f).v.arr # 0  BY <3>1, <3>2, VecCalls
    <3>6. QED  BY <3>3, <3>4, <3>5 DEF f
  <2> HIDE DEF t
  <2>3. QED  BY <1>1, <1>2, <2>1, <2>2
<1>5. ASSUME NEW e \in Numbers, Vec!PushBack(v, e)
      PROVE  VecInv' /\ IF obj.at[v].reserved = 0 THEN obj'.ub
                        ELSE ~obj'.ub /\ obj'.at[v].items = Append(obj.at[v].items, e)
  <2> DEFINE t == Vec!push_back(s, e)
  <2>1. Vec!Room(heap, 1) /\ Vec!Becomes(v, t)
    BY <1>5 DEF Vec!PushBack, Vec!Vector_push_back, s
  <2>2. /\ s.v.reserved = 0 => t.v.arr = 0
        /\ s.v.reserved # 0 => VecGood(t, v) /\ t.v.items = Append(s.v.items, e) /\ t.v.arr # 0
    <3>1. i \in Seq(VecElements) /\ e \in VecElements  BY <1>1 DEF VecElements
    <3>2. QED  BY <1>1, <2>1, <3>1, VecCalls
  <2> HIDE DEF t
  <2>3. VecInv' /\ obj'.ub = (t.v.arr = 0) /\ obj'.at[v] = t.v  BY <1>2, <2>1, <2>2
  <2>4. QED  BY <1>1, <2>2, <2>3
<1>6. ASSUME Vec!PopBack(v) PROVE VecInv' /\ obj'.at[v].items = Vec!Front(obj.at[v].items)
  <2> DEFINE j == Vec!Front(i)
             t == [s EXCEPT !.v.items = j]
  <2>1. Len(i) > 0  BY <1>6 DEF Vec!PopBack, Vec!Items
  <2>2. Vec!Becomes(v, t)
    BY <1>1, <1>6 DEF Vec!PopBack, Vec!pop_back, Vec!Vector_pop_back, s
  <2>3. j \in Seq(VecElements) /\ Len(j) <= s.v.reserved
    <3>1. SubSeq(i, 1, Len(i) - 1) \in Seq(VecElements) /\ Len(SubSeq(i, 1, Len(i) - 1)) = Len(i) - 1
      BY <1>1, <2>1
    <3>2. QED  BY <1>1, <2>1, <3>1 DEF Vec!Front
  <2> HIDE DEF j
  <2>4. t = Vec!Holding(s, j)  BY <1>1, <2>3, VecShrink
  <2> HIDE DEF t
  <2>5. VecGood(t, v) /\ t.v.items = j /\ t.v.arr # 0  BY <1>1, <2>3, <2>4, VecHolding
  <2>6. QED  BY <1>2, <2>2, <2>5 DEF j
<1>7. ASSUME Vec!Clear(v) PROVE VecInv'
  <2> DEFINE t == [s EXCEPT !.v.items = <<>>]
  <2>1. Vec!Becomes(v, t)  BY <1>7 DEF Vec!Clear, Vec!clear, s
  <2>2. <<>> \in Seq(VecElements) /\ Len(<<>>) <= s.v.reserved  BY <1>1
  <2>3. t = Vec!Holding(s, <<>>)  BY <1>1, <2>2, VecShrink
  <2> HIDE DEF t
  <2>4. VecGood(t, v)  BY <1>1, <2>2, <2>3, VecHolding
  <2>5. QED  BY <1>2, <2>1, <2>4
<1>8. QED  BY <1>3, <1>4, <1>5, <1>6, <1>7

\* Moves, lists and destructors, the calls after which arrays may be shared or
\* lost.
LEMMA VecLoses ==
    ASSUME VecInv, NEW v \in Vecs
    PROVE  /\ \A w \in Vecs : Vec!MoveConstruct(v, w) => VecInv'
           /\ \A range \in Vec!Ranges : Vec!AssignList(v, range) =>
                  VecInv' /\ obj'.at[v].items = [i \in DOMAIN range |-> Vec!Junk]
           /\ Vec!Destroy(v) => VecInv' /\ \A w \in DOMAIN obj.at \ {v} : obj'.at[w] = obj.at[w]
<1> DEFINE Type == [arr : Cells, items : Seq(VecElements), reserved : Nat]
<1>0. /\ obj = [class |-> obj.class, at |-> obj.at, ub |-> obj.ub, moved |-> obj.moved,
                listed |-> obj.listed]
      /\ obj.ub \in BOOLEAN /\ obj.moved \in BOOLEAN /\ obj.listed \in BOOLEAN
  BY DEF VecInv
<1>1. ASSUME NEW w \in Vecs, Vec!MoveConstruct(v, w) PROVE VecInv'
  <2> DEFINE r == [arr |-> obj.at[w].arr, items |-> obj.at[w].items, reserved |-> 4]
             b == Vec!Stored(obj.at, v, r)
  <2>1. w \in DOMAIN obj.at /\ ~obj.ub /\ heap' = heap
    BY <1>1 DEF Vec!MoveConstruct, Vec!Made, Vec!Is
  <2>2. VecTyped(heap, obj.at)  BY <2>1 DEF VecInv
  <2>3. DOMAIN b = DOMAIN obj.at \cup {v} /\ b \in [DOMAIN b -> Type]
    BY <2>1, <2>2 DEF Vec!Stored, VecTyped
  <2>4. obj' = [obj EXCEPT !.at = b, !.moved = TRUE]
    BY <1>1 DEF Vec!MoveConstruct, Vec!DEFAULT_RESERVED
  <2> HIDE DEF b
  <2>5. obj' = [class |-> obj.class, at |-> b, ub |-> obj.ub, moved |-> TRUE, listed |-> obj.listed]
    BY <1>0, <2>4
  <2>6. VecTyped(heap, b)  BY <2>2, <2>3 DEF VecTyped
  <2>7. QED  BY <1>0, <2>1, <2>5, <2>6 DEF VecInv
<1>2. ASSUME NEW range \in Vec!Ranges, Vec!AssignList(v, range)
      PROVE  VecInv' /\ obj'.at[v].items = [i \in DOMAIN range |-> Vec!Junk]
  <2> DEFINE items == [i \in DOMAIN range |-> Vec!Junk]
             n == 4 * Len(range)
             s == Vec!Filled(heap, n, items)
  <2>1. v \in DOMAIN obj.at /\ ~obj.ub /\ ~obj.moved /\ Vec!Room(heap, 1)
    BY <1>2 DEF Vec!AssignList, Vec!Made, Vec!Is
  <2>2. heap' = s.mem /\ obj' = [obj EXCEPT !.at[v] = s.v, !.listed = TRUE]
    BY <1>2 DEF Vec!AssignList, Vec!assignList, Vec!State
  <2>3. items \in Seq(VecElements) /\ n \in Nat /\ Len(items) <= n  BY VecRanges
  <2> HIDE DEF items, n
  <2>4. VecTyped(s.mem, VecNow(s, v)) /\ VecOwned(s.mem, VecNow(s, v)) /\ s.v.items = items
    BY <2>1, <2>3, VecFilled
  <2> HIDE DEF s
  <2>5. [obj.at EXCEPT ![v] = s.v] = VecNow(s, v)  BY <2>1 DEF VecNow, Vec!Stored, VecInv, VecTyped
  <2>6. obj' = [class |-> obj.class, at |-> VecNow(s, v), ub |-> obj.ub, moved |-> obj.moved, listed |-> TRUE]
    BY <1>0, <2>2, <2>5
  <2>7. VecNow(s, v)[v].items = items  BY <2>4 DEF VecNow, Vec!Stored
  <2>8. VecInv'
    <3>1. /\ obj'.at = VecNow(s, v) /\ obj'.ub = obj.ub /\ obj'.moved = obj.moved /\ obj'.listed = TRUE
          /\ obj' = [class |-> obj'.class, at |-> obj'.at, ub |-> obj'.ub, moved |-> obj'.moved,
                     listed |-> obj'.listed]
      BY <2>6
    <3>2. VecTyped(heap', obj'.at) /\ VecOwned(heap', obj'.at)  BY <2>2, <2>4, <3>1
    <3>3. obj'.ub \in BOOLEAN /\ obj'.moved \in BOOLEAN /\ obj'.listed \in BOOLEAN /\ obj'.listed
      BY <1>0, <3>1
    <3>4. QED  BY <3>1, <3>2, <3>3 DEF VecInv
  <2>9. obj'.at[v].items = items  BY <2>6, <2>7
  <2>10. QED  BY <2>8, <2>9 DEF items
<1>3. ASSUME Vec!Destroy(v)
      PROVE  VecInv' /\ \A w \in DOMAIN obj.at \ {v} : obj'.at[w] = obj.at[w]
  <2> DEFINE b == [w \in DOMAIN obj.at \ {v} |-> obj.at[w]]
             u == obj.at[v].arr \notin DOMAIN heap
  <2>1. v \in DOMAIN obj.at /\ ~obj.ub /\ heap' = Vec!Freed(heap, obj.at[v].arr)
        /\ obj' = [obj EXCEPT !.at = b, !.ub = u]
    BY <1>3 DEF Vec!Destroy, Vec!Made
  <2>2. VecTyped(heap, obj.at)  BY <2>1 DEF VecInv
  <2>3. /\ DOMAIN b = DOMAIN obj.at \ {v} /\ b \in [DOMAIN b -> Type]
        /\ \A w \in DOMAIN b : b[w] = obj.at[w]
    BY <2>2 DEF VecTyped
  <2>3a. u \in BOOLEAN  OBVIOUS
  <2> HIDE DEF b, u
  <2>4. obj' = [class |-> obj.class, at |-> b, ub |-> u, moved |-> obj.moved, listed |-> obj.listed]
    BY <1>0, <2>1
  <2>5. /\ DOMAIN heap' = DOMAIN heap \ {obj.at[v].arr} /\ \A c \in DOMAIN heap' : heap'[c] = heap[c]
        /\ heap' \in [DOMAIN heap' -> Nat]
    BY <2>1, <2>2 DEF Vec!Freed, VecTyped
  <2>6. VecTyped(heap', b)  BY <2>2, <2>3, <2>5 DEF VecTyped
  <2>7. ASSUME ~obj.moved PROVE VecOwned(heap', b)
    <3>1. VecOwned(heap, obj.at)  BY <2>1, <2>7 DEF VecInv
    <3>2. \A w \in DOMAIN b : b[w].arr \in DOMAIN heap'  BY <2>1, <2>3, <2>5, <3>1 DEF VecOwned
    <3>3. QED  BY <2>3, <2>5, <3>1, <3>2 DEF VecOwned
  <2>8. ASSUME ~obj.moved, ~obj.listed PROVE VecFull(heap', b)
    <3>1. VecFull(heap, obj.at)  BY <2>1, <2>8 DEF VecInv
    <3>2. SUFFICES ASSUME NEW x \in DOMAIN heap' PROVE \E w \in DOMAIN b : b[w].arr = x  BY DEF VecFull
    <3>3. PICK w \in DOMAIN obj.at : obj.at[w].arr = x  BY <2>5, <3>1 DEF VecFull
    <3>4. QED  BY <2>3, <2>5, <3>3
  <2>9. VecInv'
    <3>1. /\ obj'.at = b /\ obj'.ub = u /\ obj'.moved = obj.moved /\ obj'.listed = obj.listed
          /\ obj' = [class |-> obj'.class, at |-> obj'.at, ub |-> obj'.ub, moved |-> obj'.moved,
                     listed |-> obj'.listed]
      BY <2>4
    <3>2. QED  BY <1>0, <2>3a, <2>6, <2>7, <2>8, <3>1 DEF VecInv
  <2>10. QED  BY <2>3, <2>4, <2>9
<1>4. QED  BY <1>1, <1>2, <1>3

\* Each step keeps the invariant.
LEMMA VecStep == VecInv /\ Vec!Next => VecInv'
<1> SUFFICES ASSUME VecInv, NEW v \in Vecs,
                    \/ Vec!Construct(v) \/ Vec!PopBack(v) \/ Vec!Clear(v) \/ Vec!Destroy(v)
                    \/ \E range \in Vec!Ranges : Vec!ConstructFrom(v, range) \/ Vec!AssignList(v, range)
                    \/ \E w \in Vecs : Vec!CopyConstruct(v, w) \/ Vec!MoveConstruct(v, w)
                                       \/ Vec!Assign(v, w) \/ Vec!PlusBack(v, w)
                    \/ \E e \in Numbers : Vec!PushBack(v, e)
             PROVE  VecInv'
  BY DEF Vec!Next
<1>1. QED  BY VecConstructs, VecChanges, VecLoses

\* The invariant gives what the vectors promise: there are as many arrays as
\* vectors, and equality is that of the elements.
LEMMA VecIsSound == VecInv => Vec!Sound
<1> SUFFICES ASSUME VecInv PROVE Vec!Sound  OBVIOUS
<1>1. ASSUME ~obj.moved, ~obj.listed, ~obj.ub
      PROVE  /\ DOMAIN heap = {obj.at[v].arr : v \in DOMAIN obj.at}
             /\ Cardinality(DOMAIN heap) = Cardinality(DOMAIN obj.at)
  <2> DEFINE M == DOMAIN obj.at
             H == DOMAIN heap
             f == [v \in M |-> obj.at[v].arr]
  <2>1. VecTyped(heap, obj.at) /\ VecOwned(heap, obj.at) /\ VecFull(heap, obj.at)  BY <1>1 DEF VecInv
  <2>2. DOMAIN heap = {obj.at[v].arr : v \in DOMAIN obj.at}
    <3>1. \A x \in DOMAIN heap : \E v \in DOMAIN obj.at : obj.at[v].arr = x  BY <2>1 DEF VecFull
    <3>2. \A v \in DOMAIN obj.at : obj.at[v].arr \in DOMAIN heap  BY <2>1 DEF VecOwned
    <3>3. QED  BY <3>1, <3>2
  <2>3. f \in [M -> H]  BY <2>1 DEF VecOwned
  <2>4. \A v, w \in M : f[v] = f[w] => v = w  BY <2>1 DEF VecOwned
  <2>5. \A x \in H : \E v \in M : f[v] = x
    <3>1. TAKE x \in H
    <3>2. PICK v \in M : obj.at[v].arr = x  BY <2>1 DEF VecFull
    <3>3. QED  BY <3>2
  <2>6. IsFiniteSet(M)  BY <2>1, OwnersAssumption, FS_Subset DEF VecTyped, OwnersAssumption
  <2> HIDE DEF f, M, H
  <2>7. f \in Bijection(M, H)  BY <2>3, <2>4, <2>5, Fun_IsBij
  <2>8. ExistsBijection(M, H)  BY <2>7 DEF ExistsBijection
  <2>9. Cardinality(H) = Cardinality(M)  BY <2>6, <2>8, FS_Bijection
  <2>10. QED  BY <2>2, <2>9 DEF M, H
<1>2. ASSUME ~obj.moved, ~obj.ub, NEW v \in DOMAIN obj.at, NEW w \in DOMAIN obj.at
      PROVE  /\ obj.at[v].reserved = heap[obj.at[v].arr]
             /\ Vec!equal(obj.at[v], obj.at[w]) <=> obj.at[v].items = obj.at[w].items
             /\ \A n \in 0 .. MaxLen : Vec!at(obj.at[v], n)
                    = IF n < Len(obj.at[v].items) THEN <<obj.at[v].items[n + 1]>> ELSE <<>>
  <2>1. VecTyped(heap, obj.at) /\ VecOwned(heap, obj.at)  BY <1>2 DEF VecInv
  <2> DEFINE i == obj.at[v].items
             j == obj.at[w].items
  <2>2. i \in Seq(VecElements) /\ j \in Seq(VecElements)  BY <2>1 DEF VecTyped
  <2>3. obj.at[v].reserved = heap[obj.at[v].arr]  BY <2>1 DEF VecOwned
  <2>4. Vec!equal(obj.at[v], obj.at[w]) <=> Len(i) = Len(j) /\ \A k \in DOMAIN i : i[k] = j[k]
    BY DEF Vec!equal
  <2>5. \A n \in 0 .. MaxLen : Vec!at(obj.at[v], n) = IF n < Len(i) THEN <<i[n + 1]>> ELSE <<>>
    <3>1. Len(i) \in Nat  BY <2>2
    <3>2. TAKE n \in 0 .. MaxLen
    <3>3. n >= Len(i) <=> ~(n < Len(i))  BY <3>1, OwnersAssumption DEF OwnersAssumption
    <3>4. QED  BY <3>3 DEF Vec!at
  <2> HIDE DEF i, j
  <2>6. (Len(i) = Len(j) /\ \A k \in DOMAIN i : i[k] = j[k]) <=> i = j
    <3>1. ASSUME Len(i) = Len(j), \A k \in DOMAIN i : i[k] = j[k] PROVE i = j  BY <2>2, <3>1
    <3>2. QED  BY <3>1
  <2>7. QED  BY <2>3, <2>4, <2>5, <2>6 DEF i, j
<1>3. QED  BY <1>1, <1>2, SameCardinality DEF Vec!Sound, Vec!Made, Vec!Items

\* What the calls do to the elements.
LEMMA VecRefines == VecInv => Vec!Refines
<1> SUFFICES ASSUME VecInv, NEW v \in Vecs
             PROVE  /\ \A e \in Numbers : Vec!PushBack(v, e) =>
                           IF obj.at[v].reserved = 0 THEN obj'.ub
                           ELSE ~obj'.ub /\ Vec!Items(v)' = Append(Vec!Items(v), e)
                    /\ \A w \in Vecs :
                           /\ Vec!PlusBack(v, w) => ~obj'.ub /\ Vec!Items(v)' = Vec!Items(v) \o Vec!Items(w)
                           /\ Vec!CopyConstruct(v, w) \/ Vec!Assign(v, w) =>
                                  ~obj'.ub /\ Vec!Items(v)' = Vec!Items(w) /\ UNCHANGED Vec!Items(w)
                    /\ Vec!PopBack(v) => Vec!Items(v)' = Vec!Front(Vec!Items(v))
                    /\ \A range \in Vec!Ranges :
                           /\ Vec!ConstructFrom(v, range) => Vec!Items(v)' = range /\ ~obj'.ub
                           /\ Vec!AssignList(v, range) => Vec!Items(v)' = [i \in DOMAIN range |-> Vec!Junk]
                    /\ Vec!Destroy(v) => \A w \in Vec!Made \ {v} : UNCHANGED Vec!Items(w)
  BY DEF Vec!Refines
<1>1. \A w : Vec!Items(w) = obj.at[w].items /\ Vec!Items(w)' = obj'.at[w].items  BY DEF Vec!Items
<1>2. \A e \in Numbers : Vec!PushBack(v, e) =>
          IF obj.at[v].reserved = 0 THEN obj'.ub
          ELSE ~obj'.ub /\ Vec!Items(v)' = Append(Vec!Items(v), e)
  BY <1>1, VecChanges
<1>3. \A w \in Vecs :
          /\ Vec!PlusBack(v, w) => ~obj'.ub /\ Vec!Items(v)' = Vec!Items(v) \o Vec!Items(w)
          /\ Vec!CopyConstruct(v, w) \/ Vec!Assign(v, w) =>
                 ~obj'.ub /\ Vec!Items(v)' = Vec!Items(w) /\ UNCHANGED Vec!Items(w)
  BY <1>1, VecConstructs, VecChanges
<1>4. Vec!PopBack(v) => Vec!Items(v)' = Vec!Front(Vec!Items(v))  BY <1>1, VecChanges
<1>5. \A range \in Vec!Ranges :
          /\ Vec!ConstructFrom(v, range) => Vec!Items(v)' = range /\ ~obj'.ub
          /\ Vec!AssignList(v, range) => Vec!Items(v)' = [i \in DOMAIN range |-> Vec!Junk]
  BY <1>1, VecConstructs, VecLoses
<1>6. Vec!Destroy(v) => \A w \in Vec!Made \ {v} : UNCHANGED Vec!Items(w)
  BY <1>1, VecLoses DEF Vec!Made
<1>7. QED  BY <1>2, <1>3, <1>4, <1>5, <1>6

-----------------------------------------------------------------------------
(* Area *)

\* Of a heap h and a grid g: every object is in a place, and unless a pointer
\* was left behind, every pointer is to an object that no other place has.
GridFull(h, g) == \A x \in DOMAIN h : \E p \in Places : g[p] = x
GridOwned(h, g) ==
    /\ \A p \in Places : g[p] # 0 => g[p] \in DOMAIN h
    /\ \A p, q \in Places : g[p] # 0 /\ g[p] = g[q] => p = q
GridInv ==
    /\ obj = [objects |-> obj.objects, stale |-> obj.stale, ub |-> obj.ub]
    /\ obj.objects \in [Places -> Cells \cup {0}] /\ DOMAIN heap \subseteq Cells
    /\ obj.stale \in BOOLEAN /\ obj.ub \in BOOLEAN
    /\ ~obj.ub => GridFull(heap, obj.objects)
    /\ ~obj.ub /\ ~obj.stale => GridOwned(heap, obj.objects)

\* new gives a cell that is not live.
LEMMA GridFresh ==
    ASSUME NEW h, Grid!Room(h, 1)
    PROVE  Grid!Fresh(h) \in Cells \ DOMAIN h
<1>1. CASE Cells \ DOMAIN h # {}  BY <1>1 DEF Grid!Fresh
<1>2. CASE Cells \ DOMAIN h = {}
  <2>1. Cardinality(Cells \ DOMAIN h) = 0  BY <1>2, FS_EmptySet
  <2>2. QED  BY <2>1, SameCardinality DEF Grid!Room
<1>3. QED  BY <1>1, <1>2

\* At first the grid is empty.
LEMMA GridInit == Grid!Init => GridInv
<1> SUFFICES ASSUME Grid!Init PROVE GridInv  OBVIOUS
<1> DEFINE g == [p \in Places |-> 0]
<1>1. heap = <<>> /\ obj = [objects |-> g, stale |-> FALSE, ub |-> FALSE]  BY DEF Grid!Init, Grid!Nil
<1>2. DOMAIN heap = {}  BY <1>1
<1>3. g \in [Places -> Cells \cup {0}] /\ \A p \in Places : g[p] = 0  OBVIOUS
<1> HIDE DEF g
<1>4. obj.objects = g /\ obj.stale = FALSE /\ obj.ub = FALSE  BY <1>1
<1>5. GridFull(heap, g) /\ GridOwned(heap, g)  BY <1>2, <1>3 DEF GridFull, GridOwned
<1>6. QED  BY <1>1, <1>2, <1>3, <1>4, <1>5 DEF GridInv

\* A place whose object is deleted and that gets a new one, or keeps its
\* pointer: only that is stale.
LEMMA GridReplace ==
    ASSUME GridInv, NEW place \in Places, NEW what \in Kinds \cup {Unknown}, Grid!Replace(place, what)
    PROVE  /\ GridInv'
           /\ ~obj.stale => ~obj'.ub /\ (obj'.stale => Grid!add(place, Unknown))
<1> DEFINE m == Grid!Deleted(heap, obj.objects[place])
           n == Grid!Fresh(m)
           x == obj.objects[place]
           u == Grid!Misuse(x)
<1>0. /\ ~obj.ub /\ n \in Cells \ DOMAIN m /\ 0 \notin Cells /\ Unknown \notin Kinds
      /\ obj.objects \in [Places -> Cells \cup {0}] /\ DOMAIN heap \subseteq Cells
      /\ obj.stale \in BOOLEAN /\ u \in BOOLEAN
      /\ GridFull(heap, obj.objects) /\ (~obj.stale => GridOwned(heap, obj.objects))
      /\ obj = [objects |-> obj.objects, stale |-> obj.stale, ub |-> obj.ub]
  BY GridFresh, OwnersAssumption DEF Grid!Replace, Grid!Misuse, OwnersAssumption, GridInv
<1>1. DOMAIN m = DOMAIN heap \ {x} /\ \A c \in DOMAIN m : m[c] = heap[c]
  BY <1>0 DEF Grid!Deleted, Grid!Freed, Grid!Nil
<1>2. ~obj.stale => ~u  BY <1>0 DEF Grid!Misuse, GridOwned, Grid!Nil
<1>3. CASE what \in Kinds
  <2> DEFINE g == [obj.objects EXCEPT ![place] = n]
  <2>1. heap' = Grid!Stored(m, n, what) /\ obj' = [obj EXCEPT !.objects = g, !.ub = u]
    BY <1>3 DEF Grid!Replace
  <2>2. /\ g \in [Places -> Cells \cup {0}] /\ g[place] = n
        /\ \A p \in Places \ {place} : g[p] = obj.objects[p]
    BY <1>0
  <2>3. DOMAIN heap' = (DOMAIN heap \ {x}) \cup {n}  BY <1>1, <2>1 DEF Grid!Stored
  <2>3a. n \notin DOMAIN heap \ {x} /\ n \in Cells  BY <1>0, <1>1
  <2>3b. x = obj.objects[place]  OBVIOUS
  <2> HIDE DEF g, m, n, u, x
  <2>4. obj' = [objects |-> g, stale |-> obj.stale, ub |-> u]  BY <1>0, <2>1
  <2>5. GridFull(heap', g)
    <3>1. SUFFICES ASSUME NEW y \in DOMAIN heap' PROVE \E p \in Places : g[p] = y  BY DEF GridFull
    <3>2. CASE y = n  BY <2>2, <3>2
    <3>3. CASE y # n
      <4>1. PICK p \in Places : obj.objects[p] = y  BY <1>0, <2>3, <3>3 DEF GridFull
      <4>2. p # place  BY <2>3, <2>3b, <3>3, <4>1
      <4>3. QED  BY <2>2, <4>1, <4>2
    <3>4. QED  BY <3>2, <3>3
  <2>6. ASSUME ~obj.stale PROVE GridOwned(heap', g)
    <3>0. GridOwned(heap, obj.objects)  BY <1>0, <2>6
    <3>1. \A p \in Places \ {place} : g[p] # 0 => g[p] \in DOMAIN heap \ {x}
      BY <2>2, <2>3b, <3>0 DEF GridOwned
    <3>2. \A p \in Places : g[p] # 0 => g[p] \in DOMAIN heap'  BY <2>2, <2>3, <3>1
    <3>3. ASSUME NEW p \in Places, NEW q \in Places, g[p] # 0, g[p] = g[q] PROVE p = q
      <4>1. CASE p = place \/ q = place  BY <2>2, <2>3a, <3>1, <3>3, <4>1
      <4>2. CASE p # place /\ q # place  BY <2>2, <3>0, <3>3, <4>2 DEF GridOwned
      <4>3. QED  BY <4>1, <4>2
    <3>4. QED  BY <3>2, <3>3 DEF GridOwned
  <2>7. obj'.objects = g /\ obj'.stale = obj.stale /\ obj'.ub = u  BY <2>4
  <2>8. DOMAIN heap' \subseteq Cells  BY <1>0, <2>3, <2>3a
  <2>9. GridInv'  BY <1>0, <2>2, <2>4, <2>5, <2>6, <2>7, <2>8 DEF GridInv
  <2>10. QED  BY <1>2, <2>7, <2>9
<1>4. CASE what \notin Kinds
  <2> DEFINE t == obj.stale \/ x # 0
  <2>1. what = Unknown /\ heap' = m /\ obj' = [obj EXCEPT !.stale = t, !.ub = u]
    BY <1>4 DEF Grid!Replace, Grid!Nil
  <2>2. t \in BOOLEAN /\ (~t => ~obj.stale /\ x = 0)  BY <1>0
  <2>2a. x = obj.objects[place]  OBVIOUS
  <2>2b. Grid!add(place, Unknown)  BY <2>1 DEF Grid!add
  <2> HIDE DEF t, m, n, u, x
  <2>3. obj' = [objects |-> obj.objects, stale |-> t, ub |-> u]  BY <1>0, <2>1
  <2>4. obj'.objects = obj.objects /\ obj'.stale = t /\ obj'.ub = u  BY <2>3
  <2>5. DOMAIN heap' = DOMAIN heap \ {x}  BY <1>1, <2>1
  <2>6. GridFull(heap', obj.objects)  BY <1>0, <2>5 DEF GridFull
  <2>7. ASSUME ~t PROVE GridOwned(heap', obj.objects)
    <3>1. DOMAIN heap' = DOMAIN heap  BY <1>0, <2>2, <2>5, <2>7
    <3>2. QED  BY <1>0, <2>2, <2>7, <3>1 DEF GridOwned
  <2>8. GridInv'  BY <1>0, <2>2, <2>3, <2>4, <2>5, <2>6, <2>7 DEF GridInv
  <2>9. QED  BY <1>2, <2>2b, <2>4, <2>8
<1>5. QED  BY <1>3, <1>4

\* An object moves to another place, whose own is deleted.
LEMMA GridMove ==
    ASSUME GridInv, NEW from \in Places, NEW to \in Places, Grid!move(from, to)
    PROVE  /\ GridInv' /\ obj'.stale = obj.stale /\ (~obj.stale => ~obj'.ub)
           /\ ~obj.stale /\ from # to =>
                  /\ obj.objects[from] # 0 => heap'[obj'.objects[to]] = heap[obj.objects[from]]
                  /\ obj'.objects[from] = 0
<1> DEFINE x == obj.objects[to]
           y == obj.objects[from]
           u == Grid!Misuse(x)
           g == [obj.objects EXCEPT ![to] = y, ![from] = 0]
<1>0. /\ ~obj.ub /\ 0 \notin Cells
      /\ obj.objects \in [Places -> Cells \cup {0}] /\ DOMAIN heap \subseteq Cells
      /\ obj.stale \in BOOLEAN /\ u \in BOOLEAN
      /\ GridFull(heap, obj.objects) /\ (~obj.stale => GridOwned(heap, obj.objects))
      /\ obj = [objects |-> obj.objects, stale |-> obj.stale, ub |-> obj.ub]
  BY OwnersAssumption DEF Grid!move, Grid!Misuse, OwnersAssumption, GridInv
<1>1. DOMAIN heap' = DOMAIN heap \ {x} /\ \A c \in DOMAIN heap' : heap'[c] = heap[c]
  BY <1>0 DEF Grid!move, Grid!Deleted, Grid!Freed, Grid!Nil
<1>2. obj' = [obj EXCEPT !.objects = g, !.ub = u]  BY DEF Grid!move, Grid!Nil
<1>3. /\ g \in [Places -> Cells \cup {0}] /\ g[from] = 0
      /\ from # to => g[to] = y
      /\ \A p \in Places \ {from, to} : g[p] = obj.objects[p]
  BY <1>0
<1>4. ~obj.stale => ~u  BY <1>0 DEF Grid!Misuse, GridOwned, Grid!Nil
<1>4a. x = obj.objects[to] /\ y = obj.objects[from]  OBVIOUS
<1> HIDE DEF g, u, x, y
<1>5. obj' = [objects |-> g, stale |-> obj.stale, ub |-> u]  BY <1>0, <1>2
<1>6. obj'.objects = g /\ obj'.stale = obj.stale /\ obj'.ub = u  BY <1>5
<1>7. GridFull(heap', g)
  <2>1. SUFFICES ASSUME NEW z \in DOMAIN heap' PROVE \E p \in Places : g[p] = z  BY DEF GridFull
  <2>2. PICK p \in Places : obj.objects[p] = z  BY <1>0, <1>1 DEF GridFull
  <2>3. p # to  BY <1>1, <1>4a, <2>2
  <2>4. CASE p = from  BY <1>3, <1>4a, <2>2, <2>3, <2>4
  <2>5. CASE p # from  BY <1>3, <2>2, <2>3, <2>5
  <2>6. QED  BY <2>4, <2>5
<1>8. ASSUME ~obj.stale PROVE GridOwned(heap', g) /\ (from # to /\ y # 0 => y \in DOMAIN heap')
  <2>0. GridOwned(heap, obj.objects)  BY <1>0, <1>8
  <2>1. \A p \in Places \ {to} : obj.objects[p] # 0 => obj.objects[p] \in DOMAIN heap'
    BY <1>1, <1>4a, <2>0 DEF GridOwned
  <2>2. ASSUME NEW p \in Places, g[p] # 0 PROVE g[p] \in DOMAIN heap'
    <3>1. p # from  BY <1>3, <2>2
    <3>2. CASE p = to  BY <1>3, <1>4a, <2>1, <2>2, <3>1, <3>2
    <3>3. CASE p # to  BY <1>3, <2>1, <2>2, <3>1, <3>3
    <3>4. QED  BY <3>2, <3>3
  <2>3. ASSUME NEW p \in Places, NEW q \in Places, g[p] # 0, g[p] = g[q] PROVE p = q
    <3>1. p # from /\ q # from  BY <1>3, <2>3
    <3>2. CASE p = to /\ q # to
      <4>1. g[p] = obj.objects[from] /\ g[q] = obj.objects[q]  BY <1>3, <1>4a, <3>1, <3>2
      <4>2. QED  BY <2>0, <2>3, <3>1, <4>1 DEF GridOwned
    <3>3. CASE p # to /\ q = to
      <4>1. g[q] = obj.objects[from] /\ g[p] = obj.objects[p]  BY <1>3, <1>4a, <3>1, <3>3
      <4>2. QED  BY <2>0, <2>3, <3>1, <4>1 DEF GridOwned
    <3>4. CASE p # to /\ q # to  BY <1>3, <2>0, <2>3, <3>1, <3>4 DEF GridOwned
    <3>5. QED  BY <3>2, <3>3, <3>4
  <2>4. QED  BY <1>4a, <2>1, <2>2, <2>3 DEF GridOwned
<1>9. GridInv'  BY <1>0, <1>1, <1>3, <1>5, <1>6, <1>7, <1>8 DEF GridInv
<1>10. QED  BY <1>1, <1>3, <1>4, <1>4a, <1>6, <1>8, <1>9

\* The destructor leaves no object, and deletes none twice while nothing is
\* stale.
LEMMA GridDestroy ==
    ASSUME GridInv, Grid!Destroy
    PROVE  GridInv' /\ ~obj'.stale /\ (~obj.stale => ~obj'.ub)
<1> DEFINE g == [p \in Places |-> 0]
           u == \/ \E p \in Places : Grid!Misuse(obj.objects[p])
                \/ \E a, b \in Places : a # b /\ obj.objects[a] = obj.objects[b] /\ obj.objects[a] # 0
<1>1. obj' = [objects |-> g, stale |-> FALSE, ub |-> u]  BY DEF Grid!Destroy, Grid!Nil
<1>2. DOMAIN heap' = {}
  <2>1. DOMAIN heap' = DOMAIN heap \ {obj.objects[p] : p \in Places}  BY DEF Grid!Destroy
  <2>2. GridFull(heap, obj.objects)  BY DEF GridInv, Grid!Destroy
  <2>3. QED  BY <2>1, <2>2 DEF GridFull
<1>3. g \in [Places -> Cells \cup {0}] /\ \A p \in Places : g[p] = 0  OBVIOUS
<1>4. u \in BOOLEAN  OBVIOUS
<1>5. ASSUME ~obj.stale PROVE ~u
  <2>1. GridOwned(heap, obj.objects)  BY <1>5 DEF GridInv, Grid!Destroy
  <2>2. QED  BY <2>1 DEF GridOwned, Grid!Misuse, Grid!Nil
<1> HIDE DEF g, u
<1>6. obj'.objects = g /\ obj'.stale = FALSE /\ obj'.ub = u  BY <1>1
<1>7. GridFull(heap', g) /\ GridOwned(heap', g)  BY <1>2, <1>3 DEF GridFull, GridOwned
<1>8. GridInv'  BY <1>1, <1>2, <1>3, <1>4, <1>6, <1>7 DEF GridInv
<1>9. QED  BY <1>5, <1>6, <1>8

\* Each step keeps the invariant and has the effect that Refines states.
LEMMA GridStep == GridInv /\ Grid!Next => GridInv' /\ Grid!Refines
<1> SUFFICES ASSUME GridInv, Grid!Next PROVE GridInv' /\ Grid!Refines  OBVIOUS
<1>1. ASSUME ~obj.stale, NEW place \in Places, NEW to \in Places, Grid!move(place, to), place # to
      PROVE  /\ obj.objects[place] # 0 => heap'[obj'.objects[to]] = heap[obj.objects[place]]
             /\ obj'.objects[place] = 0
  BY <1>1, GridMove
<1>2. GridInv' /\ (~obj.stale => ~obj'.ub /\ (obj'.stale => \E place \in Places : Grid!add(place, Unknown)))
  <2>1. CASE Grid!Destroy  BY <2>1, GridDestroy
  <2>2. ASSUME NEW place \in Places, NEW what \in Kinds \cup {Unknown}, Grid!Replace(place, what)
        PROVE  GridInv' /\ (~obj.stale => ~obj'.ub /\ (obj'.stale => \E p \in Places : Grid!add(p, Unknown)))
    BY <2>2, GridReplace
  <2>3. ASSUME NEW place \in Places, NEW to \in Places, Grid!move(place, to)
        PROVE  GridInv' /\ (~obj.stale => ~obj'.ub /\ ~obj'.stale)
    BY <2>3, GridMove
  <2>4. QED  BY <2>1, <2>2, <2>3 DEF Grid!Next, Grid!add, Grid!change
<1>3. QED  BY <1>1, <1>2 DEF Grid!Refines, Grid!Nil

\* The invariant gives what area promises: there are as many objects as places
\* that are taken.
LEMMA GridIsSound == GridInv => Grid!Sound
<1> SUFFICES ASSUME GridInv, ~obj.ub PROVE Grid!Sound  BY DEF Grid!Sound
<1> DEFINE T == {p \in Places : obj.objects[p] # 0}
           H == DOMAIN heap
           f == [p \in T |-> obj.objects[p]]
<1>1. GridFull(heap, obj.objects) /\ H \subseteq Cells /\ 0 \notin Cells
  BY OwnersAssumption DEF GridInv, OwnersAssumption
<1>2. DOMAIN heap \subseteq {obj.objects[p] : p \in Places}  BY <1>1 DEF GridFull
<1>3. ASSUME ~obj.stale
      PROVE  Cardinality(H) = Cardinality(T) /\ \A p \in Places : ~Grid!Misuse(obj.objects[p])
  <2>1. GridOwned(heap, obj.objects)  BY <1>3 DEF GridInv
  <2>2. \A p \in Places : ~Grid!Misuse(obj.objects[p])  BY <2>1 DEF GridOwned, Grid!Misuse, Grid!Nil
  <2>3. f \in [T -> H]  BY <2>1 DEF GridOwned
  <2>4. \A p, q \in T : f[p] = f[q] => p = q  BY <2>1 DEF GridOwned
  <2>5. \A x \in H : \E p \in T : f[p] = x
    <3>1. TAKE x \in H
    <3>2. PICK p \in Places : obj.objects[p] = x  BY <1>1 DEF GridFull
    <3>3. p \in T  BY <1>1, <3>2
    <3>4. QED  BY <3>2, <3>3
  <2>6. IsFiniteSet(T)  BY OwnersAssumption, FS_Subset DEF OwnersAssumption
  <2> HIDE DEF f, T, H
  <2>7. f \in Bijection(T, H)  BY <2>3, <2>4, <2>5, Fun_IsBij
  <2>8. ExistsBijection(T, H)  BY <2>7 DEF ExistsBijection
  <2>9. Cardinality(H) = Cardinality(T)  BY <2>6, <2>8, FS_Bijection
  <2>10. QED  BY <2>2, <2>9
<1>4. QED  BY <1>2, <1>3, SameCardinality DEF Grid!Sound, Grid!Nil

-----------------------------------------------------------------------------
(* All of them *)

\* The invariant of the class that the behaviour follows.
OwnersInv ==
    /\ part = "stack" => StackInv
    /\ part = "shared" => SharedInv
    /\ part = "unique" => UniqueInv
    /\ part = "optional" => OptInv
    /\ part = "vectors" => VecInv
    /\ part = "area" => GridInv
    /\ part = "bucket" => BucketInv
    /\ part = "lru" => LruInv
    /\ part = "bimap" => BiInv

\* It holds at first.
LEMMA OwnersInvInit == OwnersInit => OwnersInv
BY StackInvInit, SharedInit, UniqueInit, OptInit, VecInit, GridInit, BucketInvInit, LruInvInit,
   BiInvInit DEF OwnersInit, OwnersInv

\* A step of one class leaves the state of the others alone, and a step that
\* changes nothing keeps it.
LEMMA OwnersInvStep == OwnersInv /\ [OwnersNext]_allVars => OwnersInv'
<1> SUFFICES ASSUME OwnersInv, [OwnersNext]_allVars PROVE OwnersInv'  OBVIOUS
<1>1. part' = part  BY DEF OwnersNext, allVars
<1>2. ASSUME part = "stack" PROVE StackInv'
  <2>1. [StackNext]_<<vars, stackVars>>
    BY <1>2 DEF OwnersNext, OwnerNext, allVars, pool
  <2>2. QED  BY <1>2, <2>1, StackInvStep DEF OwnersInv
<1>3. ASSUME part \notin {"pool", "stack"} PROVE OwnerNext \/ UNCHANGED <<heap, obj>>
  BY <1>3 DEF OwnersNext, allVars, structure
<1>4. ASSUME part = "shared" PROVE SharedInv'
  <2>1. SharedInv /\ (Shared!Next \/ UNCHANGED <<heap, obj>>)
    BY <1>3, <1>4 DEF OwnersInv, OwnerNext
  <2>2. ASSUME UNCHANGED <<heap, obj>> PROVE SharedInv'
    BY <2>1, <2>2 DEF SharedInv, SharedOK, SharedTyped, SharedLinks, SharedCounts
  <2>3. QED  BY <2>1, <2>2, SharedStep
<1>5. ASSUME part = "unique" PROVE UniqueInv'
  <2>1. UniqueInv /\ (Unique!Next \/ UNCHANGED <<heap, obj>>)
    BY <1>3, <1>5 DEF OwnersInv, OwnerNext
  <2>2. ASSUME UNCHANGED <<heap, obj>> PROVE UniqueInv'  BY <2>1, <2>2 DEF UniqueInv
  <2>3. QED  BY <2>1, <2>2, UniqueStep
<1>6. ASSUME part = "optional" PROVE OptInv'
  <2>1. OptInv /\ (Opt!Next \/ UNCHANGED <<heap, obj>>)
    BY <1>3, <1>6 DEF OwnersInv, OwnerNext
  <2>2. ASSUME UNCHANGED <<heap, obj>> PROVE OptInv'  BY <2>1, <2>2 DEF OptInv
  <2>3. QED  BY <2>1, <2>2, OptStep
<1>7. ASSUME part = "vectors" PROVE VecInv'
  <2>1. VecInv /\ (Vec!Next \/ UNCHANGED <<heap, obj>>)
    BY <1>3, <1>7 DEF OwnersInv, OwnerNext
  <2>2. ASSUME UNCHANGED <<heap, obj>> PROVE VecInv'  BY <2>1, <2>2 DEF VecInv
  <2>3. QED  BY <2>1, <2>2, VecStep
<1>8. ASSUME part = "area" PROVE GridInv'
  <2>1. GridInv /\ (Grid!Next \/ UNCHANGED <<heap, obj>>)
    BY <1>3, <1>8 DEF OwnersInv, OwnerNext
  <2>2. ASSUME UNCHANGED <<heap, obj>> PROVE GridInv'  BY <2>1, <2>2 DEF GridInv
  <2>3. QED  BY <2>1, <2>2, GridStep
<1>9. ASSUME part = "bucket" PROVE BucketInv'
  <2>1. BucketInv /\ (Map!BucketNext \/ UNCHANGED <<heap, obj>>)
    BY <1>3, <1>9 DEF OwnersInv, OwnerNext
  <2>2. ASSUME UNCHANGED <<heap, obj>> PROVE BucketInv'  BY <2>1, <2>2 DEF BucketInv
  <2>3. QED  BY <2>1, <2>2, BucketInvStep
<1>10. ASSUME part = "lru" PROVE LruInv'
  <2>1. LruInv /\ (Map!LruNext \/ UNCHANGED <<heap, obj>>)
    BY <1>3, <1>10 DEF OwnersInv, OwnerNext
  <2>2. ASSUME UNCHANGED <<heap, obj>> PROVE LruInv'  BY <2>1, <2>2 DEF LruInv
  <2>3. QED  BY <2>1, <2>2, LruInvStep
<1>11. ASSUME part = "bimap" PROVE BiInv'
  <2>1. BiInv /\ (Map!BiNext \/ UNCHANGED <<heap, obj>>)
    BY <1>3, <1>11 DEF OwnersInv, OwnerNext
  <2>2. ASSUME UNCHANGED <<heap, obj>> PROVE BiInv'  BY <2>1, <2>2 DEF BiInv
  <2>3. QED  BY <2>1, <2>2, BiInvStep
<1>12. QED  BY <1>1, <1>2, <1>4, <1>5, <1>6, <1>7, <1>8, <1>9, <1>10, <1>11 DEF OwnersInv

\* Every reachable state of an owning class satisfies its invariant.
LEMMA OwnersInvariant == OwnersSpec => []OwnersInv
BY OwnersInvInit, OwnersInvStep, PTL DEF OwnersSpec

\* SharedPtr, UniquePtr, Optional, Numvec, Vector, area and StackAllocator own
\* what is alive, once, count their owners, and free nothing twice and lose
\* nothing but where the code does.
THEOREM OwnersAreSound == OwnersSpec => []OwnersSound
<1>1. OwnersInv => OwnersSound
  BY StackInvLeaks, SharedIsSound, UniqueIsSound, OptIsSound, VecIsSound, GridIsSound,
     BucketIsSound, LruIsSound, BiIsSound DEF OwnersInv, OwnersSound
<1>2. QED  BY <1>1, OwnersInvariant, PTL

\* Their copies, moves, swaps, resets and destructors give each object the
\* value that the call stands for, and leave the other objects alone.
THEOREM OwnersRefined == OwnersSpec => OwnersRefine
<1> DEFINE Step == /\ part = "shared" => Shared!Refines
                   /\ part = "optional" => Opt!Refines
                   /\ part = "vectors" => Vec!Refines
                   /\ part = "area" => Grid!Refines
                   /\ part = "bucket" => Map!BucketRefines
                   /\ part = "bimap" => Map!BiRefines
<1>1. OwnersInv /\ OwnersInv' /\ [OwnersNext]_allVars => [Step]_allVars
  <2> SUFFICES ASSUME OwnersInv, OwnersInv', OwnersNext PROVE Step  OBVIOUS
  <2>1. part' = part  BY DEF OwnersNext
  <2>2. part = "shared" => Shared!Refines  BY <2>1, SharedRefines DEF OwnersInv
  <2>3. part = "optional" => Opt!Refines  BY OptRefines DEF OwnersInv
  <2>4. part = "vectors" => Vec!Refines  BY VecRefines DEF OwnersInv
  <2>5. part = "area" => Grid!Refines  BY GridStep DEF OwnersInv, OwnersNext, OwnerNext
  <2>6. part = "bucket" => Map!BucketRefines
    BY <2>1, BucketRefined DEF OwnersInv, OwnersNext, OwnerNext
  <2>7. part = "bimap" => Map!BiRefines
    BY BiKeeps DEF OwnersInv, OwnersNext, OwnerNext
  <2>8. QED  BY <2>2, <2>3, <2>4, <2>5, <2>6, <2>7
<1>2. QED  BY <1>1, OwnersInvariant, PTL DEF OwnersSpec, OwnersRefine
=============================================================================

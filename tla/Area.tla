-------------------------------- MODULE Area --------------------------------
(***************************************************************************)
(* class area of Sandbox/sharaga_govno_allocation.cpp: a grid of pointers  *)
(* to objects of the free store.  heap maps each live object to its kind;  *)
(* obj: [objects, stale, ub].  delete of an object that is not live is ub, *)
(* and the behaviour ends there; stale says that a pointer was left to a   *)
(* deleted object, whose cell a new one may get.                           *)
(***************************************************************************)
EXTENDS LinkedHeap

CONSTANTS
    Places,     \* <<width, height>> of the grid
    Kinds,      \* what add and change know
    Unknown     \* any other character

VARIABLES heap, obj

Deleted(m, c) == IF c = Nil THEN m ELSE Freed(m, c)
Misuse(c) == c # Nil /\ c \notin DOMAIN heap

\* The object at a place is deleted; only a kind that is known has a new one
\* made, otherwise the pointer stays.
Replace(at, what) ==
    LET m == Deleted(heap, obj.objects[at])
        n == Fresh(m)
    IN  /\ ~obj.ub /\ Room(m, 1)
        /\ IF what \in Kinds
           THEN /\ heap' = Stored(m, n, what)
                /\ obj' = [obj EXCEPT !.objects[at] = n, !.ub = Misuse(obj.objects[at])]
           ELSE /\ heap' = m
                /\ obj' = [obj EXCEPT !.stale = @ \/ obj.objects[at] # Nil, !.ub = Misuse(obj.objects[at])]

Init == heap = <<>> /\ obj = [objects |-> [at \in Places |-> Nil], stale |-> FALSE, ub |-> FALSE]

add(at, what) == Replace(at, what)
change(at, from, to) == from # to /\ Replace(at, to)

\* from_pointer is a reference: moved to itself, a place loses its object.
move(from, to) ==
    /\ ~obj.ub
    /\ heap' = Deleted(heap, obj.objects[to])
    /\ obj' = [obj EXCEPT !.objects = [@ EXCEPT ![to] = obj.objects[from], ![from] = Nil],
                          !.ub = Misuse(obj.objects[to])]

\* ~area deletes what every place points to.
Destroy ==
    /\ ~obj.ub
    /\ heap' = [c \in DOMAIN heap \ {obj.objects[at] : at \in Places} |-> heap[c]]
    /\ obj' = [objects |-> [at \in Places |-> Nil], stale |-> FALSE,
               ub |-> \/ \E at \in Places : Misuse(obj.objects[at])
                      \/ \E a, b \in Places : a # b /\ obj.objects[a] = obj.objects[b]
                                              /\ obj.objects[a] # Nil]

Next ==
    \/ Destroy
    \/ \E at \in Places :
           \/ \E what \in Kinds \cup {Unknown} :
                  add(at, what) \/ \E from \in Kinds : change(at, from, what)
           \/ \E to \in Places : move(at, to)

-----------------------------------------------------------------------------
(* Properties *)

\* No object is lost, and until a pointer is left to a deleted one, each is
\* in one place.
Sound ==
    ~obj.ub =>
        /\ DOMAIN heap \subseteq {obj.objects[at] : at \in Places}
        /\ ~obj.stale => /\ Cardinality(DOMAIN heap)
                            = Cardinality({at \in Places : obj.objects[at] # Nil})
                         /\ \A at \in Places : ~Misuse(obj.objects[at])

\* An object is deleted twice only after an unknown kind was put in the place
\* of one; a move takes the object, and nothing else, to its new place.
Refines ==
    ~obj.ub /\ ~obj.stale =>
        /\ ~obj'.ub
        /\ obj'.stale => \E at \in Places : add(at, Unknown)
        /\ \A at, to \in Places : move(at, to) /\ at # to =>
               /\ obj.objects[at] # Nil => heap'[obj'.objects[to]] = heap[obj.objects[at]]
               /\ obj'.objects[at] = Nil
=============================================================================

------------------------------ MODULE SharedPtr ------------------------------
(***************************************************************************)
(* class SharedPtr of yandex_tasks/containers/shared_ptr.cpp: pointers     *)
(* that count, in a cell of the free store, how many own an object.  A     *)
(* member function is an operator on s = [mem, p]: the heap, which maps    *)
(* each live object to 0 and each live counter to its count, and the       *)
(* pointer it runs on.  A client hands each new object to one pointer.     *)
(***************************************************************************)
EXTENDS LinkedHeap

CONSTANT Ptrs  \* SharedPtr objects

VARIABLES heap, obj  \* obj: [ptr, reference_count] of each that is constructed

Empty == [ptr |-> Nil, rc |-> Nil]

\* Mutant: a counter is made for every pointer.
acquireAnew(s) ==
    LET c == Fresh(s.mem)
    IN  IF s.p.ptr = Nil THEN s ELSE [mem |-> Stored(s.mem, c, 1), p |-> [s.p EXCEPT !.rc = c]]

acquire(s) ==
    LET c == IF s.p.rc = Nil THEN Fresh(s.mem) ELSE s.p.rc
        n == IF s.p.rc = Nil THEN 0 ELSE s.mem[c]
    IN  IF s.p.ptr = Nil THEN s
        ELSE [mem |-> Stored(s.mem, c, n + 1), p |-> [s.p EXCEPT !.rc = c]]

\* release, and the destructor.
release(s) ==
    IF s.p.ptr = Nil THEN s.mem
    ELSE IF s.mem[s.p.rc] = 1 THEN Freed(Freed(s.mem, s.p.ptr), s.p.rc)
    ELSE [s.mem EXCEPT ![s.p.rc] = @ - 1]

\* Copy releases what the pointer owned and takes over what other has.
Copy(s, other) == [mem |-> release(s), p |-> other]

-----------------------------------------------------------------------------
Made == DOMAIN obj
State(p) == [mem |-> heap, p |-> obj[p]]
Becomes(p, s) == heap' = s.mem /\ obj' = Stored(obj, p, s.p)

\* An object that the client has just made, or nullptr.
WithNew(m) == IF Room(m, 2) THEN {Nil, Fresh(m)} ELSE {Nil}
Added(m, x) == IF x = Nil THEN m ELSE Stored(m, x, 0)

Init == heap = <<>> /\ obj = <<>>

FromPointer(p, x) ==
    /\ p \notin Made /\ x \in WithNew(heap)
    /\ Becomes(p, acquire([mem |-> Added(heap, x), p |-> [ptr |-> x, rc |-> Nil]]))

CopyConstruct(p, q) ==
    /\ p \notin Made /\ q \in Made
    /\ Becomes(p, acquire(State(q)))

MoveConstruct(p, q) ==
    /\ p \notin Made /\ q \in Made
    /\ obj' = Stored(Stored(obj, q, Empty), p, obj[q])
    /\ UNCHANGED heap

\* operator=(T *) and reset.
AssignPointer(p, x) ==
    /\ p \in Made /\ x \in WithNew(heap)
    /\ IF obj[p].ptr = x THEN UNCHANGED <<heap, obj>>
       ELSE Becomes(p, acquire([mem |-> release([State(p) EXCEPT !.mem = Added(heap, x)]),
                                p |-> [ptr |-> x, rc |-> Nil]]))

MoveAssign(p, q) ==
    /\ p \in Made /\ q \in Made
    /\ IF obj[p].ptr = obj[q].ptr THEN UNCHANGED <<heap, obj>>
       ELSE /\ heap' = Copy(State(p), obj[q]).mem
            /\ obj' = Stored(Stored(obj, q, Empty), p, obj[q])

CopyAssign(p, q) ==
    /\ p \in Made /\ q \in Made
    /\ IF obj[p].ptr = obj[q].ptr THEN UNCHANGED <<heap, obj>>
       ELSE Becomes(p, acquire(Copy(State(p), obj[q])))

Swap(p, q) ==
    /\ p \in Made /\ q \in Made
    /\ obj' = Stored(Stored(obj, q, obj[p]), p, obj[q])
    /\ UNCHANGED heap

Destroy(p) ==
    /\ p \in Made
    /\ heap' = release(State(p))
    /\ obj' = [q \in Made \ {p} |-> obj[q]]

Next ==
    \E p \in Ptrs :
        \/ \E x \in Cells \cup {Nil} : FromPointer(p, x) \/ AssignPointer(p, x)
        \/ \E q \in Ptrs : CopyConstruct(p, q) \/ MoveConstruct(p, q) \/ MoveAssign(p, q)
                           \/ CopyAssign(p, q) \/ Swap(p, q)
        \/ Destroy(p)

-----------------------------------------------------------------------------
(* Properties *)

use_count(p) == IF obj[p].rc = Nil THEN 0 ELSE heap[obj[p].rc]
Owners(x) == {p \in Made : obj[p].ptr = x}

\* "The object is deleted if and only if the last SharedPtr that owns it is
\* destroyed": through copies, moves, swaps and resets in any order, the
\* pointers that own an object share one counter, which holds their number,
\* and no object and no counter without an owner is live.
Sound ==
    /\ \A p \in Made :
           /\ obj[p].ptr = Nil <=> obj[p].rc = Nil
           /\ obj[p].ptr # Nil => /\ {obj[p].ptr, obj[p].rc} \subseteq DOMAIN heap
                                  /\ use_count(p) = Cardinality(Owners(obj[p].ptr))
                                  /\ \A q \in Owners(obj[p].ptr) : obj[q].rc = obj[p].rc
    /\ DOMAIN heap = (UNION {{obj[p].ptr, obj[p].rc} : p \in Made}) \ {Nil}

\* A pointer owns what it was given last, a pointer that was moved from is
\* empty, and no call changes what a third pointer owns.  Of two owners of one
\* object neither is changed when one is moved to the other: operator= returns.
Refines ==
    \A p, q \in Ptrs :
        /\ CopyAssign(p, q) \/ CopyConstruct(p, q) => obj'[p] = obj[q] /\ UNCHANGED obj[q]
        /\ MoveConstruct(p, q) => obj'[p] = obj[q] /\ obj'[q] = Empty
        /\ MoveAssign(p, q) => obj'[p] = obj[q] /\ (obj'[q] = Empty \/ obj[q] = obj[p])
        /\ Destroy(p) => \A r \in Made \ {p} : UNCHANGED obj[r] /\ obj[r].ptr \in DOMAIN heap' \cup {Nil}
=============================================================================

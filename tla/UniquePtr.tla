------------------------------ MODULE UniquePtr ------------------------------
(***************************************************************************)
(* class UniquePtr of yandex_tasks/containers/unique_ptr_1.hpp ("plain"),  *)
(* and the one with a deleter, unique_ptr_2.hpp ("deleter").  The heap     *)
(* maps each live object to the deleter it was made for (plain pointers    *)
(* all use delete).  raw holds the objects that the client got from        *)
(* release.  A client that resets a pointer to what it owns, or compares   *)
(* with the operator != of unique_ptr_2, which is its ==, is left out.     *)
(***************************************************************************)
EXTENDS LinkedHeap

CONSTANTS
    Ptrs,      \* UniquePtr objects
    Deleters

VARIABLES heap, obj  \* obj: [class, at, raw, swapped, misused]

Made == DOMAIN obj.at
Owned(p) == obj.at[p].ptr
Is(class) == obj.class = class

\* The heap without what p owned, and whether its deleter was another's.
Deleted(m, p) == IF Owned(p) = Nil THEN m ELSE Freed(m, Owned(p))
Misuse(p) == Owned(p) # Nil /\ heap[Owned(p)] # obj.at[p].del

Set(p, x, d) == Stored(obj.at, p, [ptr |-> x, del |-> d])
Emptied(at, p) == [at EXCEPT ![p].ptr = Nil]

Init ==
    /\ heap = <<>>
    /\ obj \in [class : {"plain", "deleter"}, at : {<<>>}, raw : {{}},
                swapped : {FALSE}, misused : {FALSE}]

\* A new object for deleter d, or one that release gave back, or nullptr.
Given(x, d) ==
    \/ x = Nil
    \/ x \in obj.raw /\ heap[x] = d
    \/ Room(heap, 1) /\ x = Fresh(heap)
Added(m, x, d) == IF x = Nil THEN m ELSE Stored(m, x, d)

Construct(p, x, d) ==
    /\ p \notin Made /\ Given(x, d)
    /\ heap' = Added(heap, x, d)
    /\ obj' = [obj EXCEPT !.at = Set(p, x, d), !.raw = @ \ {x}]

\* plain: the pointer is released by other; deleter: with its deleter.
MoveConstruct(p, q) ==
    /\ p \notin Made /\ q \in Made
    /\ obj' = [obj EXCEPT !.at = Emptied(Set(p, Owned(q), obj.at[q].del), q)]
    /\ UNCHANGED heap

\* operator=(UniquePtr &&) to another pointer.
MoveAssign(p, q) ==
    /\ p \in Made /\ q \in Made \ {p}
    /\ heap' = Deleted(heap, p)
    /\ obj' = [obj EXCEPT !.at = Emptied(Set(p, Owned(q), obj.at[q].del), q),
                          !.misused = @ \/ Misuse(p)]

\* To itself: the plain one releases before it resets and keeps the object,
\* the other deletes it and is empty.
SelfMove(p) ==
    /\ p \in Made
    /\ IF Is("plain") THEN UNCHANGED <<heap, obj>>
       ELSE /\ heap' = Deleted(heap, p)
            /\ obj' = [obj EXCEPT !.at = Emptied(@, p), !.misused = @ \/ Misuse(p)]

\* reset, and operator=(nullptr_t).
Reset(p, x) ==
    /\ p \in Made /\ Given(x, obj.at[p].del)
    /\ heap' = Deleted(Added(heap, x, obj.at[p].del), p)
    /\ obj' = [obj EXCEPT !.at[p].ptr = x, !.raw = @ \ {x}, !.misused = @ \/ Misuse(p)]

Release(p) ==
    /\ p \in Made /\ Owned(p) # Nil
    /\ obj' = [obj EXCEPT !.at[p].ptr = Nil, !.raw = @ \cup {Owned(p)}]
    /\ UNCHANGED heap

\* swap exchanges the pointers; deleters stay where they are.
Swap(p, q) ==
    /\ p \in Made /\ q \in Made \ {p}
    /\ obj' = [obj EXCEPT !.at[p].ptr = Owned(q), !.at[q].ptr = Owned(p),
                          !.swapped = @ \/ obj.at[p].del # obj.at[q].del]
    /\ UNCHANGED heap

Destroy(p) ==
    /\ p \in Made
    /\ heap' = Deleted(heap, p)
    /\ obj' = [obj EXCEPT !.at = [q \in Made \ {p} |-> @[q]], !.misused = @ \/ Misuse(p)]

Next ==
    \E p \in Ptrs :
        \/ \E x \in Cells \cup {Nil} :
               \/ \E d \in IF Is("plain") THEN {"delete"} ELSE Deleters : Construct(p, x, d)
               \/ Reset(p, x)
        \/ \E q \in Ptrs : MoveConstruct(p, q) \/ MoveAssign(p, q) \/ Swap(p, q)
        \/ SelfMove(p) \/ Release(p) \/ Destroy(p)

-----------------------------------------------------------------------------
(* Properties *)

\* Every live object has exactly one owner, a pointer or the client, and
\* every pointer that is not empty owns a live object; it is deleted by the
\* deleter it was made for, as long as no swap has parted the two.
Sound ==
    /\ \A p \in Made : Owned(p) \in DOMAIN heap \cup {Nil}
    /\ \A x \in DOMAIN heap :
           Cardinality({p \in Made : Owned(p) = x}) = IF x \in obj.raw THEN 0 ELSE 1
    /\ obj.raw \subseteq DOMAIN heap
    /\ ~obj.swapped => ~obj.misused
=============================================================================

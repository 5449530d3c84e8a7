------------------------------- MODULE Vectors -------------------------------
(***************************************************************************)
(* class Numvec of Sandbox/vector.hpp ("Numvec") and class Vector of       *)
(* yandex_tasks/containers/vector_1.hpp ("Vector"): arrays in the free     *)
(* store that grow fourfold.  A member function is an operator on          *)
(* s = [mem, v]: the heap, which maps each live array to its size, and the *)
(* vector [arr, items, reserved]; items are the elements below len, as     *)
(* those above are read by nobody.  arr is Nil where an element is put     *)
(* outside of the array: the behaviour ends there.                         *)
(***************************************************************************)
EXTENDS LinkedHeap

CONSTANTS
    Vecs, Values,
    MaxLen         \* bound: elements of all vectors together

Junk == -1         \* an element of new T[n] that nobody wrote
Zero == 0          \* T()
DEFAULT_RESERVED == 4

VARIABLES heap, obj  \* obj: [class, at, ub, moved, listed]

newArray(m, size) == Stored(m, Fresh(m), size)

\* The elements become items, which the array must have room for.
Holding(s, items) ==
    [mem |-> s.mem,
     v |-> [arr |-> IF Len(items) <= s.mem[s.v.arr] THEN s.v.arr ELSE Nil,
            items |-> items, reserved |-> s.v.reserved]]

reallocate(s) ==
    [mem |-> Freed(newArray(s.mem, s.v.reserved), s.v.arr), v |-> [s.v EXCEPT !.arr = Fresh(s.mem)]]

Filled(m, reserved, items) ==
    Holding([mem |-> newArray(m, reserved),
             v |-> [arr |-> Fresh(m), items |-> <<>>, reserved |-> reserved]], items)

-----------------------------------------------------------------------------
(* Sandbox/vector.hpp *)

Numvec(m) == Filled(m, DEFAULT_RESERVED, <<>>)
NumvecOfSize(m, n) == Filled(m, 4 * n, [i \in 1 .. n |-> Zero])
NumvecOfArray(m, range) == Filled(m, 4 * Len(range), range)
NumvecOfList(m, range) == Filled(m, 4 * Len(range), range)
NumvecCopy(m, other) == Filled(m, other.reserved, other.items)

\* operator=(initializer_list): neither deletes the old array nor copies.
assignList(s, range) == Filled(s.mem, 4 * Len(range), [i \in DOMAIN range |-> Junk])

Reserve(s, n) == reallocate([s EXCEPT !.v.reserved = 4 * n])

assignCopy(s, from) ==
    Holding(IF s.v.reserved < Len(from) THEN Reserve(s, Len(from)) ELSE s, from)

\* Element by element, as the copy: an int that is moved from keeps its value.
assignMove(s, from) ==
    Holding(IF s.v.reserved < Len(from) THEN Reserve(s, Len(from)) ELSE s, from)

push_back(s, e) ==
    Holding(IF Len(s.v.items) = s.v.reserved THEN Reserve(s, s.v.reserved) ELSE s,
            Append(s.v.items, e))

\* Mutant: the elements of the other come first.
plus_backFront(s, from) ==
    LET after == Len(s.v.items) + Len(from)
    IN  Holding(IF after > s.v.reserved THEN Reserve(s, after) ELSE s, from \o s.v.items)

plus_back(s, from) ==
    LET after == Len(s.v.items) + Len(from)
    IN  Holding(IF after > s.v.reserved THEN Reserve(s, after) ELSE s, s.v.items \o from)

pop_back(s) == [s EXCEPT !.v.items = Front(@)]
clear(s) == [s EXCEPT !.v.items = <<>>]

equal(v, w) ==
    /\ Len(v.items) = Len(w.items)
    /\ \A i \in DOMAIN v.items : v.items[i] = w.items[i]
at(v, n) == IF n >= Len(v.items) THEN <<>> ELSE <<v.items[n + 1]>>

(* yandex_tasks/containers/vector_1.hpp: the same bodies *)

Vector(m) == Numvec(m)
VectorCopy(m, other) == NumvecCopy(m, other)
Vector_assign(s, from) == assignCopy(s, from)
Vector_push_back(s, e) == push_back(s, e)
Vector_pop_back(s) == pop_back(s)

-----------------------------------------------------------------------------
Made == DOMAIN obj.at
Is(class) == obj.class = class /\ ~obj.ub /\ ~obj.moved
State(v) == [mem |-> heap, v |-> obj.at[v]]
Items(v) == obj.at[v].items
Becomes(v, s) ==
    /\ heap' = s.mem
    /\ obj' = [obj EXCEPT !.at = Stored(@, v, s.v), !.ub = s.v.arr = Nil]

\* The bound on the elements after n more.
Bounded(n) ==
    MapThenSumSet(LAMBDA w : Len(Items(w)), Made) + n <= MaxLen

Ranges == UNION {[1 .. n -> Values] : n \in 0 .. 1}

Init ==
    /\ heap = <<>>
    /\ obj \in [class : {"Numvec", "Vector"}, at : {<<>>}, ub : {FALSE}, moved : {FALSE}, listed : {FALSE}]

Construct(v) ==
    /\ v \notin Made /\ Room(heap, 1)
    /\ \/ Is("Numvec") /\ Becomes(v, Numvec(heap))
       \/ Is("Vector") /\ Becomes(v, Vector(heap))
       \/ Is("Numvec") /\ \E n \in 0 .. 1 : Becomes(v, NumvecOfSize(heap, n))

ConstructFrom(v, range) ==
    /\ v \notin Made /\ Room(heap, 1) /\ Is("Numvec") /\ Bounded(Len(range))
    /\ \/ Becomes(v, NumvecOfArray(heap, range))
       \/ Becomes(v, NumvecOfList(heap, range))

CopyConstruct(v, w) ==
    /\ v \notin Made /\ w \in Made /\ Room(heap, 1) /\ Bounded(Len(Items(w)))
    /\ \/ Is("Numvec") /\ Becomes(v, NumvecCopy(heap, obj.at[w]))
       \/ Is("Vector") /\ Becomes(v, VectorCopy(heap, obj.at[w]))

\* Numvec(Numvec &&) takes the array of other, which keeps it, and believes
\* that it has the default size: only the destructors are followed from here.
MoveConstruct(v, w) ==
    /\ v \notin Made /\ w \in Made /\ Is("Numvec")
    /\ obj' = [obj EXCEPT !.at = Stored(@, v, [arr |-> @[w].arr, items |-> @[w].items,
                                             reserved |-> DEFAULT_RESERVED]), !.moved = TRUE]
    /\ UNCHANGED heap

AssignList(v, range) ==
    /\ v \in Made /\ Is("Numvec") /\ Room(heap, 1) /\ ~obj.listed
    /\ heap' = assignList(State(v), range).mem
    /\ obj' = [obj EXCEPT !.at[v] = assignList(State(v), range).v, !.listed = TRUE]

Assign(v, w) ==
    /\ v \in Made /\ w \in Made /\ Room(heap, 1) /\ Bounded(Len(Items(w)) - Len(Items(v)))
    /\ \/ Is("Numvec") /\ Becomes(v, assignCopy(State(v), Items(w)))
       \/ Is("Numvec") /\ Becomes(v, assignMove(State(v), Items(w)))
       \/ Is("Vector") /\ Becomes(v, Vector_assign(State(v), Items(w)))

PushBack(v, e) ==
    /\ v \in Made /\ Room(heap, 1) /\ Bounded(1)
    /\ \/ Is("Numvec") /\ Becomes(v, push_back(State(v), e))
       \/ Is("Vector") /\ Becomes(v, Vector_push_back(State(v), e))

PlusBack(v, w) ==
    /\ v \in Made /\ w \in Made /\ Room(heap, 1) /\ Is("Numvec")
    /\ Bounded(Len(Items(w)))
    /\ Becomes(v, plus_back(State(v), Items(w)))

PopBack(v) ==
    /\ v \in Made /\ Len(Items(v)) > 0
    /\ \/ Is("Numvec") /\ Becomes(v, pop_back(State(v)))
       \/ Is("Vector") /\ Becomes(v, Vector_pop_back(State(v)))

Clear(v) == v \in Made /\ Is("Numvec") /\ Becomes(v, clear(State(v)))

\* The destructor: delete[] of an array that is not live is ub.
Destroy(v) ==
    /\ v \in Made /\ ~obj.ub
    /\ heap' = Freed(heap, obj.at[v].arr)
    /\ obj' = [obj EXCEPT !.at = [w \in Made \ {v} |-> @[w]], !.ub = obj.at[v].arr \notin DOMAIN heap]

Next ==
    \E v \in Vecs :
        \/ Construct(v) \/ PopBack(v) \/ Clear(v) \/ Destroy(v)
        \/ \E range \in Ranges : ConstructFrom(v, range) \/ AssignList(v, range)
        \/ \E w \in Vecs : CopyConstruct(v, w) \/ MoveConstruct(v, w) \/ Assign(v, w)
                           \/ PlusBack(v, w)
        \/ \E e \in Values : PushBack(v, e)

-----------------------------------------------------------------------------
(* Properties *)

\* Unless a vector was move constructed or assigned an initializer list, each
\* array has one owner, none is lost, and reserved is its size.  Without a
\* move, the code goes out of bounds only where an array of no elements
\* grows: four times 0 is 0.  Equality and at are those of sequences.
Sound ==
    /\ ~obj.moved /\ ~obj.listed /\ ~obj.ub =>
           /\ DOMAIN heap = {obj.at[v].arr : v \in Made}
           /\ Cardinality(DOMAIN heap) = Cardinality(Made)
    /\ ~obj.moved /\ ~obj.ub =>
           \A v \in Made : obj.at[v].reserved = heap[obj.at[v].arr]
    /\ ~obj.moved /\ ~obj.ub => \A v, w \in Made :
           /\ equal(obj.at[v], obj.at[w]) <=> Items(v) = Items(w)
           /\ \A n \in 0 .. MaxLen : at(obj.at[v], n) = IF n < Len(Items(v)) THEN <<Items(v)[n + 1]>> ELSE <<>>

\* Each call does to the elements what its name says, also when it has to
\* grow; assigning a list leaves the elements unwritten.
Refines ==
    ~obj.moved /\ ~obj'.moved =>
    \A v \in Vecs :
        /\ \A e \in Values : PushBack(v, e) =>
               IF obj.at[v].reserved = 0 THEN obj'.ub
               ELSE ~obj'.ub /\ Items(v)' = Append(Items(v), e)
        /\ \A w \in Vecs :
               /\ PlusBack(v, w) => ~obj'.ub /\ Items(v)' = Items(v) \o Items(w)
               /\ CopyConstruct(v, w) \/ Assign(v, w) =>
                      ~obj'.ub /\ Items(v)' = Items(w) /\ UNCHANGED Items(w)
        /\ PopBack(v) => Items(v)' = Front(Items(v))
        /\ \A range \in Ranges :
               /\ ConstructFrom(v, range) => Items(v)' = range /\ ~obj'.ub
               /\ AssignList(v, range) => Items(v)' = [i \in DOMAIN range |-> Junk]
        /\ Destroy(v) => \A w \in Made \ {v} : UNCHANGED Items(w)
=============================================================================

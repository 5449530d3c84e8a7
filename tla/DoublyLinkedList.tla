-------------------------- MODULE DoublyLinkedList --------------------------
(***************************************************************************)
(* 2022-02-16-doubly-linked-list/list.cpp: nodes with prev and next, and   *)
(* list objects with head_, tail_ and length_.  A member function is an    *)
(* operator on s = [mem, l], the heap and the list it runs on; an          *)
(* iterator is the cell it points to.                                      *)
(***************************************************************************)
EXTENDS LinkedHeap

CONSTANTS
    Lists,   \* list objects
    Values   \* integers, so that sort has an order

VARIABLES heap, obj   \* obj: the lists that are constructed

node(v, p, n) == [value |-> v, prev |-> p, next |-> n]
EmptyList == [head |-> Nil, tail |-> Nil, length |-> 0]

create_node(m, v, p, n) == (Fresh(m) :> node(v, p, n)) @@ m

-----------------------------------------------------------------------------
(* Iterators: nothing is checked but null. *)

begin(s) == s.l.head
end(s) == IF s.l.tail # Nil THEN s.mem[s.l.tail].next ELSE s.l.head

\* operator+: ends early at the null iterator.
RECURSIVE plus(_, _, _)
plus(m, it, offset) ==
    IF it # Nil /\ offset > 0 THEN plus(m, m[it].next, offset - 1) ELSE it

\* operator-: the same along prev.
RECURSIVE minus(_, _, _)
minus(m, it, offset) ==
    IF it # Nil /\ offset > 0 THEN minus(m, m[it].prev, offset - 1) ELSE it

front(s) == s.mem[begin(s)].value
back(s) == s.mem[plus(s.mem, begin(s), s.l.length - 1)].value

\* compare: equal as far as both go, and both at their end.
RECURSIVE compare(_, _, _, _, _)
compare(m, it1, end1, it2, end2) ==
    IF it1 # end1 /\ it2 # end2
    THEN /\ m[it1].value = m[it2].value
         /\ compare(m, m[it1].next, end1, m[it2].next, end2)
    ELSE it1 = end1 /\ it2 = end2

-----------------------------------------------------------------------------
(* Member functions *)

push_back(s, v) ==
    LET n == Fresh(s.mem)
        t == s.l.tail
    IN  IF s.l.length = 0
        THEN [mem |-> create_node(s.mem, v, Nil, Nil),
              l |-> [head |-> n, tail |-> n, length |-> 1]]
        ELSE [mem |-> [create_node(s.mem, v, t, Nil) EXCEPT ![t].next = n],
              l |-> [s.l EXCEPT !.tail = n, !.length = @ + 1]]

push_front(s, v) ==
    LET n == Fresh(s.mem)
        h == s.l.head
    IN  IF s.l.length = 0
        THEN [mem |-> create_node(s.mem, v, Nil, Nil),
              l |-> [head |-> n, tail |-> n, length |-> 1]]
        ELSE [mem |-> [create_node(s.mem, v, Nil, h) EXCEPT ![h].prev = n],
              l |-> [s.l EXCEPT !.head = n, !.length = @ + 1]]

pop_back(s) ==
    LET old == s.l.tail
        t == s.mem[old].prev
        m == IF s.l.length = 1 THEN s.mem ELSE [s.mem EXCEPT ![t].next = Nil]
    IN  [mem |-> Freed(m, old),
         l |-> [head |-> IF s.l.length = 1 THEN Nil ELSE s.l.head,
                tail |-> t, length |-> s.l.length - 1]]

pop_front(s) ==
    LET old == s.l.head
        h == s.mem[old].next
        m == IF s.l.length = 1 THEN s.mem ELSE [s.mem EXCEPT ![h].prev = Nil]
    IN  [mem |-> Freed(m, old),
         l |-> [head |-> h, tail |-> IF s.l.length = 1 THEN Nil ELSE s.l.tail,
                length |-> s.l.length - 1]]

RECURSIVE clear(_)
clear(s) == IF s.l.length > 0 THEN clear(pop_back(s)) ELSE s

\* Mutant: an inner node keeps its neighbours linked to it one way.
eraseOneWay(s, it) ==
    LET p == s.mem[it].prev
        n == s.mem[it].next
    IN  IF p = Nil THEN pop_front(s)
        ELSE IF n = Nil THEN pop_back(s)
        ELSE [mem |-> Freed([s.mem EXCEPT ![p].next = n], it),
              l |-> [s.l EXCEPT !.length = @ - 1]]

erase(s, it) ==
    LET p == s.mem[it].prev
        n == s.mem[it].next
    IN  IF p = Nil THEN pop_front(s)
        ELSE IF n = Nil THEN pop_back(s)
        ELSE [mem |-> Freed([s.mem EXCEPT ![p].next = n, ![n].prev = p], it),
              l |-> [s.l EXCEPT !.length = @ - 1]]

\* insert puts the value behind position; the null iterator, which is end(),
\* appends.
insert(s, it, v) ==
    LET n == Fresh(s.mem)
        after == s.mem[it].next
        m == [create_node(s.mem, v, it, after) EXCEPT ![it].next = n]
    IN  IF it = end(s) THEN push_back(s, v)
        ELSE IF after # Nil
        THEN [mem |-> [m EXCEPT ![after].prev = n],
              l |-> [s.l EXCEPT !.length = @ + 1]]
        ELSE [mem |-> m, l |-> [s.l EXCEPT !.tail = n, !.length = @ + 1]]

\* The loops of assign: values are overwritten as long as there are nodes,
\* the rest of the range is appended, or the rest of the nodes is erased.
RECURSIVE assignRest(_, _, _)
assignRest(s, watcher, range) ==
    IF watcher # Nil /\ range # <<>>
    THEN assignRest([s EXCEPT !.mem[watcher].value = Head(range)],
                    s.mem[watcher].next, Tail(range))
    ELSE IF range # <<>> THEN FoldLeft(push_back, s, range)
    ELSE FoldLeft(erase, s, Chain(s.mem, watcher))

\* assign: an empty range changes nothing.
assign(s, range) == IF range = <<>> THEN s ELSE assignRest(s, s.l.head, range)

\* sort exchanges the values of each node and a later one that is smaller.
sort(s) ==
    LET w == Chain(s.mem, s.l.head)
        pairs == FlattenSeq([i \in 1 .. Len(w) |->
                     [j \in 1 .. Len(w) - i |-> <<w[i], w[i + j]>>]])
        exchange(m, p) ==
            IF m[p[1]].value > m[p[2]].value
            THEN [m EXCEPT ![p[1]].value = m[p[2]].value,
                           ![p[2]].value = m[p[1]].value]
            ELSE m
    IN  [s EXCEPT !.mem = FoldLeft(exchange, s.mem, pairs)]

-----------------------------------------------------------------------------
(* The calls of a client.  Popping an empty list and an iterator of another *)
(* list are the client's errors.                                           *)

State(o) == [mem |-> heap, l |-> obj[o]]
Becomes(o, s) == heap' = s.mem /\ obj' = (o :> s.l) @@ obj
Items(o) == ValuesFrom(heap, obj[o].head)
Made == DOMAIN obj

Init == heap = <<>> /\ obj = <<>>

\* list(), and list(initializer_list).
Construct(o, range) ==
    /\ o \notin Made /\ Room(heap, Len(range))
    /\ Becomes(o, assign([mem |-> heap, l |-> EmptyList], range))

CopyConstruct(o, p) ==
    /\ o \notin Made /\ p \in Made /\ Room(heap, obj[p].length)
    /\ Becomes(o, assign([mem |-> heap, l |-> EmptyList], Items(p)))

MoveConstruct(o, p) ==
    /\ o \notin Made /\ p \in Made
    /\ obj' = (o :> obj[p]) @@ (p :> EmptyList) @@ obj
    /\ UNCHANGED heap

CopyAssign(o, p) ==
    /\ o \in Made /\ p \in Made \ {o}
    /\ Room(heap, obj[p].length - obj[o].length)
    /\ Becomes(o, assign(State(o), Items(p)))

MoveAssign(o, p) ==
    /\ o \in Made /\ p \in Made \ {o}
    /\ heap' = clear(State(o)).mem
    /\ obj' = (o :> obj[p]) @@ (p :> EmptyList) @@ obj

Destroy(o) ==
    /\ o \in Made
    /\ heap' = clear(State(o)).mem
    /\ obj' = [p \in Made \ {o} |-> obj[p]]

PushBack(o, v) == o \in Made /\ Room(heap, 1) /\ Becomes(o, push_back(State(o), v))
PushFront(o, v) == o \in Made /\ Room(heap, 1) /\ Becomes(o, push_front(State(o), v))
PopBack(o) == o \in Made /\ obj[o].length > 0 /\ Becomes(o, pop_back(State(o)))
PopFront(o) == o \in Made /\ obj[o].length > 0 /\ Becomes(o, pop_front(State(o)))
Erase(o, k) == o \in Made /\ k < obj[o].length
               /\ Becomes(o, erase(State(o), plus(heap, begin(State(o)), k)))
Insert(o, k, v) == o \in Made /\ k <= obj[o].length /\ Room(heap, 1)
                   /\ Becomes(o, insert(State(o), plus(heap, begin(State(o)), k), v))
Sort(o) == o \in Made /\ Becomes(o, sort(State(o)))

Positions == 0 .. Cardinality(Cells)
Ranges == {<<>>} \cup {<<v>> : v \in Values} \cup (Values \X Values)

Next ==
    \E o \in Lists :
        \/ \E r \in Ranges : Construct(o, r)
        \/ \E p \in Lists : CopyConstruct(o, p) \/ MoveConstruct(o, p)
                            \/ CopyAssign(o, p) \/ MoveAssign(o, p)
        \/ Destroy(o) \/ PopBack(o) \/ PopFront(o) \/ Sort(o)
        \/ \E v \in Values : PushBack(o, v) \/ PushFront(o, v)
        \/ \E k \in Positions : Erase(o, k) \/ \E v \in Values : Insert(o, k, v)

-----------------------------------------------------------------------------
(* Properties *)

\* prev undoes next from head_ to tail_, length_ counts the nodes, every
\* node is in one list and no node is lost, whatever the calls were; front,
\* back, compare and the iterators read what the list holds.
Sound ==
    /\ \A o \in Made :
           LET w == Chain(heap, obj[o].head)
           IN  /\ ChainSound(heap, obj[o].head)
               /\ Walk(heap, obj[o].tail, "prev", Len(w)) = Reverse(w)
               /\ obj[o].length = Len(w)
               /\ end(State(o)) = Nil
               /\ w # <<>> => front(State(o)) = Items(o)[1]
               /\ w # <<>> => back(State(o)) = Last(Items(o))
               /\ w # <<>> => minus(heap, obj[o].tail, Len(w) - 1) = obj[o].head
               /\ \A p \in Made :
                      compare(heap, begin(State(o)), end(State(o)),
                              begin(State(p)), end(State(p)))
                      <=> (Items(o) = Items(p))
    /\ DOMAIN heap = UNION {ToSet(Chain(heap, obj[o].head)) : o \in Made}
    /\ \A o, p \in Made :
           o # p => ToSet(Chain(heap, obj[o].head))
                    \cap ToSet(Chain(heap, obj[p].head)) = {}

\* Each call does to the sequence of values what its name says, and to no
\* other list: a copy is equal to its source, which keeps its values, a move
\* leaves it empty.  Assigning an empty list is the exception: it changes
\* nothing.
Others(o) == \A q \in Made \ {o} : UNCHANGED Items(q)
Refines ==
    \A o \in Lists :
        /\ PopBack(o) => Items(o)' = Front(Items(o)) /\ Others(o)
        /\ PopFront(o) => Items(o)' = Tail(Items(o)) /\ Others(o)
        /\ Sort(o) => Items(o)' = SortSeq(Items(o), <) /\ Others(o)
        /\ Destroy(o) => Others(o)
        /\ \A v \in Values :
               /\ PushBack(o, v) => Items(o)' = Append(Items(o), v) /\ Others(o)
               /\ PushFront(o, v) => Items(o)' = <<v>> \o Items(o) /\ Others(o)
        /\ o \in Made => \A k \in 0 .. obj[o].length :
               /\ Erase(o, k) => Items(o)' = RemoveAt(Items(o), k + 1) /\ Others(o)
               /\ \A v \in Values : Insert(o, k, v) =>
                      /\ Items(o)' = IF k = obj[o].length THEN Append(Items(o), v)
                                     ELSE InsertAt(Items(o), k + 2, v)
                      /\ Others(o)
        /\ \A p \in Lists :
               /\ CopyConstruct(o, p) => Items(o)' = Items(p) /\ UNCHANGED Items(p)
               /\ CopyAssign(o, p) =>
                      /\ Items(o)' = IF Items(p) = <<>> THEN Items(o) ELSE Items(p)
                      /\ Others(o)
               /\ MoveConstruct(o, p) \/ MoveAssign(o, p) =>
                      Items(o)' = Items(p) /\ Items(p)' = <<>>
=============================================================================

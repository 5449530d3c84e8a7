------------------------------- MODULE Deques -------------------------------
(***************************************************************************)
(* The other doubly linked lists of the notes: process_queue of Sandbox/   *)
(* univer_process_queue.hpp ("queue"), List of yandex_tasks/containers/    *)
(* list_1.hpp ("list_1") and list_2.hpp ("list_2"), and list_t of          *)
(* 2022-04-17-doubly-linked-list-in-C/list.c ("list_t").  The bodies of    *)
(* push and pop are those of DoublyLinkedList, line by line, but for       *)
(* list_t.  ub is set where the code reads through a null pointer.         *)
(***************************************************************************)
EXTENDS LinkedHeap

CONSTANTS Lists, Values

VARIABLES heap, obj  \* obj: [class, at, ub]; at: the lists constructed

D == INSTANCE DoublyLinkedList

Empty == D!EmptyList
\* Sandbox/univer_process_queue.hpp
queue_push_front(s, p) == D!push_front(s, p)
queue_push_back(s, p) == D!push_back(s, p)
queue_pop_front(s) == D!pop_front(s)
queue_pop_back(s) == D!pop_back(s)
queue_clear(s) == D!clear(s)

\* yandex_tasks/containers/list_1.hpp
list_1_push_back(s, v) == D!push_back(s, v)
list_1_push_front(s, v) == D!push_front(s, v)
list_1_pop_back(s) == D!pop_back(s)
list_1_pop_front(s) == D!pop_front(s)
list_1_destroy(s) == D!clear(s)

\* yandex_tasks/containers/list_2.hpp
list_2_push_back(s, v) == D!push_back(s, v)
list_2_push_front(s, v) == D!push_front(s, v)
list_2_pop_back(s) == D!pop_back(s)
list_2_pop_front(s) == D!pop_front(s)
list_2_destroy(s) == D!clear(s)

\* 2022-04-17-doubly-linked-list-in-C/list.c: list_pop_back cuts no link to
\* the node that it frees, and first stays; only list_destroy calls it.
list_add(s, v) ==
    LET n == Fresh(s.mem)
        t == s.l.tail
    IN  IF s.l.head # Nil
        THEN [mem |-> [D!create_node(s.mem, v, t, Nil) EXCEPT ![t].next = n],
              l |-> [s.l EXCEPT !.tail = n, !.length = @ + 1]]
        ELSE [mem |-> D!create_node(s.mem, v, Nil, Nil),
              l |-> [head |-> n, tail |-> n, length |-> 1]]
list_pop_back(s) ==
    [mem |-> Freed(s.mem, s.l.tail),
     l |-> [s.l EXCEPT !.tail = s.mem[s.l.tail].prev, !.length = @ - 1]]
RECURSIVE list_destroy(_)
list_destroy(s) == IF s.l.length > 0 THEN list_destroy(list_pop_back(s)) ELSE s

\* ConstIterator: -- of the null iterator goes to the tail of its list.
increment(m, it) == m[it].next
decrement(m, l, it) == IF it # Nil THEN m[it].prev ELSE l.tail

-----------------------------------------------------------------------------
Made == DOMAIN obj.at
Is(classes) == obj.class \in classes /\ ~obj.ub
State(o) == [mem |-> heap, l |-> obj.at[o]]
Becomes(o, s) == heap' = s.mem /\ obj' = [obj EXCEPT !.at = (o :> s.l) @@ @]
Items(o) == ValuesFrom(heap, obj.at[o].head)

Init ==
    /\ heap = <<>>
    /\ obj \in [class : {"queue", "list_1", "list_2", "list_t"}, at : {<<>>}, ub : {FALSE}]

\* The constructors, and list_create.
Construct(o) == ~obj.ub /\ o \notin Made /\ Becomes(o, [mem |-> heap, l |-> Empty])

PushBack(o, v) ==
    /\ o \in Made /\ Room(heap, 1)
    /\ \/ Is({"queue"}) /\ Becomes(o, queue_push_back(State(o), v))
       \/ Is({"list_1"}) /\ Becomes(o, list_1_push_back(State(o), v))
       \/ Is({"list_2"}) /\ Becomes(o, list_2_push_back(State(o), v))
       \/ Is({"list_t"}) /\ Becomes(o, list_add(State(o), v))

PushFront(o, v) ==
    /\ o \in Made /\ Room(heap, 1)
    /\ \/ Is({"queue"}) /\ Becomes(o, queue_push_front(State(o), v))
       \/ Is({"list_1"}) /\ Becomes(o, list_1_push_front(State(o), v))
       \/ Is({"list_2"}) /\ Becomes(o, list_2_push_front(State(o), v))

PopBack(o) ==
    /\ o \in Made /\ obj.at[o].length > 0
    /\ \/ Is({"queue"}) /\ Becomes(o, queue_pop_back(State(o)))
       \/ Is({"list_1"}) /\ Becomes(o, list_1_pop_back(State(o)))
       \/ Is({"list_2"}) /\ Becomes(o, list_2_pop_back(State(o)))

PopFront(o) ==
    /\ o \in Made /\ obj.at[o].length > 0
    /\ \/ Is({"queue"}) /\ Becomes(o, queue_pop_front(State(o)))
       \/ Is({"list_1"}) /\ Becomes(o, list_1_pop_front(State(o)))
       \/ Is({"list_2"}) /\ Becomes(o, list_2_pop_front(State(o)))

\* operator=: the list is emptied and filled from other, whose end() reads
\* through its tail: null if other is empty, and if it is this list.
Assign(o, p) ==
    LET cleared == D!clear(State(o))
    IN  /\ Is({"list_1", "list_2"}) /\ o \in Made /\ p \in Made
        /\ Room(cleared.mem, obj.at[p].length)
        /\ IF o = p \/ obj.at[p].tail = Nil
           THEN UNCHANGED heap /\ obj' = [obj EXCEPT !.ub = TRUE]
           ELSE Becomes(o, FoldLeft(D!push_back, cleared, Items(p)))

Destroy(o) ==
    /\ o \in Made
    /\ \/ Is({"queue"}) /\ heap' = queue_clear(State(o)).mem
       \/ Is({"list_1"}) /\ heap' = list_1_destroy(State(o)).mem
       \/ Is({"list_2"}) /\ heap' = list_2_destroy(State(o)).mem
       \/ Is({"list_t"}) /\ heap' = list_destroy(State(o)).mem
    /\ obj' = [obj EXCEPT !.at = [p \in Made \ {o} |-> @[p]]]

Next ==
    \E o \in Lists :
        \/ Construct(o) \/ PopBack(o) \/ PopFront(o) \/ Destroy(o)
        \/ \E v \in Values : PushBack(o, v) \/ PushFront(o, v)
        \/ \E p \in Lists : Assign(o, p)

-----------------------------------------------------------------------------
(* Properties *)

\* From either end the same nodes are met, length counts them, each is in
\* one list, none is lost, and -- undoes ++, at the end too.
Sound ==
    /\ \A o \in Made :
           LET w == Chain(heap, obj.at[o].head)
           IN  /\ ChainSound(heap, obj.at[o].head)
               /\ Walk(heap, obj.at[o].tail, "prev", Len(w)) = Reverse(w)
               /\ obj.at[o].length = Len(w)
               /\ \A c \in ToSet(w) : decrement(heap, obj.at[o], increment(heap, c)) = c
    /\ Cardinality(DOMAIN heap)
       = FoldSet(LAMBDA o, n : n + obj.at[o].length, 0, Made)
    /\ DOMAIN heap = UNION {ToSet(Chain(heap, obj.at[o].head)) : o \in Made}

\* Each call does to the values what its name says and to no other list;
\* assignment makes an equal list and fails only for an empty one and itself.
Others(o) == \A q \in Made \ {o} : UNCHANGED Items(q)
Refines ==
    \A o \in Lists :
        /\ \A v \in Values :
               /\ PushBack(o, v) => Items(o)' = Append(Items(o), v) /\ Others(o)
               /\ PushFront(o, v) => Items(o)' = <<v>> \o Items(o) /\ Others(o)
        /\ PopBack(o) => Items(o)' = Front(Items(o)) /\ Others(o)
        /\ PopFront(o) => Items(o)' = Tail(Items(o)) /\ Others(o)
        /\ Destroy(o) => Others(o)
        /\ \A p \in Lists : Assign(o, p) =>
               IF o = p \/ Items(p) = <<>> THEN obj'.ub
               ELSE Items(o)' = Items(p) /\ Others(o)
=============================================================================

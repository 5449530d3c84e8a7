------------------------- MODULE SinglyLinkedLists --------------------------
(***************************************************************************)
(* The singly linked lists of the notes: 2022-05-16-sorted-list-push       *)
(* ("sorted"), Sandbox/exam_list.hpp ("exam"), Sandbox/exam_3.hpp          *)
(* ("exam3"), Sandbox/list.cpp ("counted") and the list of                 *)
(* 2022-07-27-cpp-list-exam/kontener.h ("kontener").  One list of one      *)
(* class is used until it is destroyed.  A member function is an operator  *)
(* on s = [mem, head, size]; where the code reads through a null or a      *)
(* freed pointer the behaviour ends with ub set.  exam_3's size_ is never  *)
(* read and is left out.                                                   *)
(***************************************************************************)
EXTENDS LinkedHeap

CONSTANTS
    Values,  \* positive integers
    Wrap     \* size_t counts modulo Wrap

VARIABLES heap, obj  \* obj: [class, head, size, alive, ub]

Classes == {"sorted", "exam", "exam3", "counted", "kontener"}

new(m, v, next) == (Fresh(m) :> [value |-> v, next |-> next]) @@ m

\* Where "while (current->next && Test(current->next->value))" stops.
StopsAt(s, Test(_)) ==
    LET w == Chain(s.mem, s.head)
    IN  w[CHOOSE k \in 1 .. Len(w) :
              /\ \A i \in 2 .. k : Test(s.mem[w[i]].value)
              /\ k < Len(w) => ~Test(s.mem[w[k + 1]].value)]

AsHead(s, v) == [mem |-> new(s.mem, v, s.head), head |-> Fresh(s.mem), size |-> s.size + 1]
Behind(s, c, v) ==
    [s EXCEPT !.mem = [new(s.mem, v, s.mem[c].next) EXCEPT ![c].next = Fresh(s.mem)],
              !.size = @ + 1]

-----------------------------------------------------------------------------
(* 2022-05-16-sorted-list-push: largest first *)

non_sorted_push(s, v) ==
    IF s.head = Nil THEN AsHead(s, v) ELSE Behind(s, StopsAt(s, LAMBDA u : TRUE), v)

\* Mutant: the first node is not compared.
sorted_pushBehind(s, v) ==
    IF s.head = Nil THEN AsHead(s, v) ELSE Behind(s, StopsAt(s, LAMBDA u : u > v), v)

sorted_push(s, v) ==
    IF s.head = Nil \/ s.mem[s.head].value <= v THEN AsHead(s, v)
    ELSE Behind(s, StopsAt(s, LAMBDA u : u > v), v)

\* clear and the destructor give back every node; head_ is left as it is.
clear(s) == [c \in DOMAIN s.mem \ ToSet(Chain(s.mem, s.head)) |-> s.mem[c]]

(* Sandbox/exam_list.hpp: smallest first.  m_tail is never set. *)

exam_non_sorted_push(s, v) ==
    IF s.head = Nil THEN AsHead(s, v) ELSE Behind(s, StopsAt(s, LAMBDA u : TRUE), v)

exam_sorted_push(s, v) ==
    IF s.head = Nil \/ s.mem[s.head].value > v THEN AsHead(s, v)
    ELSE Behind(s, StopsAt(s, LAMBDA u : u <= v), v)

\* Unlinks and deletes the node behind c.
DropNext(s, c) ==
    LET k == s.mem[c].next
    IN  [s EXCEPT !.mem = Freed([s.mem EXCEPT ![c].next = s.mem[k].next], k),
                  !.size = @ - 1]

\* The do loop of pop_different: one node, and more as long as the next two
\* differ.
RECURSIVE DropRun(_, _)
DropRun(s, c) ==
    LET t == DropNext(s, c)
        a == t.mem[c].next
    IN  IF a # Nil /\ t.mem[a].next # Nil /\ t.mem[a].value # t.mem[t.mem[a].next].value
        THEN DropRun(t, c) ELSE t

\* pop_different from c on: skip count - 1 nodes, drop a run, go on behind
\* it.  The skip may end at the last node, behind which there is nothing to
\* drop: ub.
RECURSIVE pop_different(_, _, _)
pop_different(s, c, count) ==
    LET w == Chain(s.mem, c)
        skip == IF count <= s.size THEN w[IF count <= Len(w) THEN count ELSE Len(w)] ELSE c
        t == DropRun(s, skip)
    IN  IF c = Nil THEN s
        ELSE IF Len(w) < 3 THEN pop_different(s, s.mem[c].next, count)
        ELSE IF s.mem[skip].next = Nil THEN [s EXCEPT !.size = -1]
        ELSE pop_different(t, t.mem[skip].next, count)

\* change from c on: of three nodes with an even sum the middle one is
\* deleted and its value put in a node that is linked to nothing; then three
\* nodes are passed, which are one too many if just two are left: ub.
RECURSIVE change(_, _)
change(s, c) ==
    LET w == Chain(s.mem, c)
        even == (s.mem[w[1]].value + s.mem[w[2]].value + s.mem[w[3]].value) % 2 = 0
        t == DropNext(s, c)
        moved == [t EXCEPT !.mem = new(t.mem, s.mem[w[2]].value, Nil), !.size = s.size]
    IN  IF c = Nil THEN s
        ELSE IF Len(w) < 3 THEN change(s, s.mem[c].next)
        ELSE IF ~even THEN change(s, s.mem[w[3]].next)
        ELSE IF Len(w) = 3 THEN [s EXCEPT !.size = -1]
        ELSE change(moved, s.mem[w[4]].next)

(* Sandbox/exam_3.hpp *)

Uncounted(s) == [s EXCEPT !.size = 0]

push_sorted(s, v) == Uncounted(
    IF s.head = Nil \/ s.mem[s.head].value > v THEN AsHead(s, v)
    ELSE Behind(s, StopsAt(s, LAMBDA u : u <= v), v))

push_not_sort(s, v) == Uncounted(
    IF s.head = Nil THEN AsHead(s, v) ELSE Behind(s, StopsAt(s, LAMBDA u : TRUE), v))

\* pop gives the first node back; advance(1) only steps over it.
pop(s) == IF s.head = Nil THEN s
          ELSE [s EXCEPT !.mem = Freed(s.mem, s.head), !.head = s.mem[s.head].next]
advance(s) == [s EXCEPT !.head = s.mem[s.head].next]

(* Sandbox/list.cpp: m_counter is not counted up, but down. *)

push(s, v) ==
    IF s.head = Nil \/ s.mem[s.head].value <= v THEN [AsHead(s, v) EXCEPT !.size = s.size]
    ELSE [Behind(s, StopsAt(s, LAMBDA u : u > v), v) EXCEPT !.size = (s.size - 1) % Wrap]

\* pop_one on a list whose counter is not 0.
pop_one(s) == [mem |-> Freed(s.mem, s.head), head |-> s.mem[s.head].next,
               size |-> (s.size - 1) % Wrap]

\* pop: a node that is the mean of its neighbours goes; otherwise three
\* nodes go at the head.  It ends when fewer than three are left, when
\* pop_one throws (counter 0), and in ub when walker is one of the three.
RECURSIVE popFrom(_, _)
popFrom(s, walker) ==
    LET w == Chain(s.mem, walker)
        three == ToSet(SubSeq(Chain(s.mem, s.head), 1, 3))
        dropped == [DropNext(s, walker) EXCEPT !.size = (s.size - 1) % Wrap]
    IN  IF Len(w) < 3 THEN s
        ELSE IF (s.mem[w[1]].value + s.mem[w[3]].value) \div 2 = s.mem[w[2]].value
        THEN popFrom(dropped, w[3])
        ELSE IF walker \in three /\ s.size >= 3 THEN [s EXCEPT !.size = -1]
        ELSE IF s.size = 0 THEN s
        ELSE IF s.size = 1 THEN pop_one(s)
        ELSE IF s.size = 2 THEN pop_one(pop_one(s))
        ELSE popFrom(pop_one(pop_one(pop_one(s))), w[2])

(* kontener.h *)

kontener_push(s, v) ==
    IF s.head = Nil THEN AsHead(s, v) ELSE Behind(s, StopsAt(s, LAMBDA u : TRUE), v)

\* sorted_push compares with the value that it has moved into the node: of
\* an osoba its strings are left empty, so no value is less than it, and
\* every node goes to the front.
kontener_sorted_push(s, v) == AsHead(s, v)

\* What a move leaves of an osoba: its strings are empty.
Emptied == 0

\* The copy constructor pushes the values of rhs one by one, and push moves
\* what it is given: std::forward<T> makes an rvalue of it.  The nodes of rhs
\* stay, with nothing in them.
kontener_copy(s) ==
    LET moved == [c \in DOMAIN s.mem |-> [s.mem[c] EXCEPT !.value = Emptied]]
    IN  FoldLeft(kontener_push, [mem |-> moved, head |-> Nil, size |-> 0],
                 ValuesFrom(s.mem, s.head))

pop_front(s) == [mem |-> Freed(s.mem, s.head), head |-> s.mem[s.head].next, size |-> s.size - 1]

-----------------------------------------------------------------------------
(* The calls of a client *)

State == [mem |-> heap, head |-> obj.head, size |-> obj.size]
Becomes(s) ==
    /\ heap' = s.mem
    /\ obj' = [obj EXCEPT !.head = s.head, !.size = s.size, !.ub = s.size < 0]
In(class) == obj.class = class /\ obj.alive /\ ~obj.ub

Init ==
    /\ heap = <<>>
    /\ obj \in [class : Classes, head : {Nil}, size : {0}, alive : {TRUE}, ub : {FALSE}]

Unsorted(v) ==
    /\ Room(heap, 1)
    /\ \/ In("sorted") /\ Becomes(non_sorted_push(State, v))
       \/ In("exam") /\ Becomes(exam_non_sorted_push(State, v))
       \/ In("exam3") /\ Becomes(push_not_sort(State, v))
       \/ In("kontener") /\ Becomes(kontener_push(State, v))

Sorted(v) ==
    /\ Room(heap, 1)
    /\ \/ In("sorted") /\ Becomes(sorted_push(State, v))
       \/ In("exam") /\ Becomes(exam_sorted_push(State, v))
       \/ In("exam3") /\ Becomes(push_sorted(State, v))
       \/ In("counted") /\ Becomes(push(State, v))

Stacked(v) == Room(heap, 1) /\ In("kontener") /\ Becomes(kontener_sorted_push(State, v))

PopFront ==
    \/ In("exam3") /\ Becomes(pop(State))
    \/ In("counted") /\ obj.size # 0 /\ obj.head # Nil /\ Becomes(pop_one(State))
    \/ In("kontener") /\ obj.head # Nil /\ Becomes(pop_front(State))

Skip == In("exam3") /\ obj.head # Nil /\ Becomes(advance(State))
PopDifferent(count) == In("exam") /\ Becomes(pop_different(State, obj.head, count))
Change == In("exam") /\ Room(heap, 1) /\ Becomes(change(State, obj.head))
Pop == In("counted") /\ obj.size # 0 /\ Becomes(popFrom(State, obj.head))

\* A copy is made and the original destroyed, or the copy is.
Copy(keep) ==
    LET c == kontener_copy(State)
    IN  /\ In("kontener") /\ Room(heap, obj.size)
        /\ IF keep THEN Becomes([c EXCEPT !.mem = clear([c EXCEPT !.head = obj.head])])
           ELSE Becomes([State EXCEPT !.mem = clear(c)])

\* ~List; the list of exam_list.hpp has none.
Destroy ==
    /\ \E c \in Classes \ {"exam"} : In(c)
    /\ heap' = clear(State)
    /\ obj' = [obj EXCEPT !.alive = FALSE]

Next ==
    \/ \E v \in Values : Unsorted(v) \/ Sorted(v) \/ Stacked(v)
    \/ PopFront \/ Skip \/ Change \/ Pop \/ Destroy
    \/ \E count \in 1 .. 3 : PopDifferent(count)
    \/ \E keep \in BOOLEAN : Copy(keep)

-----------------------------------------------------------------------------
(* Properties *)

Items == ValuesFrom(heap, obj.head)
Descending(s) == \A i, j \in DOMAIN s : i < j => s[i] >= s[j]
Ascending(s) == \A i, j \in DOMAIN s : i < j => s[i] <= s[j]
Ordered(s) == IF obj.class \in {"sorted", "counted"} THEN Descending(s) ELSE Ascending(s)

\* Before the code reads what it may not, the list is a chain of live nodes
\* that size_ counts, the ones that change of exam_list unlinks included.
\* No node is lost but those, and the ones that advance of exam_3 skips.
Sound ==
    obj.alive /\ ~obj.ub =>
        /\ ChainSound(heap, obj.head)
        /\ obj.class \in {"sorted", "exam", "kontener"} => obj.size = Cardinality(DOMAIN heap)
        /\ obj.class \notin {"exam", "exam3"} => DOMAIN heap = ToSet(Chain(heap, obj.head))

\* A sorted push puts the value into its place and moves no other; what is
\* removed leaves the rest in order.  A copy of a kontener holds its values,
\* and the list copied from as many osoby without them.
Refines ==
    LET steady == obj.alive /\ ~obj.ub /\ ~obj'.ub
        removes == \E S \in SUBSET DOMAIN Items :
                       Items' = [i \in 1 .. Cardinality(S) |->
                                   Items[CHOOSE j \in S :
                                       Cardinality({k \in S : k < j}) = i - 1]]
    IN  steady =>
        /\ \A v \in Values :
               /\ Sorted(v) => /\ \E i \in 1 .. Len(Items) + 1 : Items' = InsertAt(Items, i, v)
                               /\ Ordered(Items) => Ordered(Items')
               /\ Unsorted(v) => Items' = Append(Items, v)
               /\ Stacked(v) => Items' = <<v>> \o Items
        /\ PopFront /\ Items # <<>> => Items' = Tail(Items)
        /\ Skip => Items' = Tail(Items)
        /\ Pop \/ Change \/ (\E n \in 1 .. 3 : PopDifferent(n)) => removes
        /\ Copy(TRUE) => UNCHANGED Items
        /\ Copy(FALSE) => Items' = [i \in DOMAIN Items |-> Emptied]
        /\ Destroy => \A c \in DOMAIN heap' : c \notin ToSet(Chain(heap, obj.head))
=============================================================================

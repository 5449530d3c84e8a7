-------------------------------- MODULE Query --------------------------------
(***************************************************************************)
(* Sandbox/query.hpp: a chain of operations on a query::from.  A container *)
(* is the sequence its iteration yields; its kind says how any_push        *)
(* inserts.  "vector" stands for the containers that keep their order      *)
(* (vector, deque, list).  Maps hold pairs <<key, value>>.                 *)
(***************************************************************************)
EXTENDS Integers, Sequences, SequencesExt, FiniteSetsExt

CONSTANTS
    Numbers,    \* elements, keys and mapped values
    MaxChain,   \* bound: operations of a chain
    MaxSize     \* bound: elements of the buffer

VARIABLES heap, obj
\* heap: buffer_ of the from; obj: [kind, container, take, calls] and, of the
\* chain as it is written, the result want: see Sound.

-----------------------------------------------------------------------------
(* container_traits *)

is_associative_container(kind) == kind \in {"map", "multimap"}
is_sequence_container(kind) == ~is_associative_container(kind)
Unique(kind) == kind \in {"set", "map"}
Key(kind, e) == IF is_associative_container(kind) THEN e[1] ELSE e

\* emplace at the end, or where the order puts it unless the key is there.
any_push(kind, c, e) ==
    LET before == {i \in DOMAIN c : Key(kind, c[i]) <= Key(kind, e)}
        there == \E i \in DOMAIN c : Key(kind, c[i]) = Key(kind, e)
    IN  IF kind = "vector" THEN Append(c, e)
        ELSE IF Unique(kind) /\ there THEN c
        ELSE InsertAt(c, Cardinality(before) + 1, e)

-----------------------------------------------------------------------------
(* cast: a text is a sequence of numerals and punctuation. *)

to_string(e) == ToString(e)
same_to_same(to, c) == FoldLeft(LAMBDA r, e : any_push(to, r, e), <<>>, c)
seq_to_string(c) ==
    LET spaced == FoldLeft(LAMBDA r, e : r \o <<to_string(e), " ">>, <<>>, c)
    IN  IF spaced = <<>> THEN <<>> ELSE Front(spaced)
ass_to_seq(to, c) ==
    FoldLeft(LAMBDA r, e : any_push(to, any_push(to, r, e[1]), e[2]), <<>>, c)
ass_to_string(c) ==
    FoldLeft(LAMBDA r, e : r \o <<"(", to_string(e[1]), ", ", to_string(e[2]), ")">>, <<>>, c)
cast(from, to, c) ==
    IF to = "string" THEN (IF is_associative_container(from) THEN ass_to_string(c) ELSE seq_to_string(c))
    ELSE IF is_associative_container(from) /\ is_sequence_container(to) THEN ass_to_seq(to, c)
    ELSE same_to_same(to, c)

-----------------------------------------------------------------------------
(* The policies *)

merge_sequence(kind, target, to_merge) == FoldLeft(LAMBDA r, e : any_push(kind, r, e), target, to_merge)
merge_associative(kind, target, to_merge) == FoldLeft(LAMBDA r, e : any_push(kind, r, e), target, to_merge)
merge(kind, target, to_merge) ==
    IF is_sequence_container(kind) THEN merge_sequence(kind, target, to_merge)
    ELSE merge_associative(kind, target, to_merge)

\* A gate of one value: it compares with it.
Comparators == {"equal_to", "less", "greater_equal"}
Compared(comparator, l, r) ==
    \/ comparator = "equal_to" /\ l = r
    \/ comparator = "less" /\ l < r
    \/ comparator = "greater_equal" /\ l >= r
gate(comparator, value) == [comparator |-> comparator, left |-> value]
compare_with(g, value) == Compared(g.comparator, value, g.left)

\* where_sequence and where_associative: those of the set passing are taken,
\* up to to_take of them; -1 stands for all.
Taking(kind, c, to_take, passing) ==
    LET step(s, e) == IF s.total_found = to_take \/ e \notin passing THEN s
                      ELSE [buffer |-> any_push(kind, s.buffer, e), total_found |-> s.total_found + 1]
    IN  FoldLeft(step, [buffer |-> <<>>, total_found |-> 0], c).buffer
where_sequence(kind, c, to_take, passing) == Taking(kind, c, to_take, passing)
where_associative(kind, c, to_take, passing) == Taking(kind, c, to_take, passing)
\* by_gate and by_lambda of an element, of a key and of a mapped value.
by_gate(kind, c, to_take, g) == where_sequence(kind, c, to_take, {e \in Range(c) : compare_with(g, e)})
by_lambda(kind, c, to_take, lambda) == where_sequence(kind, c, to_take, lambda)
by_policy(kind, c, to_take, policy, g) ==
    where_associative(kind, c, to_take,
        {e \in Range(c) : compare_with(g, e[IF policy = "by_key" THEN 1 ELSE 2])})

\* set_operation: the merges of two sorted ranges, of std.
Count(c, e) == Cardinality({i \in DOMAIN c : c[i] = e})
Multi(n(_)) ==
    FoldLeft(LAMBDA r, e : r \o [i \in 1 .. n(e) |-> e], <<>>, SetToSortSeq(Numbers, <))
IsOrdered(c) == \A i \in 1 .. Len(c) - 1 : c[i] <= c[i + 1]
union_with(c, with) == Multi(LAMBDA e : Max({Count(c, e), Count(with, e)}))
intersect_with(c, with) == Multi(LAMBDA e : Min({Count(c, e), Count(with, e)}))
difference_with(c, with) == Multi(LAMBDA e : Max({Count(c, e) - Count(with, e), 0}))

\* numeric: of what begin points to and all elements; max keeps it in "min".
min(c) == FoldLeft(LAMBDA m, e : IF e < m THEN e ELSE m, c[1], c)
max(c) == FoldLeft(LAMBDA m, e : IF e > m THEN e ELSE m, c[1], c)
sum(c) == FoldLeft(LAMBDA t, e : Append(t, e), <<>>, c)   \* of strings

\* order
sort(c) == SortSeq(c, <)
reverse_sort(c) == Reverse(SortSeq(c, <))
reverse(c) == Reverse(c)

-----------------------------------------------------------------------------
(* class from *)

populate_buffer_if_empty(kind, container, buffer) ==
    IF buffer = <<>> THEN merge(kind, buffer, container) ELSE buffer

Populated == populate_buffer_if_empty(obj.kind, obj.container, heap)
\* What to, min, max and sum read.
View == IF heap = <<>> THEN obj.container ELSE heap
to(target) == cast(obj.kind, target, View)

Kinds == {"vector", "set", "map"}
Elements(kind) == IF kind = "map" THEN Numbers \X Numbers ELSE Numbers
Containers(kind) ==
    {merge(kind, <<>>, s) : s \in {<<>>} \cup {<<e>> : e \in Elements(kind)} \cup (Elements(kind) \X Elements(kind))}

Init ==
    /\ heap = <<>>
    /\ \E kind \in Kinds : \E c \in Containers(kind) :
           obj = [kind |-> kind, container |-> c, take |-> -1, calls |-> 0, want |-> c]

\* An operation that makes result of the buffer, and of a chain want.
Step(result, want) ==
    /\ obj.calls < MaxChain /\ Len(result) <= MaxSize
    /\ heap' = result
    /\ obj' = [obj EXCEPT !.calls = @ + 1,
                          !.want = IF want = <<>> THEN obj.container ELSE want]

Taken(c) == IF obj.take = -1 THEN c ELSE SubSeq(c, 1, Min({obj.take, Len(c)}))
Where(g) ==
    /\ obj.kind # "map"
    /\ Step(by_gate(obj.kind, Populated, obj.take, g),
            Taken(SelectSeq(obj.want, LAMBDA e : compare_with(g, e))))
WhereLambda ==
    /\ obj.kind # "map"
    /\ Step(by_lambda(obj.kind, Populated, obj.take, {e \in Numbers : e % 2 = 0}),
            Taken(SelectSeq(obj.want, LAMBDA e : e % 2 = 0)))
where_key(g) ==
    /\ obj.kind = "map"
    /\ Step(by_policy(obj.kind, Populated, obj.take, "by_key", g),
            Taken(SelectSeq(obj.want, LAMBDA e : compare_with(g, e[1]))))
where_value(g) ==
    /\ obj.kind = "map"
    /\ Step(by_policy(obj.kind, Populated, obj.take, "by_value", g),
            Taken(SelectSeq(obj.want, LAMBDA e : compare_with(g, e[2]))))
take(n) ==
    /\ obj.calls < MaxChain /\ obj.take = -1
    /\ obj' = [obj EXCEPT !.take = n, !.calls = @ + 1]
    /\ UNCHANGED heap
merge_impl(with) ==
    Step(merge(obj.kind, Populated, with), merge(obj.kind, obj.want, with))
Order ==
    /\ obj.kind = "vector"
    /\ \/ Step(sort(Populated), sort(obj.want))
       \/ Step(reverse_sort(Populated), reverse_sort(obj.want))
       \/ Step(reverse(Populated), reverse(obj.want))
SetOperation(with) ==
    /\ obj.kind # "map" /\ IsOrdered(Populated) /\ IsOrdered(obj.want)
    /\ \/ Step(union_with(Populated, with), union_with(obj.want, with))
       \/ Step(intersect_with(Populated, with), intersect_with(obj.want, with))
       \/ Step(difference_with(Populated, with), difference_with(obj.want, with))

Gates == {gate(c, n) : c \in Comparators, n \in Numbers}
Next ==
    \/ \E g \in Gates : Where(g) \/ where_key(g) \/ where_value(g)
    \/ WhereLambda \/ Order
    \/ \E n \in 0 .. 1 : take(n)
    \/ \E with \in Containers(obj.kind) : merge_impl(with) \/ SetOperation(with)

-----------------------------------------------------------------------------
(* Properties *)

\* The chain yields what it says: filters, merges, orders and set operations
\* one after the other.  There is one exception, which want allows for: where
\* a step leaves nothing.  An empty buffer also means that the container was
\* not read yet, so what comes next has the whole container again.
Sound ==
    /\ View = obj.want
    /\ Unique(obj.kind) => \A i, j \in DOMAIN View : i # j => Key(obj.kind, View[i]) # Key(obj.kind, View[j])
    \* Casts keep the elements; texts hold them all, in their order.
    /\ LET flat == IF obj.kind = "map" THEN ass_to_seq("vector", View) ELSE View
           text == SelectSeq(to("string"), LAMBDA t : t \notin {" ", "(", ", ", ")"})
       IN  /\ text = [i \in DOMAIN flat |-> to_string(flat[i])]
           /\ ToSet(to("set")) = ToSet(flat) /\ IsOrdered(to("set"))
           /\ to("multiset") = SortSeq(flat, <)
           /\ obj.kind # "map" /\ View # <<>> =>
                  min(View) = Min(ToSet(View)) /\ max(View) = Max(ToSet(View)) /\ sum(View) = View
=============================================================================

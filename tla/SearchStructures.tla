-------------------------- MODULE SearchStructures --------------------------
(***************************************************************************)
(* The search trees, and the table with open addressing.                   *)
(***************************************************************************)
EXTENDS LinkedHeap

(***************************************************************************)
(* The programs of yandex_tasks/trees and Sandbox/avl_tree.hpp: numbers    *)
(* are read up to a 0 and inserted into a binary search tree of the free   *)
(* store; then each program prints what it is named for and destroys the   *)
(* tree.                                                                   *)
(***************************************************************************)

CONSTANTS
    Digits,     \* numbers that may be read, not 0
    MaxInput    \* bound: how many

VARIABLES heap, obj  \* obj: [program, root, counts, input, out, done]

NewNode(m, key) == (Fresh(m) :> [value |-> key, left |-> Nil, right |-> Nil]) @@ m

\* insert(key, leaf): a key that is there is not inserted again.
RECURSIVE insertAt(_, _, _)
insertAt(m, leaf, key) ==
    LET side == IF key < m[leaf].value THEN "left" ELSE "right"
    IN  IF key = m[leaf].value THEN m
        ELSE IF m[leaf][side] # Nil THEN insertAt(m, m[leaf][side], key)
        ELSE [NewNode(m, key) EXCEPT ![leaf][side] = Fresh(m)]

\* The one of frequency.cpp goes on to the right.
RECURSIVE insertRepeated(_, _, _)
insertRepeated(m, leaf, key) ==
    LET side == IF key < m[leaf].value THEN "left" ELSE "right"
    IN  IF m[leaf][side] # Nil THEN insertRepeated(m, m[leaf][side], key)
        ELSE [NewNode(m, key) EXCEPT ![leaf][side] = Fresh(m)]

RECURSIVE destroy_tree(_, _)
destroy_tree(m, leaf) ==
    IF leaf = Nil THEN m
    ELSE Freed(destroy_tree(destroy_tree(m, m[leaf].left), m[leaf].right), leaf)

RECURSIVE max_depth(_, _)
max_depth(m, leaf) ==
    IF leaf = Nil THEN 0
    ELSE LET l == max_depth(m, m[leaf].left)
             r == max_depth(m, m[leaf].right)
         IN  IF l > r THEN l + 1 ELSE r + 1

RECURSIVE check_if_avl(_, _)
check_if_avl(m, leaf) ==
    \/ leaf = Nil
    \/ /\ max_depth(m, m[leaf].left) - max_depth(m, m[leaf].right) \in -1 .. 1
       /\ check_if_avl(m, m[leaf].left) /\ check_if_avl(m, m[leaf].right)

\* print_in_order of the nodes that Test picks.
RECURSIVE in_order(_, _)
in_order(m, leaf) ==
    IF leaf = Nil THEN <<>>
    ELSE in_order(m, m[leaf].left) \o <<m[leaf]>> \o in_order(m, m[leaf].right)
print_in_order(m, leaf, Test(_)) ==
    LET picked == SelectSeq(in_order(m, leaf), Test) IN [i \in DOMAIN picked |-> picked[i].value]

\* second_largest_element, on s = [value, m_second_max].
RECURSIVE second_largest_element(_, _, _)
second_largest_element(m, leaf, s) ==
    IF leaf = Nil \/ s.value >= 2 THEN s
    ELSE LET r == second_largest_element(m, m[leaf].right, s)
             n == [r EXCEPT !.value = @ + 1]
         IN  IF n.value = 2 THEN [n EXCEPT !.m_second_max = m[leaf].value]
             ELSE second_largest_element(m, m[leaf].left, n)

-----------------------------------------------------------------------------
(* What each program prints; YES and NO are 1 and 0. *)

YesOrNo(b) == IF b THEN <<1>> ELSE <<0>>

avl(m, root) == YesOrNo(check_if_avl(m, root))
avl_tree(m, root) == YesOrNo(check_if_avl(m, root))
tree_height(m, root) == <<max_depth(m, root)>>
second_tree_maximum(m, root) ==
    <<second_largest_element(m, root, [value |-> 0, m_second_max |-> 0]).m_second_max>>
leaf_output(m, root) == print_in_order(m, root, LAMBDA n : n.left = Nil /\ n.right = Nil)
one_child_parents_output(m, root) ==
    print_in_order(m, root, LAMBDA n : (n.left = Nil) # (n.right = Nil))
parents_output(m, root) == print_in_order(m, root, LAMBDA n : n.left # Nil /\ n.right # Nil)
traverse(m, root) == print_in_order(m, root, LAMBDA n : TRUE)

\* print_with_count, from the map and not from the tree.
frequency(counts) ==
    FlattenSeq([k \in 1 .. Len(counts) |-> IF counts[k] = 0 THEN <<>> ELSE <<k, counts[k]>>])

Programs == {"avl", "avl_tree", "tree_height", "second_tree_maximum", "leaf_output",
             "one_child_parents_output", "parents_output", "traverse", "frequency"}

Printed(o, m) ==
    CASE o.program = "avl" -> avl(m, o.root)
      [] o.program = "avl_tree" -> avl_tree(m, o.root)
      [] o.program = "tree_height" -> tree_height(m, o.root)
      [] o.program = "second_tree_maximum" -> second_tree_maximum(m, o.root)
      [] o.program = "leaf_output" -> leaf_output(m, o.root)
      [] o.program = "one_child_parents_output" -> one_child_parents_output(m, o.root)
      [] o.program = "parents_output" -> parents_output(m, o.root)
      [] o.program = "traverse" -> traverse(m, o.root)
      [] o.program = "frequency" -> frequency(o.counts)

-----------------------------------------------------------------------------
Init ==
    /\ heap = <<>>
    /\ obj \in [program : Programs, root : {Nil}, counts : {[k \in Digits |-> 0]},
                input : {<<>>}, out : {<<>>}, done : {FALSE}]

\* A number is read and inserted.
insert(key) ==
    /\ ~obj.done /\ Len(obj.input) < MaxInput
    /\ heap' = IF obj.root = Nil THEN NewNode(heap, key)
               ELSE IF obj.program = "frequency" THEN insertRepeated(heap, obj.root, key)
               ELSE insertAt(heap, obj.root, key)
    /\ obj' = [obj EXCEPT !.root = IF @ = Nil THEN Fresh(heap) ELSE @,
                          !.counts[key] = @ + 1, !.input = Append(@, key)]

\* 0 is read: the program prints, and the tree is destroyed.
Finish ==
    /\ ~obj.done
    /\ heap' = destroy_tree(heap, obj.root)
    /\ obj' = [obj EXCEPT !.out = Printed(obj, heap), !.done = TRUE]

Next == Finish \/ \E key \in Digits : insert(key)

-----------------------------------------------------------------------------
(* Properties *)

InputKeys == ToSet(obj.input)
InOrder(S) == SetToSortSeq(S, <)

\* The tree is one of search, whose order is that of the numbers; each number
\* is a node once, but in frequency.cpp; a node has the children that the
\* numbers read after it, between its neighbours read before it, give it.
\* What is printed follows from the input alone, and no node outlives it.
RECURSIVE Shape(_)
Shape(s) ==  \* <<height, balanced, leaves, one child, two children>> of the tree of s
    IF s = <<>> THEN <<0, TRUE, {}, {}, {}>>
    ELSE LET l == Shape(SelectSeq(Tail(s), LAMBDA k : k < s[1]))
             r == Shape(SelectSeq(Tail(s), LAMBDA k : k > s[1]))
             n == Cardinality({x \in {1, 2} : <<l, r>>[x][1] > 0})
             kids(i) == l[3 + i] \cup r[3 + i] \cup IF n = i THEN {s[1]} ELSE {}
         IN  <<1 + IF l[1] > r[1] THEN l[1] ELSE r[1],
               l[2] /\ r[2] /\ l[1] - r[1] \in -1 .. 1, kids(0), kids(1), kids(2)>>

Expected ==
    LET shape == Shape(obj.input)
    IN  CASE obj.program \in {"avl", "avl_tree"} -> YesOrNo(shape[2])
          [] obj.program = "tree_height" -> <<shape[1]>>
          [] obj.program = "second_tree_maximum" ->
                 IF Cardinality(InputKeys) < 2 THEN <<0>>
                 ELSE <<InOrder(InputKeys)[Cardinality(InputKeys) - 1]>>
          [] obj.program = "leaf_output" -> InOrder(shape[3])
          [] obj.program = "one_child_parents_output" -> InOrder(shape[4])
          [] obj.program = "parents_output" -> InOrder(shape[5])
          [] obj.program = "traverse" -> InOrder(InputKeys)
          [] obj.program = "frequency" ->
                 FlattenSeq([i \in 1 .. Cardinality(InputKeys) |->
                     LET k == InOrder(InputKeys)[i]
                     IN  <<k, Len(SelectSeq(obj.input, LAMBDA j : j = k))>>])

Sound ==
    /\ ~obj.done => traverse(heap, obj.root)
                    = IF obj.program = "frequency" THEN SortSeq(obj.input, <) ELSE InOrder(InputKeys)
    /\ obj.done => DOMAIN heap = {} /\ obj.out = Expected

(***************************************************************************)
(* class OpenAddressingHashMap of Sandbox/hashmap_open_addressing.hpp: a   *)
(* table of keys probed linearly, with tombs in the place of removed keys, *)
(* that doubles at half load.  A key is its own hash, as std::hash<int>    *)
(* has it.  NotPresent, 0, is an empty slot, and also what a failed probe  *)
(* returns as the index: a key in slot 0 is not told from one that is not  *)
(* there.  Slots count from 0.                                             *)
(***************************************************************************)

CONSTANTS
    InitialSizes,  \* the sizes the user may enter
    TableKeys,          \* positive integers
    MaxSize        \* bound: size of the table

NotPresent == 0
Tomb == -1

VARIABLES Table, CurrentSize

TableSize(t) == Cardinality(DOMAIN t)
NewTable(size) == [i \in 0 .. size - 1 |-> NotPresent]

\* The hash of a tomb, asked for in Rehash, is (size_t)-1: 2^64 - 1, which is
\* TombHash modulo the sizes 1, 2, 3, 4, 6, 8, 12 and 24.
TombHash == 15
Home(t, key) == (IF key = Tomb THEN TombHash ELSE key) % TableSize(t)
\* The sum of hash and i is taken modulo 2^64: that of a tomb starts again at 0.
Probe(t, key, i) ==
    IF key = Tomb /\ i > 0 THEN (i - 1) % TableSize(t) ELSE (Home(t, key) + i) % TableSize(t)

\* LinearProbe to put a key: the first slot that is empty or a tomb.
PutProbe(t, key) ==
    LET free == {i \in DOMAIN t : t[Probe(t, key, i)] \in {NotPresent, Tomb}}
    IN  IF free = {} THEN NotPresent
        ELSE Probe(t, key, CHOOSE i \in free : \A j \in free : i <= j)

\* LinearProbe to search one: passes tombs, ends at an empty slot.
SearchProbe(t, key) ==
    LET ends == {i \in DOMAIN t : t[Probe(t, key, i)] \in {NotPresent, key}}
        slot == Probe(t, key, CHOOSE i \in ends : \A j \in ends : i <= j)
    IN  IF ends = {} \/ t[slot] # key THEN NotPresent ELSE slot

\* Add, on s = [t, n], and Rehash, which adds every old entry that is not
\* empty, tombs included, to a table of twice the size.
RECURSIVE Add(_, _), RehashFrom(_, _, _)
Add(s, key) ==
    LET u == [t |-> [s.t EXCEPT ![PutProbe(s.t, key)] = key], n |-> s.n + 1]
    IN  IF 2 * u.n >= TableSize(u.t)
        THEN RehashFrom([u EXCEPT !.t = NewTable(2 * TableSize(u.t))], u.t, 0)
        ELSE u
RehashFrom(s, old, i) ==
    IF i = TableSize(old) THEN s
    ELSE IF old[i] = NotPresent THEN RehashFrom(s, old, i + 1)
    ELSE RehashFrom(Add([s EXCEPT !.n = @ - 1], old[i]), old, i + 1)

\* FindKey returns the entry it finds, or else the one in slot 0.
FindKey(key) == Table[SearchProbe(Table, key)]

-----------------------------------------------------------------------------
OpenInit == (\E size \in InitialSizes : Table = NewTable(size)) /\ CurrentSize = 0

AddKey(key) ==
    LET s == Add([t |-> Table, n |-> CurrentSize], key)
    IN  /\ 2 * TableSize(Table) <= MaxSize \/ 2 * (CurrentSize + 1) < TableSize(Table)
        /\ Table' = s.t /\ CurrentSize' = s.n

RemoveKey(key) ==
    LET i == SearchProbe(Table, key)
    IN  IF i = NotPresent THEN UNCHANGED <<Table, CurrentSize>>
        ELSE /\ Table' = [Table EXCEPT ![i] = Tomb]
             /\ CurrentSize' = CurrentSize - 1

OpenNext == \E key \in TableKeys : AddKey(key) \/ RemoveKey(key)

-----------------------------------------------------------------------------
(* Properties *)

Occurrences(key) == Cardinality({i \in DOMAIN Table : Table[i] = key})

\* Across tombs, growth and collisions a key that is in the table is found,
\* and one that is not is not; CurrentSize counts the keys and no tomb, and
\* stays below half of the table.
OpenSound ==
    /\ \A key \in TableKeys : FindKey(key) = key <=> Occurrences(key) > 0
    /\ CurrentSize = Cardinality({i \in DOMAIN Table : Table[i] \in TableKeys})
    /\ 2 * CurrentSize < TableSize(Table)

\* Add and Remove change the number of one key, by one, also when the table
\* grows; a key in slot 0 is never removed.
OpenRefines ==
    \A key \in TableKeys :
        /\ AddKey(key) => Occurrences(key)' = Occurrences(key) + 1
        /\ RemoveKey(key) /\ Occurrences(key) > 0 =>
               Occurrences(key)' = Occurrences(key) - IF SearchProbe(Table, key) = 0 THEN 0 ELSE 1
        /\ AddKey(key) \/ RemoveKey(key) => \A k \in TableKeys \ {key} : UNCHANGED Occurrences(k)
=============================================================================

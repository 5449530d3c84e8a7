---------------------------- MODULE Algorithms -----------------------------
(***************************************************************************)
(* The algorithms on arrays, graphs and tables, and the construction of    *)
(* SSA form, as operators.                                                 *)
(***************************************************************************)
EXTENDS Integers, Sequences, SequencesExt, FiniteSetsExt, TLC

(***************************************************************************)
(* The sorts of Sandbox/sort.hpp and Sandbox/shell_sort.hpp, on sequences  *)
(* of integers.  Positions count from 1; an iterator is a position, and    *)
(* the end of a range is the one behind it.                                *)
(***************************************************************************)

iter_swap(a, i, j) == [a EXCEPT ![i] = a[j], ![j] = a[i]]
Upto(first, last) == [k \in 1 .. last - first + 1 |-> first + k - 1]

\* std::min_element: the first of the least ones.
min_element(a, first) ==
    CHOOSE i \in first .. Len(a) :
        /\ \A j \in first .. Len(a) : a[i] <= a[j]
        /\ \A j \in first .. i - 1 : a[i] < a[j]

bubble_sort(a) ==
    FoldLeft(LAMBDA b, i :
                 FoldLeft(LAMBDA c, j : IF c[i] < c[j] THEN iter_swap(c, i, j) ELSE c,
                          b, Upto(1, i - 1)),
             a, Upto(1, Len(a)))

\* The inner loop of insertion_sort: begin is one behind it_j.  Nothing stops
\* it at the front but the least element there.
RECURSIVE Sink(_, _)
Sink(a, j) == IF a[j] < a[j - 1] THEN Sink(iter_swap(a, j - 1, j), j - 1) ELSE a
insertion_sort(a) ==
    FoldLeft(Sink, iter_swap(a, 1, min_element(a, 1)), Upto(2, Len(a)))

selection_sort(a) ==
    FoldLeft(LAMBDA b, i : iter_swap(b, i, min_element(b, i)), a, Upto(1, Len(a)))

\* quick_sort of [begin, end): the elements less than the first one are put
\* behind it, which is then exchanged with the last of them.
RECURSIVE quick_sort(_, _, _)
quick_sort(a, begin, end) ==
    LET step(s, i) == IF s.a[i] < s.a[begin]
                      THEN [a |-> iter_swap(s.a, i, s.middle), middle |-> s.middle + 1] ELSE s
        s == FoldLeft(step, [a |-> a, middle |-> begin + 1], Upto(begin + 1, end - 1))
        b == iter_swap(s.a, begin, s.middle - 1)
    IN  IF end <= begin THEN a
        ELSE quick_sort(quick_sort(b, begin, s.middle - 1), s.middle, end)

\* stupid_univer_quick_sort: the last element is the pivot.
partition(a, low, high) ==
    LET step(s, j) == IF s.a[j] <= a[high]
                      THEN [a |-> iter_swap(s.a, s.i + 1, j), i |-> s.i + 1] ELSE s
        s == FoldLeft(step, [a |-> a, i |-> low - 1], Upto(low, high - 1))
    IN  [a |-> iter_swap(s.a, s.i + 1, high), part |-> s.i + 1]
RECURSIVE univer_quick_sort(_, _, _)
univer_quick_sort(a, low, high) ==
    LET p == partition(a, low, high)
    IN  IF low >= high THEN a
        ELSE univer_quick_sort(univer_quick_sort(p.a, low, p.part - 1), p.part + 1, high)

-----------------------------------------------------------------------------
(* Sandbox/shell_sort.hpp, on s = [a, total_swaps].  The four sorts differ  *)
(* in their gaps.                                                           *)

\* One element is moved down in steps of gap while a greater one is there.
RECURSIVE Shift(_, _, _, _)
Shift(s, temporary, j, gap) ==
    IF j > gap /\ temporary < s.a[j - gap]
    THEN Shift([a |-> [s.a EXCEPT ![j] = s.a[j - gap]], total_swaps |-> s.total_swaps + 1],
               temporary, j - gap, gap)
    ELSE [a |-> [s.a EXCEPT ![j] = temporary], total_swaps |-> s.total_swaps + 1]

Pass(s, gap) == FoldLeft(LAMBDA t, i : Shift(t, t.a[i], i, gap), s, Upto(gap + 1, Len(s.a)))
WithGaps(a, gaps) == FoldLeft(Pass, [a |-> a, total_swaps |-> 0], gaps)

RECURSIVE Halves(_), Hibbard(_, _), Sedgewick(_, _)
Halves(gap) == IF gap = 0 THEN <<>> ELSE <<gap>> \o Halves(gap \div 2)
Hibbard(gap, size) ==
    IF gap >= size THEN <<>> ELSE <<gap>> \o Hibbard(gap + 2 ^ gap - 1, size)
Sedgewick(gap, size) ==
    IF gap >= size THEN <<>>
    ELSE <<gap>> \o Sedgewick(gap + 4 ^ gap + 3 * 2 ^ (gap - 1) + 1, size)

shell_sort_shell(a) == WithGaps(a, Halves(Len(a) \div 2))
shell_sort_hibbard(a) == WithGaps(a, Hibbard(1, Len(a)))
shell_sort_sedgewick(a) == WithGaps(a, Sedgewick(1, Len(a)))

shell_sort_own_1(a) == WithGaps(a, Reverse(Upto(1, Len(a))))

\* create_descending_order_range: digit is static, so a call starts where the
\* one before it was told to; integers wrap at Wrap.
create_descending_order_range(digit, size, wrap) ==
    [range |-> [i \in 1 .. size |-> (digit - (i - 1)) % wrap], digit |-> size - 1]

-----------------------------------------------------------------------------
(* Properties *)

\* Every sort orders every array: what sort_assert demands of the four shell
\* sorts, and no element is lost or made up.  They count a swap for each
\* element of each pass, and the own one never fewer than the others.
SortingSound(a) ==
    LET sorted == SortSeq(a, <)
        shells == <<shell_sort_shell(a), shell_sort_hibbard(a),
                    shell_sort_sedgewick(a), shell_sort_own_1(a)>>
    IN  /\ bubble_sort(a) = sorted
        /\ a # <<>> => insertion_sort(a) = sorted
        /\ selection_sort(a) = sorted
        /\ quick_sort(a, 1, Len(a) + 1) = sorted
        /\ univer_quick_sort(a, 1, Len(a)) = sorted
        /\ \A i \in 1 .. 4 : /\ shells[i].a = sorted
                             /\ Len(a) > 1 => shells[i].total_swaps >= Len(a) - 1
        \* Of two ranges of growing size only the first one is descending.
        /\ LET n == Len(a)
               first == create_descending_order_range(n - 1, n, 16)
               second == create_descending_order_range(first.digit, n + 1, 16)
           IN  /\ first.range = Reverse(Upto(0, n - 1))
               /\ Last(second.range) = 15

(***************************************************************************)
(* Sandbox/dijkstra.hpp and 2022-05-28-Prim-algorithm/main.cpp.  Vertices  *)
(* count from 0.                                                           *)
(***************************************************************************)

-----------------------------------------------------------------------------
(* class dijkstra_implementation; g[i] is array[i - 1], 0 where there is no *)
(* edge.                                                                    *)

Infinite == 2147483647   \* numeric_limits<int32_t>::max()

at_pointer(g, vertices, x, y) == g[vertices * y + x + 1]

valid_graph(g, vertices) ==
    \A i, j \in 0 .. vertices - 1 : at_pointer(g, vertices, i, j) = at_pointer(g, vertices, j, i)

\* The last one of the nearest vertices that are not in the tree.
min_distance(dist, spt_set) ==
    Max({i \in DOMAIN dist \ spt_set : \A j \in DOMAIN dist \ spt_set : dist[i] <= dist[j]})

\* Mutant: a vertex of no edge to u is taken for a neighbour.
relaxAll(g, vertices, s) ==
    LET u == min_distance(s.dist, s.spt_set)
        d(v) == s.dist[u] + at_pointer(g, vertices, u, v)
    IN  [spt_set |-> s.spt_set \cup {u},
         dist |-> [v \in DOMAIN s.dist |->
             IF /\ v \notin s.spt_set \cup {u}
                /\ s.dist[u] # Infinite /\ d(v) < s.dist[v]
             THEN d(v) ELSE s.dist[v]]]

\* A round of compute.  From a vertex that is not reached nothing is nearer
\* than Infinite; the test against the maximum of size_t never applies.
relax(g, vertices, s) ==
    LET u == min_distance(s.dist, s.spt_set)
        d(v) == s.dist[u] + at_pointer(g, vertices, u, v)
    IN  [spt_set |-> s.spt_set \cup {u},
         dist |-> [v \in DOMAIN s.dist |->
             IF /\ v \notin s.spt_set \cup {u} /\ at_pointer(g, vertices, u, v) # 0
                /\ s.dist[u] # Infinite /\ d(v) < s.dist[v]
             THEN d(v) ELSE s.dist[v]]]

compute(g, vertices, src) ==
    FoldLeft(LAMBDA s, i : relax(g, vertices, s),
             [dist |-> [v \in 0 .. vertices - 1 |-> IF v = src THEN 0 ELSE Infinite],
              spt_set |-> {}],
             [i \in 1 .. vertices - 1 |-> i]).dist

\* compute throws unless it finds these distances, and the graph the text of
\* dijkstra_test has, which the function does not put into its array.
assert_array == <<0, 4, 12, 19, 21, 11, 9, 8, 14>>
dijkstra_test == <<
    0,  4,  0,  0,  0,  0,  0,  8,  0,
    4,  0,  8,  0,  0,  0,  0, 11,  0,
    0,  8,  0,  7,  0,  4,  0,  0,  2,
    0,  0,  7,  0,  9, 14,  0,  0,  0,
    0,  0,  0,  9,  0, 10,  0,  0,  0,
    0,  0,  4, 14, 10,  0,  2,  0,  0,
    0,  0,  0,  0,  0,  2,  0,  1,  6,
    8, 11,  0,  0,  0,  0,  1,  0,  7,
    0,  0,  2,  0,  0,  0,  6,  7,  0>>

-----------------------------------------------------------------------------
(* Prim: g[u] is the sequence of <<vertex, weight>> of vertex u.           *)

INF == 1061109567   \* 0x3f3f3f3f

AddEdge(g, u, v, weight) ==
    LET h == [g EXCEPT ![u] = Append(@, <<v, weight>>)]
    IN  [h EXCEPT ![v] = Append(@, <<u, weight>>)]

\* The body of the loop over Graph[U], and the loop over the queue, which
\* holds <<key, vertex>>; no pair is there twice, as keys only fall.
Improve(s, u, edge) ==
    IF edge[1] \notin s.visited /\ s.key[edge[1]] > edge[2]
    THEN [s EXCEPT !.key[edge[1]] = edge[2], !.queue = @ \cup {<<edge[2], edge[1]>>},
                   !.parent[edge[1]] = u]
    ELSE s
RECURSIVE PrimLoop(_, _)
PrimLoop(g, s) ==
    LET top == CHOOSE p \in s.queue : \A q \in s.queue : p[1] < q[1] \/ (p[1] = q[1] /\ p[2] <= q[2])
        u == top[2]
        popped == [s EXCEPT !.queue = @ \ {top}]
    IN  IF s.queue = {} THEN s
        ELSE IF u \in s.visited THEN PrimLoop(g, popped)
        ELSE PrimLoop(g, FoldLeft(LAMBDA t, edge : Improve(t, u, edge),
                                  [popped EXCEPT !.visited = @ \cup {u}], g[u]))

\* The parents that Prim prints.
Prim(g, n) ==
    PrimLoop(g, [queue |-> {<<0, 0>>}, key |-> [v \in 0 .. n - 1 |-> IF v = 0 THEN 0 ELSE INF],
                 parent |-> [v \in 0 .. n - 1 |-> -1], visited |-> {}]).parent

-----------------------------------------------------------------------------
(* Properties.  w maps each pair <<u, v>>, u < v, of vertices to the weight *)
(* of its edge, 0 where there is none.                                      *)

Weight(w, u, v) == IF u = v THEN 0 ELSE IF u < v THEN w[<<u, v>>] ELSE w[<<v, u>>]
Neighbours(w, n, u) == {v \in 0 .. n - 1 : Weight(w, u, v) > 0}
AsArray(w, n) == [i \in 1 .. n * n |-> Weight(w, (i - 1) % n, (i - 1) \div n)]
AsLists(w, n) ==
    FoldLeft(LAMBDA g, e : IF w[e] = 0 THEN g ELSE AddEdge(g, e[1], e[2], w[e]),
             [v \in 0 .. n - 1 |-> <<>>], SetToSeq(DOMAIN w))

RECURSIVE Component(_, _, _)
Component(w, n, S) ==
    LET T == S \cup UNION {Neighbours(w, n, u) : u \in S}
    IN  IF T = S THEN S ELSE Component(w, n, T)
Cost(w, E) == MapThenSumSet(LAMBDA e : w[e], E)
Spans(w, n, E) ==
    Component([e \in DOMAIN w |-> IF e \in E THEN 1 ELSE 0], n, {0}) = Component(w, n, {0})

\* The distances are what shortest paths have: no edge shortens one, each is
\* reached over an edge, and just the vertices of the component of src are;
\* for every source.
DijkstraSound(w, n) ==
    LET g == AsArray(w, n)
    IN  /\ valid_graph(g, n)
        /\ \A src \in 0 .. n - 1 :
               LET d == compute(g, n, src)
               IN  /\ d[src] = 0
                   /\ \A v \in 0 .. n - 1 : d[v] # Infinite <=> v \in Component(w, n, {src})
                   /\ \A v \in Component(w, n, {src}) :
                          /\ \A u \in Neighbours(w, n, v) : d[v] <= d[u] + Weight(w, u, v)
                          /\ v # src => \E u \in Neighbours(w, n, v) : d[v] = d[u] + Weight(w, u, v)

\* The graph of the text has the distances that compute asserts.
AssertedDistances ==
    LET d == compute(dijkstra_test, 9, 0) IN [i \in 1 .. 9 |-> d[i - 1]] = assert_array

\* The parents form a tree that spans the component of vertex 0 at the least
\* cost of all that do; a vertex outside of it has none.
PrimSound(w, n) ==
    LET parent == Prim(AsLists(w, n), n)
        inner == Component(w, n, {0})
        edge(v) == IF parent[v] < v THEN <<parent[v], v>> ELSE <<v, parent[v]>>
        tree == {edge(v) : v \in inner \ {0}}
        edges == {e \in DOMAIN w : w[e] > 0 /\ e[1] \in inner}
    IN  /\ \A v \in 0 .. n - 1 : parent[v] = -1 <=> v \notin inner \ {0}
        /\ tree \subseteq edges /\ Spans(w, n, tree)
        /\ \A E \in kSubset(Cardinality(inner) - 1, edges) :
               Spans(w, n, E) => Cost(w, tree) <= Cost(w, E)

(***************************************************************************)
(* 2022-05-22-longest-common-subsequence, 2022-02-22-maximum-subarray,     *)
(* 2022-02-06-leetcode-solutions and the number of                         *)
(* 2021-12-06-simple-list-reverse.  Texts are sequences of characters.     *)
(***************************************************************************)

\* compute_longest_common_subsequence.  The first row is cleared as far as
\* string is long: behind that dp[0][j] is what was there, junk.
compute_longest_common_subsequence(string, substring, junk) ==
    LET dp[i \in 0 .. Len(string), j \in 0 .. Len(substring)] ==
            IF j = 0 THEN 0
            ELSE IF i = 0 THEN (IF j <= Len(string) THEN 0 ELSE junk)
            ELSE IF string[i] = substring[j] THEN dp[i - 1, j - 1] + 1
            ELSE Max({dp[i, j - 1], dp[i - 1, j]})
    IN  dp[Len(string), Len(substring)]

-----------------------------------------------------------------------------
(* Maximum subarray: ranges [low, high) that count from 0. *)

At(array, i) == array[i + 1]
array_info(begin, end, sum) == [begin |-> begin, end |-> end, sum |-> sum]
Greater(x, y) == IF x.sum < y.sum THEN y ELSE x  \* std::max

max_crossing_subarray(array, low, mid, high) ==
    LET leftStep(s, i) ==
            LET sum == s.sum + At(array, i)
            IN  IF i = mid - 1 \/ sum > s.best THEN [sum |-> sum, best |-> sum, at |-> i]
                ELSE [s EXCEPT !.sum = sum]
        rightStep(s, i) ==
            LET sum == s.sum + At(array, i)
            IN  IF i = mid \/ sum > s.best THEN [sum |-> sum, best |-> sum, at |-> i + 1]
                ELSE [s EXCEPT !.sum = sum]
        start == [sum |-> 0, best |-> 0, at |-> 0]
        l == FoldLeft(leftStep, start, [k \in 1 .. mid - low |-> mid - k])
        r == FoldLeft(rightStep, start, [k \in 1 .. high - mid |-> mid + k - 1])
    IN  array_info(l.at, r.at, l.best + r.best)

RECURSIVE max_subarray(_, _, _)
max_subarray(array, low, high) ==
    LET mid == (low + high) \div 2
    IN  IF low = high - 1 THEN array_info(low, high, At(array, low))
        ELSE Greater(Greater(max_subarray(array, low, mid), max_subarray(array, mid, high)),
                     max_crossing_subarray(array, low, mid, high))

\* The same code in Sandbox/maximum_subarray.hpp.
sandbox_max_crossing_subarray(array, low, mid, high) ==
    max_crossing_subarray(array, low, mid, high)
sandbox_max_subarray(array, low, high) == max_subarray(array, low, high)

-----------------------------------------------------------------------------
(* leetcode *)

\* two_sum: emplace keeps the first index of a number.
two_sum(numbers, target) ==
    LET Hit(i) == \E j \in 1 .. i - 1 : numbers[j] = target - numbers[i]
        hits == {i \in DOMAIN numbers : Hit(i)}
        i == Min(hits)
    IN  IF hits = {} THEN <<0, 0>>
        ELSE <<Min({j \in 1 .. i - 1 : numbers[j] = target - numbers[i]}) - 1, i - 1>>

priorities == [I |-> 1, V |-> 2, X |-> 3, L |-> 4, C |-> 5, D |-> 6, M |-> 7]
worth == [I |-> 1, V |-> 5, X |-> 10, L |-> 50, C |-> 100, D |-> 500, M |-> 1000]

\* One symbol of roman_to_int: what stands before a greater one was added
\* and has to be taken off twice.
RomanStep(s, symbol) ==
    LET above(x) == priorities[symbol] > priorities[x]
        ones == IF above("I") THEN s.ones ELSE 0
        tens == IF above("X") THEN s.tens ELSE 0
        hundreds == IF above("C") THEN s.hundreds ELSE 0
    IN  IF symbol = "I" THEN [s EXCEPT !.output = @ + 1, !.ones = @ + 1]
        ELSE [output |-> s.output + worth[symbol] - 2 * ones - 20 * tens - 200 * hundreds,
              ones |-> s.ones - ones,
              tens |-> s.tens - tens + IF symbol = "X" THEN 1 ELSE 0,
              hundreds |-> s.hundreds - hundreds + IF symbol = "C" THEN 1 ELSE 0]
roman_to_int(input) ==
    FoldLeft(RomanStep, [output |-> 0, ones |-> 0, tens |-> 0, hundreds |-> 0], input).output

\* is_valid: a closing bracket must match the top; a failure sticks.
is_valid(input) ==
    LET closes == [p \in {")", "}", "]"} |-> IF p = ")" THEN "(" ELSE IF p = "}" THEN "{" ELSE "["]
        step(s, c) == IF ~s.ok THEN s
                      ELSE IF c \notin DOMAIN closes THEN [s EXCEPT !.parens = Append(@, c)]
                      ELSE IF s.parens = <<>> \/ Last(s.parens) # closes[c] THEN [s EXCEPT !.ok = FALSE]
                      ELSE [s EXCEPT !.parens = Front(@)]
        end == FoldLeft(step, [ok |-> TRUE, parens |-> <<>>], input)
    IN  end.ok /\ end.parens = <<>>

-----------------------------------------------------------------------------
(* big_int: the digits in a list from the last to the first, behind a sign. *)

big_int(s) == [sign |-> Head(s), digits |-> Reverse(Tail(s))]
to_string_original(b) == <<b.sign>> \o b.digits
to_string(b) == <<b.sign>> \o Reverse(b.digits)

-----------------------------------------------------------------------------
(* Properties *)

Picked(s, S) ==  \* the subsequence of s at the positions of S
    LET at == SetToSortSeq(S, <) IN [i \in DOMAIN at |-> s[at[i]]]

\* The length is that of a longest common subsequence, as long as substring
\* is no longer than string; otherwise it may count what was in memory.
LcsSound(s, t) ==
    LET common == {Picked(s, S) : S \in SUBSET DOMAIN s} \cap {Picked(t, S) : S \in SUBSET DOMAIN t}
        longest == Max({Len(c) : c \in common})
    IN  \A junk \in {0, 3} :
            Len(t) <= Len(s) \/ junk = 0 => compute_longest_common_subsequence(s, t, junk) = longest

\* No range sums to more than the one found, which has that sum.
SubarraySound(array) ==
    LET sum(l, h) == FoldLeft(+, 0, SubSeq(array, l + 1, h))
        found == sandbox_max_subarray(array, 0, Len(array))
    IN  /\ found.begin < found.end /\ found.sum = sum(found.begin, found.end)
        /\ \A l \in 0 .. Len(array) - 1 : \A h \in l + 1 .. Len(array) : sum(l, h) <= found.sum
        /\ \A mid \in 1 .. Len(array) - 1 :
               LET c == sandbox_max_crossing_subarray(array, 0, mid, Len(array))
               IN  c.begin < mid /\ mid < c.end /\ c.sum = sum(c.begin, c.end)

\* The two indices are those of different numbers that add up to target;
\* 0, 0 is answered only when there are none.
TwoSumSound(numbers, target) ==
    LET r == two_sum(numbers, target)
        pairs == {p \in (DOMAIN numbers) \X (DOMAIN numbers) :
                      p[1] < p[2] /\ numbers[p[1]] + numbers[p[2]] = target}
    IN  IF pairs = {} THEN r = <<0, 0>> ELSE <<r[1] + 1, r[2] + 1>> \in pairs

\* The numeral of every number up to 3999 is read as that number.
Numeral(n) ==
    LET digit(d, one, five, ten) ==
            CASE d < 4 -> [i \in 1 .. d |-> one]
              [] d = 4 -> <<one, five>>
              [] d = 9 -> <<one, ten>>
              [] OTHER -> <<five>> \o [i \in 1 .. d - 5 |-> one]
    IN  [i \in 1 .. n \div 1000 |-> "M"] \o digit((n \div 100) % 10, "C", "D", "M")
        \o digit((n \div 10) % 10, "X", "L", "C") \o digit(n % 10, "I", "V", "X")
RomanSound(n) == roman_to_int(Numeral(n)) = n

\* A text is valid just when it vanishes as neighbours that match are taken
\* out of it.
RECURSIVE Vanishes(_)
Vanishes(s) ==
    LET match == {i \in 1 .. Len(s) - 1 :
                      <<s[i], s[i + 1]>> \in {<<"(", ")">>, <<"{", "}">>, <<"[", "]">>}}
        i == Min(match)
    IN  \/ s = <<>>
        \/ match # {} /\ Vanishes(RemoveAt(RemoveAt(s, i), i))
ParensSound(s) == is_valid(s) <=> Vanishes(s)

\* to_string gives the text back that the number was made from; the original
\* order is the reverse of it behind the sign.
BigIntSound(s) ==
    /\ to_string(big_int(s)) = s
    /\ Tail(to_string_original(big_int(s))) = Reverse(Tail(s))

(***************************************************************************)
(* 2022-06-04-boost-multi-index/complex.cpp: the cars of a manufacturer in *)
(* a range of prices, listed by way of two indices of a multi_index table. *)
(* A car is <<model, manufacturer, price>>; an ordered_non_unique index    *)
(* keeps what has equal keys in the order of insertion.                    *)
(***************************************************************************)

\* ordered_unique by model: a model that is there already is not inserted.
insert(table, car) == IF \E i \in DOMAIN table : table[i][1] = car[1] THEN table ELSE Append(table, car)
write_in_car_table(cars) == FoldLeft(insert, <<>>, cars)

\* An index with the key of field f: a stable order.
Index(cars, f) ==
    LET before(i, j) == cars[i][f] < cars[j][f] \/ (cars[i][f] = cars[j][f] /\ i < j)
        at == SetToSortSeq(DOMAIN cars, before)
    IN  [i \in DOMAIN at |-> cars[at[i]]]
by_price(cars) == Index(cars, 3)
by_manufacturer(cars) == Index(cars, 2)

\* From lower_bound to upper_bound; a walk whose end is before its begin
\* leaves the index.
price_range(index, min, max) ==
    LET lower == Cardinality({i \in DOMAIN index : index[i][3] < min})
        upper == Cardinality({i \in DOMAIN index : index[i][3] <= max})
    IN  [overrun |-> lower > upper, cars |-> SubSeq(index, lower + 1, upper)]
equal_range(index, name) == SelectSeq(index, LAMBDA car : car[2] = name)

method_1(cars, name, min, max) == price_range(by_price(equal_range(by_manufacturer(cars), name)), min, max)
method_2(cars, name, min, max) ==
    LET range == price_range(by_price(cars), min, max)
    IN  [range EXCEPT !.cars = equal_range(by_manufacturer(@), name)]

\* main: "none" where the table has no such manufacturer or no such car.
main(cars, name, min, max) ==
    LET table == write_in_car_table(cars)
        one == method_1(table, name, min, max)
        two == method_2(table, name, min, max)
    IN  IF \A i \in DOMAIN cars : cars[i][2] # name THEN "none"
        ELSE IF one.overrun THEN "overrun"
        ELSE IF one.cars = <<>> THEN "none"
        ELSE IF two.overrun THEN "overrun" ELSE "listed"

-----------------------------------------------------------------------------
(* Properties *)

\* The two methods list the same cars in the same order, by price, and they
\* are the ones asked for.  A walk leaves the table just when the prices are
\* the wrong way around and some car of the manufacturer costs between them.
ListingSound(cars, name, min, max) ==
    LET table == write_in_car_table(cars)
        one == method_1(table, name, min, max)
        wanted == {car \in ToSet(table) : car[2] = name /\ min <= car[3] /\ car[3] <= max}
    IN  /\ min <= max => /\ one = method_2(table, name, min, max) /\ ToSet(one.cars) = wanted
                         /\ Len(one.cars) = Cardinality(wanted)
                         /\ \A i \in 1 .. Len(one.cars) - 1 : one.cars[i][3] <= one.cars[i + 1][3]
        /\ main(cars, name, min, max) = "overrun" <=>
               \E car \in ToSet(table) : car[2] = name /\ max < car[3] /\ car[3] < min

(***************************************************************************)
(* Sandbox/ssa_form.hpp: a control flow graph is built from a syntax tree, *)
(* its dominators and dominance frontiers are computed, phi nodes are put  *)
(* in, and every variable is renamed.                                      *)
(*                                                                         *)
(* Blocks are 1 .. n, the entry first.  A graph g is the sequence of the   *)
(* Succs of each block.  A tree is <<"assign", variable, used>>,           *)
(* <<"if", used, then, else>> or <<"binary", lhs, rhs>>; used is a         *)
(* variable, or "number": of an expression only the variables matter, and  *)
(* one is enough.  Visiting a number, a symbol or a for loop builds        *)
(* nothing.                                                                *)
(***************************************************************************)

NoBlock == 0   \* Dominator of the entry, which the code leaves unset

-----------------------------------------------------------------------------
(* class CFG *)

\* PredOrderDFS: the blocks in order are the visited ones.
RECURSIVE PredOrderDFS(_, _, _)
PredOrderDFS(g, order, block) ==
    FoldLeft(LAMBDA o, next : IF next \in ToSet(o) THEN o ELSE PredOrderDFS(g, o, next),
             Append(order, block), g[block])

ComputePredOrder(g) == PredOrderDFS(g, <<>>, 1)

RECURSIVE PostOrderDFS(_, _, _)
PostOrderDFS(g, s, block) ==
    LET t == FoldLeft(LAMBDA u, next : IF next \in u.visited THEN u ELSE PostOrderDFS(g, u, next),
                      [s EXCEPT !.visited = @ \cup {block}], g[block])
    IN  [t EXCEPT !.order = Append(@, block)]

ComputePostOrder(g) == PostOrderDFS(g, [visited |-> {}, order |-> <<>>], 1).order

\* DomDFS: what is reached past the visited blocks.
RECURSIVE DomDFS(_, _, _)
DomDFS(g, visited, block) ==
    IF block \in visited THEN visited
    ELSE FoldLeft(LAMBDA v, next : DomDFS(g, v, next), visited \cup {block}, g[block])

\* ComputeDominatorTree: the last block in order without which a block is not
\* reached.
ComputeDominatorTree(g) ==
    LET step(dom, it) ==
            LET reached == DomDFS(g, {it}, 1)
            IN  [b \in DOMAIN g |-> IF b \notin reached THEN it ELSE dom[b]]
    IN  FoldLeft(step, [b \in DOMAIN g |-> NoBlock], ComputePredOrder(g))

DominatingBlocks(g, dom, x) ==
    SelectSeq([b \in DOMAIN g |-> b], LAMBDA b : dom[b] = x)

ComputeBaseDominanceFrontier(g, dom) ==
    LET step(df, x) ==
            LET below == UNION {df[z] : z \in ToSet(DominatingBlocks(g, dom, x))}
            IN  [df EXCEPT ![x] = @ \cup {y \in ToSet(g[x]) \cup below : dom[y] # x}]
    IN  FoldLeft(step, [b \in DOMAIN g |-> {}], ComputePostOrder(g))

GetMergedDominanceFrontierFromSubset(df, subset) == UNION {df[v] : v \in subset}

\* The loop of GetDominanceFrontierForSubset.
RECURSIVE FrontierLoop(_, _, _, _)
FrontierLoop(df, subset, dfp, result) ==
    LET merged == GetMergedDominanceFrontierFromSubset(df, dfp \cup subset)
    IN  IF merged = result THEN result ELSE FrontierLoop(df, subset, merged, merged)

GetDominanceFrontierForSubset(df, subset) ==
    FrontierLoop(df, subset, GetMergedDominanceFrontierFromSubset(df, subset), {})

-----------------------------------------------------------------------------
(* class CFGBuilder.  Its state is [succs, preds, stmts, current, blocks]; *)
(* a statement has a type, the variable it defines with its SSA index, and *)
(* the one it uses with its index, or for a phi the index by predecessor.  *)

IRAssignment(v, u) == [type |-> "ASSIGN", var |-> v, index |-> 0, used |-> u, from |-> 0]
IRBranch(u) == [type |-> "BRANCH", var |-> "none", index |-> 0, used |-> u, from |-> 0]
IRPhiNode(v, preds) ==
    [type |-> "PHI", var |-> v, index |-> 0, used |-> "none", from |-> [p \in preds |-> 0]]

AddLink(s, pred, succ) ==
    [s EXCEPT !.preds[succ] = IF pred \in ToSet(@) THEN @ ELSE Append(@, pred),
              !.succs[pred] = IF succ \in ToSet(@) THEN @ ELSE Append(@, succ)]
AddStatement(s, stmt) == [s EXCEPT !.stmts[s.current] = Append(@, stmt)]

CreateBlock(s) ==
    [s EXCEPT !.succs = Append(@, <<>>), !.preds = Append(@, <<>>), !.stmts = Append(@, <<>>)]
CFGBuilder(variables) ==
    [succs |-> << <<>> >>, preds |-> << <<>> >>, stmts |-> << <<>> >>, current |-> 1,
     blocks |-> [v \in variables |-> {}]]

CreateBranch(s, target) == AddStatement(AddLink(s, s.current, target), IRBranch("number"))
CreateConditionalBranch(s, condition, then, else) ==
    AddStatement(AddLink(AddLink(s, s.current, then), s.current, else), IRBranch(condition))

VisitAssign(s, tree) ==
    AddStatement([s EXCEPT !.blocks[tree[2]] = @ \cup {s.current}], IRAssignment(tree[2], tree[3]))

RECURSIVE Visit(_, _)
VisitIf(s, tree) ==
    LET n == Len(s.succs)
        cond == CreateConditionalBranch(CreateBlock(CreateBlock(CreateBlock(s))),
                                        tree[2], n + 1, n + 2)
        then == CreateBranch(Visit([cond EXCEPT !.current = n + 1], tree[3]), n + 3)
        else == CreateBranch(Visit([then EXCEPT !.current = n + 2], tree[4]), n + 3)
    IN  [else EXCEPT !.current = n + 3]
VisitBinary(s, tree) == Visit(Visit(s, tree[2]), tree[3])
Visit(s, tree) ==
    CASE tree[1] = "assign" -> VisitAssign(s, tree)
      [] tree[1] = "if" -> VisitIf(s, tree)
      [] tree[1] = "binary" -> VisitBinary(s, tree)

\* InsertPhiNodes: in front of the statements of each block of the frontier.
InsertPhiNodes(s, df, variables) ==
    FoldLeft(LAMBDA t, v :
                 LET frontier == GetDominanceFrontierForSubset(df, t.blocks[v])
                 IN  [t EXCEPT !.stmts = [b \in DOMAIN @ |->
                         IF b \in frontier
                         THEN <<IRPhiNode(v, ToSet(t.preds[b]))>> \o @[b] ELSE @[b]]],
             s, variables)

-----------------------------------------------------------------------------
(* class SSABuilder, on r = [stmts, counter, stack] *)

Back(r) == Last(r.stack)
Define(r, b, i) == [r EXCEPT !.stmts[b][i].index = r.counter,
                             !.stack = Append(@, r.counter), !.counter = @ + 1]

\* AllVarsUsedInStatement: of an assignment the right side, of a branch the
\* condition.
AllVarsUsedInStatement(stmt) == IF stmt.used = "number" THEN {} ELSE {stmt.used}

\* One statement of the first loop of TraverseBlockWithVar.
RenameStatement(r, b, i, v) ==
    LET stmt == r.stmts[b][i]
        used == IF stmt.type # "PHI" /\ v \in AllVarsUsedInStatement(stmt)
                THEN [r EXCEPT !.stmts[b][i].from = Back(r)] ELSE r
    IN  IF stmt.type \in {"PHI", "ASSIGN"} /\ stmt.var = v THEN Define(used, b, i) ELSE used

\* The second loop: the arguments of the phi nodes of a successor.
RenamePhis(r, b, succ, v) ==
    [r EXCEPT !.stmts[succ] = [i \in DOMAIN @ |->
        IF @[i].type = "PHI" /\ @[i].var = v /\ b \in DOMAIN @[i].from
        THEN [@[i] EXCEPT !.from[b] = Back(r)] ELSE @[i]]]

\* TraverseBlockWithVar; what a phi has pushed is not popped at the end.
RECURSIVE TraverseBlockWithVar(_, _, _, _, _)
TraverseBlockWithVar(g, dom, r, b, v) ==
    LET own == FoldLeft(LAMBDA q, i : RenameStatement(q, b, i, v), r,
                        [i \in DOMAIN r.stmts[b] |-> i])
        phis == FoldLeft(LAMBDA q, succ : RenamePhis(q, b, succ, v), own, g[b])
        below == FoldLeft(LAMBDA q, child : TraverseBlockWithVar(g, dom, q, child, v), phis,
                          DominatingBlocks(g, dom, b))
        assigned == SelectSeq(r.stmts[b], LAMBDA stmt : stmt.type = "ASSIGN" /\ stmt.var = v)
    IN  [below EXCEPT !.stack = SubSeq(@, 1, Len(@) - Len(assigned))]

RenameVarToSSAForm(g, dom, stmts, v) ==
    TraverseBlockWithVar(g, dom, [stmts |-> stmts, counter |-> 0, stack |-> <<>>], 1, v).stmts

\* Traverse of every tree, and CommitSSAFormBuilding.  The variables come in
\* the order of BlocksForVariable.
Built(trees, variables) == FoldLeft(Visit, CFGBuilder(ToSet(variables)), trees)
CommitSSAFormBuilding(trees, variables) ==
    LET s == Built(trees, variables)
        dom == ComputeDominatorTree(s.succs)
        phi == InsertPhiNodes(s, ComputeBaseDominanceFrontier(s.succs, dom), variables)
    IN  [phi EXCEPT !.stmts = FoldLeft(LAMBDA stmts, v : RenameVarToSSAForm(s.succs, dom, stmts, v),
                                       @, variables)]

-----------------------------------------------------------------------------
(* Properties *)

\* The reference: d dominates b when every way from the entry to b meets d.
RECURSIVE Closure(_, _, _)
Closure(g, without, seen) ==
    LET more == seen \cup {n \in DOMAIN g \ without : \E b \in seen : n \in ToSet(g[b])}
    IN  IF more = seen THEN seen ELSE Closure(g, without, more)
Reached(g, without) == Closure(g, without, {1} \ without)
Dominates(g, d, b) == b \notin Reached(g, {d})
StrictlyDominates(g, d, b) == d # b /\ Dominates(g, d, b)

\* The dominator that is computed is the nearest one, the frontier of a block
\* is where its dominance ends, and the iterated frontier is the least set
\* closed under that, for every graph whose blocks are all reached, with
\* loops, of the entry too.
GraphSound(g) ==
    LET dom == ComputeDominatorTree(g)
        df == ComputeBaseDominanceFrontier(g, dom)
        doms == [b \in DOMAIN g |-> {d \in DOMAIN g : StrictlyDominates(g, d, b)}]
    IN  /\ \A b \in DOMAIN g \ {1} : dom[b] \in doms[b] /\ \A d \in doms[b] : Dominates(g, d, dom[b])
        /\ \A x, y \in DOMAIN g :
               y \in df[x] <=> /\ x \notin doms[y]
                               /\ \E p \in DOMAIN g : y \in ToSet(g[p]) /\ Dominates(g, x, p)
        /\ \A S \in SUBSET DOMAIN g :
               LET idf == GetDominanceFrontierForSubset(df, S)
               IN  /\ UNION {df[b] : b \in S \cup idf} = idf
                   /\ \A T \in SUBSET idf : UNION {df[b] : b \in S \cup T} \subseteq T => T = idf

\* Where every use is defined before it: each run of the program reads, at
\* each use, the assignment that it would read without the renaming.  env
\* maps a variable to the place of its last assignment, ssa maps an indexed
\* one to the place whose value it has.  A phi that is left on the stack is
\* met by the blocks that are walked later: they are excused.
Walked(g, dom) ==
    LET RECURSIVE down(_, _)
        down(order, b) == FoldLeft(down, Append(order, b), DominatingBlocks(g, dom, b))
    IN  down(<<>>, 1)
Misled(p, dom, b, v) ==
    LET w == Walked(p.succs, dom)
        place(x) == CHOOSE i \in DOMAIN w : w[i] = x
    IN  \E q \in DOMAIN p.stmts :
            /\ place(q) < place(b) /\ ~Dominates(p.succs, q, b)
            /\ \E i \in DOMAIN p.stmts[q] : p.stmts[q][i].type = "PHI" /\ p.stmts[q][i].var = v

RECURSIVE RunsSound(_, _, _, _, _, _, _)
RunsSound(p, dom, b, i, prev, env, ssa) ==
    IF i > Len(p.stmts[b])
    THEN \A succ \in ToSet(p.succs[b]) : RunsSound(p, dom, succ, 1, b, env, ssa)
    ELSE LET stmt == p.stmts[b][i]
             Go(e, s) == RunsSound(p, dom, b, i + 1, prev, e, s)
             reads(v, index) == Misled(p, dom, b, v) \/ ssa[<<v, index>>] = env[v]
         IN  CASE stmt.type = "PHI" ->
                      /\ Misled(p, dom, prev, stmt.var) \/ ssa[<<stmt.var, stmt.from[prev]>>] = env[stmt.var]
                      /\ Go(env, (<<stmt.var, stmt.index>> :> env[stmt.var]) @@ ssa)
               [] stmt.type = "ASSIGN" ->
                      /\ stmt.used # "number" => reads(stmt.used, stmt.from)
                      /\ <<stmt.var, stmt.index>> \notin DOMAIN ssa
                      /\ Go([env EXCEPT ![stmt.var] = <<b, i>>],
                            (<<stmt.var, stmt.index>> :> <<b, i>>) @@ ssa)
               [] stmt.type = "BRANCH" ->
                      /\ stmt.used # "number" => reads(stmt.used, stmt.from)
                      /\ Go(env, ssa)

RenamingSound(trees, variables) ==
    LET p == CommitSSAFormBuilding(trees, variables)
    IN  RunsSound(p, ComputeDominatorTree(p.succs), 1, 1, NoBlock,
                  [v \in ToSet(variables) |-> <<0, 0>>], <<>>)
=============================================================================

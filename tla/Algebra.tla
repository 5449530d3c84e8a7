------------------------------ MODULE Algebra ------------------------------
(***************************************************************************)
(* Matrices, polynomials and complex numbers.                              *)
(***************************************************************************)
EXTENDS Integers, Sequences, SequencesExt, FiniteSetsExt, TLC

(***************************************************************************)
(* haifisch::matrix of Sandbox/matrix.hpp, and the Matrix that             *)
(* yandex_tasks/matrix builds up in four steps.  A failed assert or a read *)
(* outside a matrix is Failed.                                             *)
(***************************************************************************)

Upto(n) == 0 .. n - 1
Failed == <<>>

-----------------------------------------------------------------------------
(* matrix.hpp: [cols, rows, mat], mat the array.  x goes along the columns  *)
(* and is the first index of at.                                            *)

matrix(cols, rows, mat) == [cols |-> cols, rows |-> rows, mat |-> mat]
Moved == [cols |-> 0, rows |-> 0, mat |-> <<>>]
at(m, x, y) == m.mat[m.cols * y + x]
\* The asserts of at, which bound each index by the other count, and the array.
readable(m, x, y) == y <= m.cols /\ x <= m.rows /\ m.cols * y + x \in DOMAIN m.mat
fill(m, value) == matrix(m.cols, m.rows, [p \in Upto(m.cols * m.rows) |-> value])

\* construct: an array of the right size is cleared first, as many bytes of
\* it as it has elements (the low ones of an element hold its value), and
\* then rhs is copied.  self: rhs is *this.
BytesPerElement == 4
construct(m, rhs, self) ==
    LET cleared == (m.cols * m.rows + BytesPerElement - 1) \div BytesPerElement
    IN  IF self THEN matrix(m.cols, m.rows, [p \in DOMAIN m.mat |-> IF p < cleared THEN 0 ELSE m.mat[p]])
        ELSE rhs

\* operator=(matrix&&): <<this, rhs>> afterwards; moved into itself the
\* array is freed and lost.
assign_moved(rhs, self) == <<IF self THEN Moved ELSE rhs, Moved>>

add(lhs, rhs) ==
    IF lhs.cols # rhs.cols \/ lhs.rows # rhs.rows THEN Failed
    ELSE matrix(lhs.cols, lhs.rows, [p \in DOMAIN lhs.mat |-> lhs.mat[p] + rhs.mat[p]])
subtract(lhs, rhs) ==
    IF lhs.cols # rhs.cols \/ lhs.rows # rhs.rows THEN Failed
    ELSE matrix(lhs.cols, lhs.rows, [p \in DOMAIN lhs.mat |-> lhs.mat[p] - rhs.mat[p]])
scale(m, val) == matrix(m.cols, m.rows, [p \in DOMAIN m.mat |-> m.mat[p] * val])
equal(lhs, rhs) == lhs.rows = rhs.rows /\ lhs.cols = rhs.cols /\ lhs.mat = rhs.mat

multiply_impl(lhs, rhs, i, j) ==
    MapThenSumSet(LAMBDA k : at(lhs, i, k) * at(rhs, k, j), Upto(rhs.cols))

\* operator*= and multiply: *this gets the rows of rhs before it is read.
\* The iterations of the parallel loop write different elements and read
\* what none writes, so their order is left out.
multiply(lhs, rhs) ==
    LET self == [lhs EXCEPT !.rows = rhs.rows]
        n == Upto(lhs.cols)
    IN  IF \/ lhs.cols # rhs.rows
           \/ \E i, j \in n, k \in Upto(rhs.cols) : ~readable(self, i, k) \/ ~readable(rhs, k, j)
        THEN Failed
        ELSE matrix(lhs.cols, rhs.rows,
                    [p \in Upto(lhs.cols * rhs.rows) |-> multiply_impl(lhs, rhs, p % lhs.cols, p \div lhs.cols)])

\* operator*= of a matrix and a vector; the factor of a whole sum is vec[i].
multiply_vector(m, vec) ==
    IF m.rows # Len(vec) \/ m.cols > Len(vec) \/ \E i \in Upto(m.cols), j \in Upto(m.rows) : ~readable(m, i, j)
    THEN Failed
    ELSE [i \in 1 .. m.cols |-> MapThenSumSet(LAMBDA j : at(m, i - 1, j) * vec[i], Upto(m.rows))]

\* transpose_impl copies the array as it is.
transpose_impl(m) == matrix(m.rows, m.cols, m.mat)
transpose(m) == assign_moved(transpose_impl(m), FALSE)[1]

-----------------------------------------------------------------------------
(* yandex_tasks/matrix: a sequence of rows. *)

matrix_size(m) == <<Len(m), Len(m[1])>>
\* operator<<: tabs within a row, new lines between the rows.
written(m) ==
    LET row(r) == Tail(FoldLeft(LAMBDA s, e : s \o <<"\t", ToString(e)>>, <<>>, r))
    IN  Tail(FoldLeft(LAMBDA s, r : s \o <<"\n">> \o row(r), <<>>, m))
matrix_plus(m, right) == [i \in DOMAIN m |-> [j \in DOMAIN m[i] |-> m[i][j] + right[i][j]]]
matrix_scale(m, scalar) == [i \in DOMAIN m |-> [j \in DOMAIN m[i] |-> m[i][j] * scalar]]
transposed(m) == [i \in 1 .. Len(m[1]) |-> [j \in DOMAIN m |-> m[j][i]]]
\* operator*: the assert compares the rows of *this with the columns of other.
matrix_multiply(m, other) ==
    IF Len(m) # Len(other[1]) \/ Len(other) < Len(m[1]) THEN Failed
    ELSE [i \in DOMAIN m |-> [j \in DOMAIN other[1] |->
             MapThenSumSet(LAMBDA k : m[i][k] * other[k][j], DOMAIN m[1])]]

-----------------------------------------------------------------------------
(* Properties *)

Isfailed(r) == DOMAIN r = {}

\* Where it does not fail and *this has the columns of rhs as rows, *= is the
\* product; squares never fail.  The sums undo each other.  An assignment of
\* a matrix to itself clears the front of it, and a move into itself all.
\* Transposing changes no element's place in the array: a square is left as
\* it is.
MatrixSound(a, b) ==
    LET r == multiply(a, b)
    IN  /\ a.cols = b.rows /\ a.rows = b.cols /\ ~Isfailed(r) =>
               \A x, y \in Upto(a.cols) :
                   at(r, x, y) = MapThenSumSet(LAMBDA k : at(a, x, k) * at(b, k, y), Upto(a.rows))
        /\ a.cols = a.rows /\ b.cols = a.cols /\ b.rows = a.cols => ~Isfailed(r)
        /\ ~Isfailed(add(a, b)) => equal(subtract(add(a, b), b), a) /\ equal(subtract(a, a), fill(a, 0))
        /\ equal(construct(a, a, TRUE), a) <=> a.mat[0] = 0 /\ (a.cols * a.rows > 4 => a.mat[1] = 0)
        /\ equal(construct(a, b, FALSE), b) /\ assign_moved(b, FALSE) = <<b, Moved>>
        /\ assign_moved(a, TRUE)[1] = Moved
        /\ equal(transpose(transpose(a)), a)
        /\ a.cols = a.rows => equal(transpose(a), a)
        /\ equal(scale(a, 2), add(a, a))
        /\ \A c \in 0 .. 2 :
               LET v == [i \in 1 .. a.rows |-> c]
                   p == multiply_vector(a, v)
               IN  ~Isfailed(p) => \A i \in DOMAIN p :
                       p[i] = MapThenSumSet(LAMBDA j : at(a, i - 1, j) * v[j + 1], Upto(a.rows))

\* Of matrices that fit, those whose product is square are multiplied and
\* the others refused; (AB)^T is B^T A^T.  What is written can be told from
\* what is written of another matrix.
RowsSound(a, b) ==
    LET p == matrix_multiply(a, b)
    IN  /\ Len(a[1]) = Len(b) => (Isfailed(p) <=> Len(a) # Len(b[1]))
        /\ Len(a[1]) = Len(b) /\ ~Isfailed(p) => transposed(p) = matrix_multiply(transposed(b), transposed(a))
        /\ transposed(transposed(a)) = a /\ matrix_size(transposed(a)) = <<matrix_size(a)[2], matrix_size(a)[1]>>
        /\ matrix_size(a) = matrix_size(b) => matrix_plus(a, b) = matrix_plus(b, a)
        /\ matrix_plus(a, a) = matrix_scale(a, 2)
        /\ written(a) = written(b) <=> a = b

(***************************************************************************)
(* Polynomial<int> of Sandbox/polynomial.hpp: Range, the sequence of the   *)
(* coefficients from the lowest on, and Complex<int> of Lightning/Complex. *)
(***************************************************************************)

\* C++ division of int truncates.
Quotient(a, b) ==
    LET abs(x) == IF x < 0 THEN -x ELSE x
        q == abs(a) \div abs(b)
    IN  IF (a < 0) = (b < 0) THEN q ELSE -q
Resized(r, n) == [i \in 1 .. n |-> IF i <= Len(r) THEN r[i] ELSE 0]

RECURSIVE MyPow(_, _)
MyPow(a, n) == IF n = 0 THEN 1 ELSE a * MyPow(a, n - 1)
Value(p, x) == MapThenSumSet(LAMBDA i : p[i] * MyPow(x, i - 1), DOMAIN p)

\* operator+ and operator-: where right is longer the result starts as right,
\* and right, not *this, is added to it or taken off.
plus(p, right) ==
    IF Len(p) >= Len(right)
    THEN [i \in DOMAIN p |-> p[i] + IF i <= Len(right) THEN right[i] ELSE 0]
    ELSE [i \in DOMAIN right |-> right[i] + IF i <= Len(p) THEN right[i] ELSE 0]
minus(p, right) ==
    IF Len(p) >= Len(right)
    THEN [i \in DOMAIN p |-> p[i] - IF i <= Len(right) THEN right[i] ELSE 0]
    ELSE [i \in DOMAIN right |-> right[i] - IF i <= Len(p) THEN right[i] ELSE 0]

\* With a scalar: + and * change the highest coefficient, += makes a
\* polynomial of the scalar.
plus_scalar(p, scalar) == [p EXCEPT ![Len(p)] = @ + scalar]
times_scalar(p, scalar) == [p EXCEPT ![Len(p)] = @ * scalar]
add_scalar(p, scalar) == plus(p, <<scalar>>)
divide_scalar(p, scalar) == [i \in DOMAIN p |-> Quotient(p[i], scalar)]

\* operator*: the result starts as *this, with two coefficients too many.
times(p, other) ==
    LET start == Resized(p, Len(p) + Len(other) + 1)
    IN  [k \in DOMAIN start |->
            start[k] + MapThenSumSet(LAMBDA i : p[i] * other[k - i + 1],
                                     {i \in DOMAIN p : k - i + 1 \in DOMAIN other})]

\* operator/: right is no longer than *this.
divide(p, right) ==
    LET resd == Len(p) - Len(right) + 1
        rrs == Len(right)
        step(s, i) ==
            LET q == Quotient(s.temp[Len(p) - i], right[rrs])
            IN  [temp |-> [k \in DOMAIN s.temp |->
                              LET j == Len(p) - i - k
                              IN  s.temp[k] - IF j \in 0 .. rrs - 1 THEN right[rrs - j] * q ELSE 0],
                 result |-> [s.result EXCEPT ![resd - i] = q]]
    IN  FoldLeft(step, [temp |-> p, result |-> Resized(p, resd)], [i \in 1 .. resd |-> i - 1]).result

\* operator,: the k-th derivative; the last coefficient is made of junk, what
\* stands behind the range.
RECURSIVE derivative(_, _, _)
derivative(p, k, junk) ==
    CASE k = 0 -> p
      [] k = 1 -> [i \in DOMAIN p |-> (IF i < Len(p) THEN p[i + 1] ELSE junk) * i]
      [] OTHER -> derivative(derivative(p, 1, junk), k - 1, junk)

equal_polynomials(p, q) == Len(p) = Len(q) /\ \A i \in DOMAIN p : p[i] = q[i]

-----------------------------------------------------------------------------
(* Complex *)

complex_plus(a, b) == <<a[1] + b[1], a[2] + b[2]>>
complex_minus(a, b) == <<a[1] - b[1], a[2] - b[2]>>
complex_times(a, b) == <<a[1] * b[1] - a[2] * b[2], a[2] * b[1] + a[1] * b[2]>>
complex_divide(a, b) ==
    LET norm == b[1] * b[1] + b[2] * b[2]
    IN  <<Quotient(a[1] * b[1] + a[2] * b[2], norm), Quotient(a[2] * b[1] - a[1] * b[2], norm)>>

-----------------------------------------------------------------------------
(* Properties *)

\* At every point a sum has the sum of the values where *this is not
\* shorter, and twice right's low end otherwise; a product has the value of
\* *this too much, as the one that run_polynomial_tests expects has; what was divided is the quotient times right and a remainder shorter than
\* right; a scalar is added to the highest power by + and to the value by +=.
PolynomialSound(p, right) ==
    LET n == Len(p)
        low == SubSeq(right, 1, n)
    IN  \A x \in -2 .. 2 :
            /\ n >= Len(right) => Value(plus(p, right), x) = Value(p, x) + Value(right, x)
            /\ n >= Len(right) => Value(minus(p, right), x) = Value(p, x) - Value(right, x)
            /\ n < Len(right) => /\ Value(plus(p, right), x) = Value(right, x) + Value(low, x)
                                 /\ Value(minus(p, right), x) = Value(right, x) - Value(low, x)
            /\ Value(times(p, right), x) = Value(p, x) * Value(right, x) + Value(p, x)
            /\ Value(plus_scalar(p, 2), x) = Value(p, x) + 2 * MyPow(x, n - 1)
            /\ Value(add_scalar(p, 2), x) = Value(p, x) + 2
            /\ Value(times_scalar(p, 2), x) = Value(p, x) + p[n] * MyPow(x, n - 1)
            /\ divide_scalar([i \in DOMAIN p |-> 3 * p[i]], 3) = p
            /\ n >= Len(right) /\ right[Len(right)] \in {-1, 1} =>
                   LET q == divide(p, right)
                       product == minus(times(q, right), q)
                       rest == minus(product, p)
                   IN  \A i \in Len(right) .. Len(rest) : rest[i] = 0

\* The assertion of run_polynomial_tests on a product: the value is that of the
\* product computed, but that has two more coefficients, which == counts.
AssertedProduct(p, right) ==
    p = <<1, 2>> /\ right = <<3, 4>> => equal_polynomials(times(p, right), <<4, 12, 8>>)

\* The derivatives' coefficients are right as far as no junk is shifted in.
DerivativeSound(p, k, junk) ==
    \A i \in 1 .. Len(p) - k :
        derivative(p, k, junk)[i] = p[i + k] * FoldLeft(LAMBDA r, f : r * (i + f - 1), 1, [f \in 1 .. k |-> f])

\* A product divided by a factor is the other factor.
ComplexSound(a, b) ==
    /\ b # <<0, 0>> => complex_divide(complex_times(a, b), b) = a
    /\ complex_minus(complex_plus(a, b), b) = a

(***************************************************************************)
(* The matrix product by seven halves: Sandbox/strassen_algorithm.hpp, and *)
(* Sandbox/strassen_algorithm_old.hpp, whose operators are prefixed old_.  *)
(* Rows and columns count from 0.  The code under #if 0 is left out, and   *)
(* the old product is of square matrices.                                  *)
(***************************************************************************)

CONSTANT Junk   \* what new T[] finds in memory

-----------------------------------------------------------------------------
(* strassen_algorithm.hpp: elements in one array, [rows, cols, at]. *)

\* operator(): the stride is the number of rows.
Place(m, i, j) == m.rows * i + j
Element(m, i, j) == m.at[Place(m, i, j)]

\* A new matrix whose element i, j is e[i, j], row by row: what two
\* elements share has the later one, and what no element takes is Junk.
Filled(rows, cols, e) ==
    [rows |-> rows, cols |-> cols,
     at |-> [p \in Upto(rows * cols) |->
                LET i == Min({p \div rows, rows - 1})
                    j == p - rows * i
                IN  IF j < cols THEN e[i, j] ELSE Junk]]

\* Of std::plus, and with sign -1 of std::minus.
arithmetic(lhs, rhs, sign) ==
    Filled(rhs.rows, rhs.cols,
           [i \in Upto(rhs.rows), j \in Upto(rhs.cols) |-> Element(lhs, i, j) + sign * Element(rhs, i, j)])
plus_elements(lhs, rhs) == arithmetic(lhs, rhs, 1)
minus_elements(lhs, rhs) == arithmetic(lhs, rhs, -1)
equal_elements(lhs, rhs) ==
    /\ lhs.rows = rhs.rows /\ lhs.cols = rhs.cols
    /\ \A i \in Upto(lhs.rows), j \in Upto(lhs.cols) : Element(lhs, i, j) = Element(rhs, i, j)

\* Mutant: the sum is not reset behind an element of the row.
linearKeeps(lhs, rhs, size) ==
    Filled(size, size, [i \in Upto(size), j \in Upto(size) |->
        MapThenSumSet(LAMBDA p : Element(lhs, i, p[1]) * Element(rhs, p[1], p[2]), Upto(size) \X (0 .. j))])

linear(lhs, rhs, size) ==
    Filled(size, size, [i \in Upto(size), j \in Upto(size) |->
        MapThenSumSet(LAMBDA k : Element(lhs, i, k) * Element(rhs, k, j), Upto(size))])

RECURSIVE strassen(_, _, _)
strassen(lhs, rhs, size) ==
    LET k == size \div 2
        part(m, r, c) == Filled(k, k, [i \in Upto(k), j \in Upto(k) |-> Element(m, r * k + i, c * k + j)])
        a11 == part(lhs, 0, 0)  a12 == part(lhs, 0, 1)  a21 == part(lhs, 1, 0)  a22 == part(lhs, 1, 1)
        b11 == part(rhs, 0, 0)  b12 == part(rhs, 0, 1)  b21 == part(rhs, 1, 0)  b22 == part(rhs, 1, 1)
        p1 == strassen(a11, minus_elements(b12, b22), k)
        p2 == strassen(plus_elements(a11, a12), b22, k)
        p3 == strassen(plus_elements(a21, a22), b11, k)
        p4 == strassen(a22, minus_elements(b21, b11), k)
        p5 == strassen(plus_elements(a11, a22), plus_elements(b11, b22), k)
        p6 == strassen(minus_elements(a12, a22), plus_elements(b21, b22), k)
        p7 == strassen(minus_elements(a11, a21), plus_elements(b11, b12), k)
        c == [q \in {<<0, 0>>, <<0, 1>>, <<1, 0>>, <<1, 1>>} |->
                 CASE q = <<0, 0>> -> plus_elements(minus_elements(plus_elements(p5, p4), p2), p6)
                   [] q = <<0, 1>> -> plus_elements(p1, p2)
                   [] q = <<1, 0>> -> plus_elements(p3, p4)
                   [] OTHER -> minus_elements(minus_elements(plus_elements(p1, p5), p3), p7)]
    IN  IF size = 1 THEN linear(lhs, rhs, size)
        ELSE Filled(size, size, [i \in Upto(size), j \in Upto(size) |->
                 IF i < 2 * k /\ j < 2 * k THEN Element(c[<<i \div k, j \div k>>], i % k, j % k) ELSE Junk])

-----------------------------------------------------------------------------
(* strassen_algorithm_old.hpp: [rows, cols, data], data a function of i, j. *)

old_matrix(rows, cols, data) == [rows |-> rows, cols |-> cols, data |-> data]
old_submatrix(source, left, right, up, down) ==
    [source |-> source, left |-> left, right |-> right, up |-> up, down |-> down]
whole(m) == old_submatrix(m, 0, m.cols, 0, m.rows)
\* A submatrix of a submatrix is one of its source: the offsets are lost.
of_submatrix(s, left, right, up, down) == old_submatrix(s.source, left, right, up, down)
old_rows(s) == s.down - s.up
old_cols(s) == s.right - s.left
get_element(s, i, j) == s.source.data[s.up + i, s.left + j]

old_submatrix_arithmetic(lhs, rhs, sign) ==
    old_matrix(old_rows(lhs), old_cols(lhs),
               [i \in Upto(old_rows(lhs)), j \in Upto(old_cols(lhs)) |->
                   get_element(lhs, i, j) + sign * get_element(rhs, i, j)])
old_arithmetic(lhs, rhs, sign) ==
    old_matrix(lhs.rows, lhs.cols,
               [i \in Upto(lhs.rows), j \in Upto(lhs.cols) |-> lhs.data[i, j] + sign * rhs.data[i, j]])
concat_h(lhs, rhs) ==
    old_matrix(lhs.rows, lhs.cols + rhs.cols,
               [i \in Upto(lhs.rows), j \in Upto(lhs.cols + rhs.cols) |->
                   IF j < lhs.cols THEN lhs.data[i, j] ELSE rhs.data[i, j - lhs.cols]])
concat_v(lhs, rhs) ==
    old_matrix(lhs.rows + rhs.rows, lhs.cols,
               [i \in Upto(lhs.rows + rhs.rows), j \in Upto(lhs.cols) |->
                   IF i < lhs.rows THEN lhs.data[i, j] ELSE rhs.data[i - lhs.rows, j]])
\* add_row or add_col, the new elements sum[i, j] of the loop behind it.
add_row(c, sum) ==
    old_matrix(c.rows + 1, c.cols, [i \in Upto(c.rows + 1), j \in Upto(c.cols) |->
                                        IF i < c.rows THEN c.data[i, j] ELSE sum[i, j]])
add_col(c, sum) ==
    old_matrix(c.rows, c.cols + 1, [i \in Upto(c.rows), j \in Upto(c.cols + 1) |->
                                        IF j < c.cols THEN c.data[i, j] ELSE sum[i, j]])

matrix_naive_multiply(lhs, rhs) ==
    old_matrix(lhs.rows, rhs.cols,
               [i \in Upto(lhs.rows), j \in Upto(rhs.cols) |->
                   MapThenSumSet(LAMBDA k : lhs.data[i, k] * rhs.data[k, j], Upto(lhs.cols))])

\* For an odd size the sums of the last row and column leave out the middle
\* that the last loop adds to all but the last column.
RECURSIVE matrix_strassen_multiply(_, _)
matrix_strassen_multiply(lhs, rhs) ==
    LET n == old_rows(lhs)
        mid == n \div 2
        end == 2 * mid
        part(s, r, c) == of_submatrix(s, c * mid, (c + 1) * mid, r * mid, (r + 1) * mid)
        a11 == part(lhs, 0, 0)  a12 == part(lhs, 0, 1)  a21 == part(lhs, 1, 0)  a22 == part(lhs, 1, 1)
        b11 == part(rhs, 0, 0)  b12 == part(rhs, 0, 1)  b21 == part(rhs, 1, 0)  b22 == part(rhs, 1, 1)
        sum_(x, y) == whole(old_submatrix_arithmetic(x, y, 1))
        diff_(x, y) == whole(old_submatrix_arithmetic(x, y, -1))
        p1 == matrix_strassen_multiply(a11, diff_(b12, b22))
        p2 == matrix_strassen_multiply(sum_(a11, a22), b22)   \* a12 is meant
        p3 == matrix_strassen_multiply(sum_(a21, a22), b11)
        p4 == matrix_strassen_multiply(a22, diff_(b21, b11))
        p5 == matrix_strassen_multiply(sum_(a11, a22), sum_(b11, b22))
        p6 == matrix_strassen_multiply(diff_(a12, a22), sum_(b21, b22))
        p7 == matrix_strassen_multiply(diff_(a11, a21), sum_(b11, b12))
        plus_(x, y) == old_arithmetic(x, y, 1)
        minus_(x, y) == old_arithmetic(x, y, -1)
        c11 == plus_(minus_(plus_(p5, p4), p2), p6)
        c22 == minus_(minus_(plus_(p5, p1), p3), p7)
        c == concat_v(concat_h(c11, plus_(p1, p2)), concat_h(plus_(p3, p4), c22))
        sum == [i \in Upto(n), j \in Upto(n) |->
                   MapThenSumSet(LAMBDA k : get_element(lhs, i, k) * get_element(rhs, k, j), Upto(end))]
        wide == add_col(add_row(c, sum), sum)
        old == [wide EXCEPT !.data = [i \in Upto(n), j \in Upto(n) |->
                   @[i, j] + IF j < end THEN get_element(lhs, i, end) * get_element(rhs, end, j) ELSE 0]]
    IN  IF n = 1 THEN old_matrix(1, 1, [i \in {0}, j \in {0} |-> get_element(lhs, 0, 0) * get_element(rhs, 0, 0)])
        ELSE IF end = n THEN c ELSE old

-----------------------------------------------------------------------------
(* Properties.  A grid is a function of i, j. *)

Square(n, grid) == Filled(n, n, grid)
Product(n, a, b) ==
    [i \in Upto(n), j \in Upto(n) |-> MapThenSumSet(LAMBDA k : a[i, k] * b[k, j], Upto(n))]

\* strassen of squares whose size is a power of two is the product, and so
\* is linear of every square; for size 3 strassen is the product of the
\* upper left quarters with what was in memory around it.
StrassenSound(n, a, b) ==
    LET r == strassen(Square(n, a), Square(n, b), n)
    IN  /\ equal_elements(linear(Square(n, a), Square(n, b), n), Square(n, Product(n, a, b)))
        /\ n \in {1, 2, 4} => equal_elements(r, Square(n, Product(n, a, b)))
        /\ n = 3 => \A i, j \in Upto(3) :
               Element(r, i, j) = IF i < 2 /\ j < 2 THEN Product(2, a, b)[i, j] ELSE Junk

\* The old multiplication of two by two is the product but for the first
\* row, which is off by (a12 - a22) b22 to both sides: as the matrices of
\* its test have equal rows the test shows nothing.  For size 3 the last
\* column misses a term.  For size 4 the parts of a part are read from the
\* corner of the source: where all elements are equal that shows nothing.
OldStrassenSound(n, a, b) ==
    LET m(g) == old_matrix(n, n, g)
        r == matrix_strassen_multiply(whole(m(a)), whole(m(b)))
        off == (a[0, 1] - a[1, 1]) * b[1, 1]
        product == Product(n, a, b)
    IN  /\ matrix_naive_multiply(m(a), m(b)).data = product
        /\ n = 1 => r.data = product
        /\ n = 2 => r.data = [product EXCEPT ![0, 0] = @ + off, ![0, 1] = @ - off]
        /\ n = 3 => \A i \in Upto(3) : r.data[i, 2] = product[i, 2] - a[i, 2] * b[2, 2]
        /\ n = 4 /\ (\A i, j \in Upto(4) : a[i, j] = a[0, 0] /\ b[i, j] = b[0, 0]) => r.data = product

\* The elements of a matrix of strassen_algorithm.hpp are apart and within
\* the array just when it has one row or is square.
PlacesSound(rows, cols) ==
    LET m == Filled(rows, cols, [i \in Upto(rows), j \in Upto(cols) |-> 0])
        pairs == Upto(rows) \X Upto(cols)
        places == {Place(m, p[1], p[2]) : p \in pairs}
    IN  (Cardinality(places) = rows * cols /\ places \subseteq Upto(rows * cols)) <=> rows = 1 \/ rows = cols
=============================================================================

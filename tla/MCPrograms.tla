----------------------------- MODULE MCPrograms -----------------------------
(***************************************************************************)
(* The sequential programs and the small machines of the repository for    *)
(* TLC.  A behaviour follows one part: an algorithm, which is called once  *)
(* with an input of its set, or a machine, whose state is heap and obj.    *)
(***************************************************************************)
EXTENDS Integers, Sequences, SequencesExt, FiniteSetsExt

CONSTANTS
    MaxArray,     \* the length of the arrays, texts and words that are tried
    ThreadCount,  \* of compare_exchange.c
    NoInput       \* before an algorithm is called

VARIABLES part, called, input, heap, obj

TheAlgorithms == INSTANCE Algorithms
TheParsers == INSTANCE Parsers
TheAlgebra == INSTANCE Algebra WITH Junk <- 77
TheHashes == INSTANCE HashPadding

TheQuery == INSTANCE Query WITH Numbers <- 1 .. 2, MaxChain <- 3, MaxSize <- 4
ThePop3Client == INSTANCE Pop3Client WITH
    Clients <- {"c", "d"}, Seconds <- 1 .. 2, Mails <- <<2, 0>>,
    Arguments <- {<<>>, <<"--help">>, <<"--count", "2">>,
                  <<"--username", "u", "--password", "p", "--count", "2">>,
                  <<"--username", "--count", "--password", "p", "--count", "3">>,
                  <<"--count", "2", "--username", "--count", "--password", "p">>,
                  <<"--count", "2", "--password", "p", "--username", "u", "v", "--verbose">>},
    ctx <- heap, files <- obj
TheExercises == INSTANCE Exercises WITH
    Chunks <- BoundedSeq({"a", "b", "0"}, 2), Sizes <- 0 .. 3, MaxData <- 5,
    writer <- heap, screen <- obj,
    RetryCounts <- -2 .. 3, loop <- heap, history <- obj,
    Models <- 1 .. 2, Numbers <- {<<0, 1>>, <<1, 0>>, <<1, 1>>}, MaxLen <- 2, data <- heap, file <- obj,
    Notifiers <- 1 .. 2, Subscribers <- 1 .. 2, Callbacks <- {"a", "b"}, MaxIds <- 3,
    registry <- heap, callback <- obj,
    Words <- {"1", "2", "menu", "start", "exit", "?"}, MaxTurns <- 5,
    automata <- heap, dialog <- obj,
    Threads <- 1 .. ThreadCount, Iterations <- 2, Rounds <- 2, Target <- 20,
    memory <- heap, threads <- obj
TheLuaStack == INSTANCE LuaStack WITH
    Types <- {"int", "other"}, Names <- {"a"},
    Fields <- [t |-> [a |-> "u"], u |-> [a |-> "integer"], w |-> [a |-> "nil"]],
    Items <- [t |-> <<"u", "string">>, u |-> <<"integer">>, w |-> <<>>],
    MaxStack <- 3, lua <- heap, caller <- obj

-----------------------------------------------------------------------------
(* The inputs of the algorithms: everything up to a size.                   *)

Weights == [{<<0, 1>>, <<0, 2>>, <<0, 3>>, <<1, 2>>, <<1, 3>>, <<2, 3>>} -> {0, 1, 3}]

\* Graphs of three and four blocks of which all are reached.
Graphs ==
    {g \in [1 .. 3 -> BoundedSeq(1 .. 3, 2)] \cup [1 .. 4 -> {<<>>, <<1>>, <<2>>, <<3>>, <<4>>, <<2, 3>>, <<3, 4>>, <<4, 2>>}] :
        TheAlgorithms!Reached(g, {}) = DOMAIN g}
Assigns == {<<"assign", v, u>> : v \in {"x", "y"}, u \in {"x", "number"}}
Branches == {<<"if", "x", t, e>> : t \in Assigns, e \in Assigns}
Programs ==
    {<<<<"assign", "x", "number">>, <<"assign", "y", "number">>>> \o s :
        s \in {<<t>> : t \in Assigns \cup Branches}
              \cup {<<b, t>> : b \in Branches, t \in Assigns \cup Branches}
              \cup {<<<<"if", "y", b, t>>, u>> : b \in Branches, t \in Assigns, u \in Assigns}}

Groups == [ch : {"a", "."}, set : {FALSE}] \cup [ch : {".", "d", "D"}, set : {TRUE}]
Items == [group : Groups, quant : {"", "*", "+", "?", "-"}]

Atoms == {<<"atom", a>> : a \in {"\"a\"", "1", "true", "false", "null"}}
Arrays == {<<"array", s>> : s \in BoundedSeq(Atoms, 3)}
Objects == {<<"object", s>> : s \in BoundedSeq({"\"a\"", "\"b\""} \X Atoms, 2)}

Leaves == {TheParsers!Leaf(c) : c \in {"2", "3"}}
Both(S) == {TheParsers!Binary(op, a, b) : op \in {"+", "*"}, a \in S, b \in S}

Grids(n) ==
    IF n < 3 THEN [(0 .. n - 1) \X (0 .. n - 1) -> 0 .. 1]
    ELSE {[c \in (0 .. n - 1) \X (0 .. n - 1) |-> (p * c[1] + q * c[2] + c[1] * c[2] + 1) % 5] :
              p \in 0 .. 1, q \in 1 .. 2}
Shaped(cols, rows, values) ==
    {[cols |-> cols, rows |-> rows, mat |-> m] : m \in [0 .. cols * rows - 1 -> values]}
MatrixRows == {r \in UNION {SeqOf([1 .. w -> 1 .. 2], 2) : w \in 1 .. 2} : r # <<>>}
              \cup {<<<<1, 0, 2>>, <<0, 3, 1>>>>, <<<<1, 0>>, <<2, 0>>, <<3, 1>>>>}

\* Of n bytes the one at nul, if any, is null.
Bytes(n, nul) == [i \in 1 .. n |-> IF i = nul THEN 0 ELSE 1 + (i % 11)]

Inputs ==
    CASE part = "sort" -> BoundedSeq(1 .. 4, MaxArray) \cup SeqOf(1 .. 3, MaxArray + 1)
      [] part = "graph" -> Weights
      [] part = "lcs" -> BoundedSeq(1 .. 2, MaxArray) \X BoundedSeq(1 .. 2, MaxArray)
      [] part = "array" -> BoundedSeq(-2 .. 2, MaxArray) \ {<<>>}
      [] part = "roman" -> 1 .. 3999
      [] part = "brackets" -> BoundedSeq({"(", ")", "[", "]"}, MaxArray)
      [] part = "cars" -> BoundedSeq((1 .. 2) \X (1 .. 2) \X (1 .. 2), 3) \X (1 .. 2) \X (0 .. 2) \X (1 .. 3)
      [] part = "dominators" -> Graphs
      [] part = "renaming" -> Programs
      [] part = "suffix" -> BoundedSeq(1 .. 2, 6) \cup BoundedSeq(1 .. 3, MaxArray)
      [] part = "regex" -> BoundedSeq(Items, 2) \X BoundedSeq({"a", "1", "."}, 3)
      [] part = "classes" -> BoundedSeq({"d", "w", "s"}, 2) \X BoundedSeq({"a", "1", " "}, 3)
      [] part = "contain" -> BoundedSeq({"a", "b"}, 5) \X BoundedSeq({"a", "b"}, 3)
      [] part = "split" -> BoundedSeq({"a", "b", " "}, 5)
      [] part = "json" -> Atoms \cup Arrays \cup Objects
                          \cup {<<"array", <<a, b>>>> : a \in Arrays, b \in Atoms}
      [] part = "escapes" -> BoundedSeq({"x", "\"", "\\", "newline", "u"}, MaxArray)
      [] part = "precedence" -> BoundedSeq({"1", "2", "+", "*"}, 5) \cup BoundedSeq({"1", "+", "*", "?"}, MaxArray)
      [] part = "postfix" -> BoundedSeq({"1", "2", "+", "-", "?"}, MaxArray) \ {<<>>}
      [] part = "printing" -> Both(Leaves \cup Both(Leaves))
      [] part = "lexer" -> BoundedSeq({"c", "t", "+", "1", TheParsers!Quote}, 5)
      [] part = "strassen" -> UNION {{n} \X Grids(n) \X Grids(n) : n \in 1 .. 4}
      [] part = "places" -> (1 .. 4) \X (1 .. 4)
      [] part = "matrix" -> UNION {Shaped(c, r, 0 .. 1) \X Shaped(d, s, 0 .. 1) :
                                       c \in 1 .. 2, r \in 1 .. 2, d \in 1 .. 2, s \in 1 .. 2}
                            \cup (Shaped(2, 3, {1, 2}) \X Shaped(3, 2, {2}))
      [] part = "rows" -> MatrixRows \X MatrixRows
      [] part = "polynomial" -> (BoundedSeq(-1 .. 2, 3) \ {<<>>}) \X (BoundedSeq(-1 .. 2, 2) \ {<<>>})
                                \cup {<<<<1, 2>>, <<3, 4>>>>}
      [] part = "complex" -> ((-2 .. 2) \X (-2 .. 2)) \X ((-2 .. 2) \X (-2 .. 2))
      [] part = "padding" -> {0, 1, 55, 56, 57, 63, 64, 111, 112, 119, 120, 127} \X {0, 9} \X {0, 56}
      [] part = "objects" -> ({0, 1, 55, 56, 63, 64, 65, 120} \X {0, 3, 55, 60, 64, 70}) \X {0, 1, 57}
      [] part = "read" -> {0, 1, 1023, 1024, 1025, 65535, 65536, 131070, 131071, 200000}
                          \X {0, 1, 2, 131071, 131072}

Algorithms ==
    {"sort", "graph", "lcs", "array", "roman", "brackets", "cars", "dominators", "renaming",
     "suffix", "regex", "classes", "contain", "split", "json", "escapes", "precedence",
     "postfix", "printing", "lexer", "strassen", "places", "matrix", "rows", "polynomial",
     "complex", "padding", "objects", "read"}
Machines == {"query", "pop3", "dialogs", "notifier", "writer", "retry", "saved", "lua",
             "counters", "exchange"}

Call ==
    /\ part \in Algorithms /\ ~called
    /\ called' = TRUE /\ input' \in Inputs
    /\ UNCHANGED <<part, heap, obj>>

Init ==
    /\ part \in Algorithms \cup Machines /\ called = FALSE /\ input = NoInput
    /\ \/ part \in Algorithms /\ heap = <<>> /\ obj = <<>>
       \/ part = "query" /\ TheQuery!Init
       \/ part = "pop3" /\ ThePop3Client!Init
       \/ part = "dialogs" /\ TheExercises!DialogInit
       \/ part = "notifier" /\ TheExercises!NotifierInit
       \/ part = "writer" /\ TheExercises!WriterInit
       \/ part = "retry" /\ TheExercises!RetryInit
       \/ part = "saved" /\ TheExercises!SavedInit
       \/ part = "lua" /\ TheLuaStack!Init
       \/ part = "counters" /\ TheExercises!CountInit
       \/ part = "exchange" /\ TheExercises!ExchangeInit

Step ==
    /\ UNCHANGED <<part, called, input>>
    /\ \/ part = "query" /\ TheQuery!Next
       \/ part = "pop3" /\ ThePop3Client!Next
       \/ part = "dialogs" /\ TheExercises!DialogNext
       \/ part = "notifier" /\ TheExercises!NotifierNext
       \/ part = "writer" /\ TheExercises!WriterNext
       \/ part = "retry" /\ TheExercises!RetryNext
       \/ part = "saved" /\ TheExercises!SavedNext
       \/ part = "lua" /\ TheLuaStack!Next
       \/ part = "counters" /\ TheExercises!CountNext
       \/ part = "exchange" /\ TheExercises!ExchangeNext

vars == <<part, called, input, heap, obj>>

Exchanging(action) == part = "exchange" /\ action /\ UNCHANGED <<part, called, input>>

\* The scheduler lets main and every thread of compare_exchange.c go on.
Fairness ==
    /\ WF_vars(Exchanging(TheExercises!ExchangeMain))
    /\ \A t \in 1 .. ThreadCount : WF_vars(Exchanging(TheExercises!run_thread(t)))

Spec == Init /\ [][Call \/ Step]_vars /\ Fairness

-----------------------------------------------------------------------------
(* The properties of the instances, which state and explain them.           *)

Result(p) == part = p /\ called

\* Sorts, shortest paths and trees, and the other algorithms on arrays give
\* what their problem asks for, on every small input; dominators, their
\* frontiers and the renamed variables of SSA form are those of the
\* definitions, on every small graph and program.
AlgorithmsSound ==
    /\ part = "graph" => called \/ TheAlgorithms!AssertedDistances
    /\ Result("sort") => TheAlgorithms!SortingSound(input)
    /\ Result("graph") => TheAlgorithms!DijkstraSound(input, 4) /\ TheAlgorithms!PrimSound(input, 4)
    /\ Result("lcs") => TheAlgorithms!LcsSound(input[1], input[2])
    /\ Result("array") => /\ TheAlgorithms!SubarraySound(input)
                          /\ TheAlgorithms!TwoSumSound(input, 1)
                          /\ TheAlgorithms!BigIntSound(input)
    /\ Result("roman") => TheAlgorithms!RomanSound(input)
    /\ Result("brackets") => TheAlgorithms!ParensSound(input)
    /\ Result("cars") => TheAlgorithms!ListingSound(input[1], input[2], input[3], input[4])
    /\ Result("dominators") => TheAlgorithms!GraphSound(input)
    /\ Result("renaming") => TheAlgorithms!RenamingSound(input, <<"x", "y">>)

\* Matchers, searchers, lexers and parsers accept what their language has, and
\* where they do not, only for the reasons that are stated.
LanguagesSound ==
    /\ Result("suffix") => TheParsers!SuffixSound(input, BoundedSeq(1 .. 2, 4) \cup BoundedSeq(1 .. 3, 3))
    /\ Result("regex") => TheParsers!RegexSound(input[1], input[2])
    /\ Result("classes") => TheParsers!ClassesSound(input[1], input[2])
    /\ Result("contain") => TheParsers!ContainSound(input[1], input[2])
    /\ Result("split") => TheParsers!SplitSound(input, {" "})
    /\ Result("json") => TheParsers!ParseSound(input)
    /\ Result("escapes") => TheParsers!EscapesSound(input)
    /\ Result("precedence") => TheParsers!PrecedenceSound(input)
    /\ Result("postfix") => TheParsers!PostfixSound(input)
    /\ Result("printing") => TheParsers!PrintingSound(input)
    /\ Result("lexer") => TheParsers!LexerSound(input)

\* Products of matrices and polynomials are products where the code computes
\* them at all, and the index of no element leaves its array.
ArithmeticSound ==
    /\ Result("strassen") => /\ TheAlgebra!StrassenSound(input[1], input[2], input[3])
                             /\ TheAlgebra!OldStrassenSound(input[1], input[2], input[3])
    /\ Result("places") => TheAlgebra!PlacesSound(input[1], input[2])
    /\ Result("matrix") => TheAlgebra!MatrixSound(input[1], input[2])
    /\ Result("rows") => TheAlgebra!RowsSound(input[1], input[2])
    /\ Result("polynomial") =>
           /\ TheAlgebra!PolynomialSound(input[1], input[2])
           /\ \A k \in 1 .. 3, junk \in {0, 5} : TheAlgebra!DerivativeSound(input[1], k, junk)
    /\ Result("complex") => TheAlgebra!ComplexSound(input[1], input[2])

\* polynomial.hpp: assert((poly_1 * poly_2) == Polynomial<int>({4, 12, 8})).
AssertedProduct == Result("polynomial") => TheAlgebra!AssertedProduct(input[1], input[2])

\* The blocks a hash is computed of are those of the standard, at every length
\* around a boundary of the padding, but where it is stated that they are not.
HashesSound ==
    /\ Result("padding") => TheHashes!PaddingSound(Bytes(input[1], input[3]), input[1] \div 2, input[2])
    /\ Result("objects") =>
           TheHashes!SharedStatesSound(Bytes(input[1][1], input[2]), Bytes(input[1][2], input[2]))
    /\ Result("read") => TheHashes!ReadSound(input[1], input[2])

\* The query container, the POP3 clients, the dialogs, the notifiers, the
\* buffered writer, the retries, the saved models, the stack that the Lua
\* adapters share, the counters and the compared fields.
MachinesSound ==
    /\ part = "query" => TheQuery!Sound
    /\ part = "pop3" => ThePop3Client!Sound
    /\ part = "dialogs" => TheExercises!DialogSound
    /\ part = "notifier" => TheExercises!NotifierSound
    /\ part = "writer" => TheExercises!WriterSound
    /\ part = "retry" => TheExercises!RetrySound
    /\ part = "saved" => TheExercises!SavedSound
    /\ part = "lua" => TheLuaStack!Sound
    /\ part = "counters" => TheExercises!CountsSound
    /\ part = "exchange" => TheExercises!ExchangeSound

\* compare_exchange.c: in whatever state the others have left the shared args_t,
\* the last thread ends, and main does not wait for it for ever in pthread_join.
\* Of two threads this cannot be said: they may exchange the fields for ever.
LastJoins ==
    (part = "exchange" /\ TheExercises!OneLeft) ~> (part = "exchange" /\ TheExercises!Joined)
=============================================================================

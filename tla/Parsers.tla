------------------------------ MODULE Parsers ------------------------------
(***************************************************************************)
(* The parsers and lexers, the matchers and the suffix automaton.          *)
(***************************************************************************)
EXTENDS Integers, Sequences, SequencesExt, FiniteSetsExt

(***************************************************************************)
(* json_parser of Sandbox/parser.hpp.  A text is a sequence of lexemes:    *)
(* the marks, the literals, a number, a quoted string, and " " for white   *)
(* space.  Texts without single quotes, as JSON has none.                  *)
(***************************************************************************)

Strings == {"\"a\"", "\"b\""}
Numbers == {"1", "2"}
Blank == " "

token(value, type) == [value |-> value, token_type |-> type]

mark(lexeme) ==
    CASE lexeme = "," -> "COMMA" [] lexeme = ":" -> "COLON"
      [] lexeme = "{" -> "CROUSH_OPEN" [] lexeme = "}" -> "CROUSH_CLOSE"
      [] lexeme = "[" -> "BRACKET_OPEN" [] lexeme = "]" -> "BRACKET_CLOSE"
      [] OTHER -> "NONE"

\* The tokens of one word.  The end of a string is looked for with a test
\* that always holds, so a string is all the rest of the word; of false only
\* four characters are taken, and null is a BOOLEAN too.
RECURSIVE WordTokens(_)
WordTokens(str) ==
    LET rest == Tail(str)
    IN  IF str = <<>> THEN <<>>
        ELSE IF Head(str) \in Strings THEN <<token(str, "STRING")>>
        ELSE IF Head(str) \in {"true", "null"} THEN <<token(<<"true">>, "BOOLEAN")>> \o WordTokens(rest)
        ELSE IF Head(str) = "false" THEN <<token(<<"true">>, "BOOLEAN"), token(<<"e">> \o rest, "UNKNOWN")>>
        ELSE IF Head(str) \in Numbers THEN <<token(<<Head(str)>>, "NUMBER")>> \o WordTokens(rest)
        ELSE <<token(<<Head(str)>>, mark(Head(str)))>> \o WordTokens(rest)

\* next_whitespace and skip_whitespaces cut the text into words.
next_whitespace(source, i) ==
    LET blanks == {k \in i .. Len(source) : source[k] = Blank}
    IN  IF blanks = {} THEN Len(source) + 1 ELSE Min(blanks)
skip_whitespaces(source, i) ==
    LET others == {k \in i .. Len(source) : source[k] # Blank}
    IN  IF others = {} THEN 0 ELSE Min(others)
RECURSIVE TokensFrom(_, _)
TokensFrom(source, i) ==
    LET index == skip_whitespaces(source, i)
        next == next_whitespace(source, index)
    IN  IF index = 0 THEN <<>>
        ELSE WordTokens(SubSeq(source, index, next - 1)) \o TokensFrom(source, next)
tokenize(source) == TokensFrom(source, 1)

-----------------------------------------------------------------------------
(* class value *)

value(type) == [t_type |-> type, t_value |-> <<>>, t_properties |-> <<>>, array |-> <<>>]
set_string(v, s) == [v EXCEPT !.t_value = s]
add_property(v, key, t) == [v EXCEPT !.t_properties = Append(@, <<key, t>>)]
add_element(v, t) == [v EXCEPT !.array = Append(@, t)]
size(v) ==
    IF v.t_type = "ARRAY" THEN Len(v.array)
    ELSE IF v.t_type = "OBJECT" THEN Len(v.t_properties) ELSE 0
\* operator[]: t_mapindex has the last property of a key.
get(v, key) ==
    LET at == {i \in DOMAIN v.t_properties : v.t_properties[i][1] = key}
    IN  IF at = {} THEN value("UNKNOWN") ELSE v.t_properties[Max(at)][2]

\* makesp counts down to zero before it looks: of none it makes without end.
makesp(num) == IF num = 0 THEN "loops" ELSE "ok"
to_string_d(v, d) ==
    CASE v.t_type = "STRING" -> v.t_value \o <<"\"">>
      [] v.t_type \in {"NUMBER", "BOOLEAN"} -> v.t_value
      [] v.t_type = "OBJECT" /\ makesp(d - 1) = "loops" -> <<"loops">>
      [] OTHER -> <<"##">>
to_string(v) == to_string_d(v, 1)

-----------------------------------------------------------------------------
(* json_parse: [value, r, status]; status is "ok", "overrun" where it reads *)
(* behind the tokens, or "loops".                                           *)

Result(v, r, status) == [value |-> v, r |-> r, status |-> status]
type_at(v, k) == v[k].token_type

RECURSIVE json_parse(_, _), ObjectFrom(_, _, _), ArrayFrom(_, _, _)
ObjectFrom(v, k, current) ==
    IF k > Len(v) THEN Result(current, k, "overrun")
    ELSE IF type_at(v, k) = "CROUSH_CLOSE" THEN Result(current, k + 1, "ok")
    ELSE LET vv == json_parse(v, k + 2)
             with == add_property(current, v[k].value, vv.value)
         IN  IF vv.status # "ok" THEN Result(current, k, vv.status)
             ELSE IF vv.r > Len(v) THEN Result(with, vv.r, "overrun")
             ELSE ObjectFrom(v, IF type_at(v, vv.r) = "COMMA" THEN vv.r + 1 ELSE vv.r, with)

ArrayFrom(v, k, current) ==
    IF k > Len(v) THEN Result(current, k, "overrun")
    ELSE IF type_at(v, k) = "BRACKET_CLOSE" THEN Result(current, k + 1, "ok")
    ELSE LET vv == json_parse(v, k)
             with == add_element(current, vv.value)
         IN  IF vv.status # "ok" THEN Result(current, k, vv.status)
             ELSE IF vv.r > Len(v) THEN Result(with, vv.r, "overrun")
             ELSE IF type_at(v, vv.r) = "COMMA" THEN ArrayFrom(v, vv.r + 1, with)
             ELSE IF vv.r = k THEN Result(with, k, "loops")
             ELSE ArrayFrom(v, vv.r, with)
json_parse(v, i) ==
    IF i > Len(v) THEN Result(value("UNKNOWN"), i, "overrun")
    ELSE CASE type_at(v, i) = "CROUSH_OPEN" -> ObjectFrom(v, i + 1, value("OBJECT"))
           [] type_at(v, i) = "BRACKET_OPEN" -> ArrayFrom(v, i + 1, value("ARRAY"))
           [] type_at(v, i) \in {"NUMBER", "STRING", "BOOLEAN"} ->
                  Result(set_string(value(type_at(v, i)), v[i].value), i + 1, "ok")
           [] OTHER -> Result(value("UNKNOWN"), i, "ok")

parse(data) == json_parse(tokenize(data), 1)

-----------------------------------------------------------------------------
(* deserialize: a character of \u is its code. *)

escapes == ("\"" :> "\"") @@ ("\\" :> "\\") @@ ("/" :> "/") @@ ("b" :> "backspace")
           @@ ("f" :> "feed") @@ ("n" :> "newline") @@ ("r" :> "return") @@ ("t" :> "tab")
hex == ("0" :> 0) @@ ("1" :> 1) @@ ("a" :> 10) @@ ("f" :> 15) @@ ("A" :> 0)  \* capitals add nothing
RECURSIVE deserialize(_)
deserialize(ref) ==
    LET next == ref[2]
        v == ((hex[ref[3]] * 16 + hex[ref[4]]) * 16 + hex[ref[5]]) * 16 + hex[ref[6]]
        from(n) == deserialize(SubSeq(ref, n + 1, Len(ref)))
    IN  IF ref = <<>> THEN <<>>
        ELSE IF Head(ref) # "\\" \/ Len(ref) = 1 THEN <<Head(ref)>> \o from(1)
        ELSE IF next \in DOMAIN escapes THEN <<escapes[next]>> \o from(2)
        ELSE IF next = "u" /\ Len(ref) > 5 THEN <<ToString(v % 256)>> \o from(6)
        ELSE from(2)

-----------------------------------------------------------------------------
(* Properties.  A tree is <<"atom", lexeme>>, <<"array", trees>> or         *)
(* <<"object", pairs>>.                                                     *)

Commas(parts) == FoldLeft(LAMBDA r, p : IF r = <<>> THEN p ELSE r \o <<",">> \o p, <<>>, parts)
RECURSIVE Written(_), Meant(_), Atoms(_)
Written(t) ==
    CASE t[1] = "atom" -> <<t[2]>>
      [] t[1] = "array" -> <<"[">> \o Commas([i \in DOMAIN t[2] |-> Written(t[2][i])]) \o <<"]">>
      [] OTHER -> <<"{">> \o Commas([i \in DOMAIN t[2] |-> <<t[2][i][1], ":">> \o Written(t[2][i][2])]) \o <<"}">>
Spaced(s) == FoldLeft(LAMBDA r, l : r \o <<l, Blank>>, <<Blank>>, s)
Atoms(t) ==
    CASE t[1] = "atom" -> {t[2]}
      [] t[1] = "array" -> UNION {Atoms(t[2][i]) : i \in DOMAIN t[2]}
      [] OTHER -> UNION {{t[2][i][1]} \cup Atoms(t[2][i][2]) : i \in DOMAIN t[2]}
Meant(t) ==
    CASE t[1] = "array" -> [value("ARRAY") EXCEPT !.array = [i \in DOMAIN t[2] |-> Meant(t[2][i])]]
      [] t[1] = "object" -> [value("OBJECT") EXCEPT !.t_properties =
             [i \in DOMAIN t[2] |-> <<<<t[2][i][1]>>, Meant(t[2][i][2])>>]]
      [] t[2] \in Strings -> set_string(value("STRING"), <<t[2]>>)
      [] t[2] \in Numbers -> set_string(value("NUMBER"), <<t[2]>>)
      [] OTHER -> set_string(value("BOOLEAN"), <<"true">>)

\* A text with white space around all of its lexemes is read as it is meant
\* (null as true), unless it has a false inside: then an array is read
\* without end, and no object is right.  Without the white space it is read
\* if it has no string: an object with properties is never.
ParseSound(t) ==
    LET spaced == parse(Spaced(Written(t)))
        dense == parse(Written(t))
        isMeant(p) == p.status = "ok" /\ p.value = Meant(t)
    IN  /\ "false" \notin Atoms(t) => isMeant(spaced) /\ size(spaced.value) = size(Meant(t))
        /\ "false" \in Atoms(t) /\ t[1] # "atom" => ~isMeant(spaced)
        /\ t[1] = "array" /\ (\E i \in DOMAIN t[2] : t[2][i] = <<"atom", "false">>) => spaced.status # "ok"
        /\ Atoms(t) \cap (Strings \cup {"false"}) = {} => isMeant(dense)
        /\ t[1] = "object" /\ Len(t[2]) > 0 => dense.status = "overrun"
        /\ t[1] = "object" /\ isMeant(spaced) =>
               /\ to_string(spaced.value) = <<"loops">>
               /\ \A i \in DOMAIN t[2] : (\A j \in i + 1 .. Len(t[2]) : t[2][j][1] # t[2][i][1]) =>
                      get(spaced.value, <<t[2][i][1]>>) = Meant(t[2][i][2])

\* What was escaped is read back; codes lose all above eight bits.
Escaped(s) ==
    FoldLeft(LAMBDA r, c : r \o (IF \E e \in DOMAIN escapes : escapes[e] = c
                                 THEN <<"\\", CHOOSE e \in DOMAIN escapes : escapes[e] = c>>
                                 ELSE <<c>>), <<>>, s)
EscapesSound(s) ==
    /\ deserialize(Escaped(s)) = s
    /\ \A d, e \in DOMAIN hex : deserialize(<<"\\", "u", "0", "1", d, e>>) = <<ToString(16 * hex[d] + hex[e])>>

(***************************************************************************)
(* The parsers and the lexer of the repository that read a line:           *)
(* 2021-12-25-associative-operators-parser (and the same in                *)
(* Sandbox/ll_parser.hpp), 2021-11-11-postfix-exprs-parser,                *)
(* yandex_tasks/other/expression.h, which prints, and lexer/main.cpp.  A   *)
(* line is a sequence of characters; the digits stand for all of theirs.   *)
(***************************************************************************)

Digits == {"1", "2", "3"}
Value(char) == CASE char = "1" -> 1 [] char = "2" -> 2 [] OTHER -> 3

-----------------------------------------------------------------------------
(* class Parser: + to the left, * to the right.  A parsed is <<tree, next>>  *)
(* with next the PeekIndex, or Thrown.                                      *)

Thrown == <<>>
Leaf(char) == <<"number", char>>
Binary(op, left, right) == <<"binary", op, left, right>>

MatchOperator(input, at, op) == at <= Len(input) /\ input[at] = op

\* at() throws behind the end, Term on what is no digit.
Term(input, at) ==
    IF at > Len(input) \/ input[at] \notin Digits THEN Thrown
    ELSE <<Leaf(input[at]), at + 1>>

\* The loop of Multiplicative, whose right side is Multiplicative again.
RECURSIVE MoreFactors(_, _)
MoreFactors(input, parsed) ==
    IF parsed = Thrown \/ ~MatchOperator(input, parsed[2], "*") THEN parsed
    ELSE LET right == MoreFactors(input, Term(input, parsed[2] + 1))
         IN  IF right = Thrown THEN Thrown
             ELSE MoreFactors(input, <<Binary("*", parsed[1], right[1]), right[2]>>)
Multiplicative(input, at) == MoreFactors(input, Term(input, at))

RECURSIVE MoreTerms(_, _)
MoreTerms(input, parsed) ==
    IF parsed = Thrown \/ ~MatchOperator(input, parsed[2], "+") THEN parsed
    ELSE LET right == Multiplicative(input, parsed[2] + 1)
         IN  IF right = Thrown THEN Thrown
             ELSE MoreTerms(input, <<Binary("+", parsed[1], right[1]), right[2]>>)
Additive(input) == MoreTerms(input, Multiplicative(input, 1))

-----------------------------------------------------------------------------
(* class parser: reads with one character of lookahead and prints postfix.  *)
(* At the end of the input cin leaves lookahead_ as it is.                  *)

\* A parser: the lookahead, the rest of the input, what it has printed and
\* whether it threw.
New(input) == [lookahead |-> Head(input), rest |-> Tail(input), out |-> <<>>, thrown |-> FALSE]
parser_match(p) == IF p.rest = <<>> THEN p ELSE [p EXCEPT !.lookahead = Head(p.rest), !.rest = Tail(p.rest)]
term(p) ==
    IF p.lookahead \notin Digits THEN [p EXCEPT !.thrown = TRUE]
    ELSE parser_match([p EXCEPT !.out = Append(@, p.lookahead)])
RECURSIVE MoreOperators(_)
MoreOperators(p) ==
    IF p.thrown \/ p.lookahead \notin {"+", "-"} THEN p
    ELSE LET q == term(parser_match(p))
         IN  IF q.thrown THEN q ELSE MoreOperators([q EXCEPT !.out = Append(@, p.lookahead)])
expr(input) == MoreOperators(term(New(input)))

-----------------------------------------------------------------------------
(* Sum_operation, Product_operation and Const_operation.                    *)

RECURSIVE Evaluate(_)
Evaluate(tree) ==
    IF tree[1] = "number" THEN Value(tree[2])
    ELSE IF tree[2] = "+" THEN Evaluate(tree[3]) + Evaluate(tree[4])
    ELSE Evaluate(tree[3]) * Evaluate(tree[4])

\* dynamic_pointer_cast<Sum_operation>
braces_needed(tree) == tree[1] = "binary" /\ tree[2] = "+"

RECURSIVE ToText(_)
ToText(tree) ==
    LET side(t) == IF braces_needed(t) THEN <<"(">> \o ToText(t) \o <<")">> ELSE ToText(t)
    IN  IF tree[1] = "number" THEN <<tree[2]>>
        ELSE IF tree[2] = "+" THEN ToText(tree[3]) \o <<"+">> \o ToText(tree[4])
        ELSE side(tree[3]) \o <<"*">> \o side(tree[4])

-----------------------------------------------------------------------------
(* class lexer.  A character of a keyword is a letter: Keyword stands for   *)
(* variable and const, Signs for the tokens of one character.               *)

Quote == "\""
Keyword == <<"c", "t">>
Signs == {"=", "+"}

lexer == [first |-> FALSE, open |-> FALSE, pasted |-> 0, at |-> 0, tokens |-> <<>>]

process_string_literal(s, text, i) ==
    LET closes == s.open /\ text[i] = Quote
        closed == IF ~closes THEN s
                  ELSE [s EXCEPT !.open = FALSE, !.at = i, !.pasted = @ + 1,
                           !.tokens = IF s.pasted % 2 = 0
                                      THEN Append(@, <<"literal", SubSeq(text, s.at + 1, i - 1)>>)
                                      ELSE @]
    IN  IF closed.open \/ text[i] # Quote THEN closed
        ELSE [closed EXCEPT !.first = TRUE, !.open = TRUE, !.at = i]

\* The token at i and the last index of it, or none.
process_keyword(text, i) ==
    IF text[i] \in Signs THEN <<<<"sign", <<text[i]>>>>, i>>
    ELSE IF i < Len(text) /\ SubSeq(text, i, i + 1) = Keyword THEN <<<<"keyword", Keyword>>, i + 1>>
    ELSE <<>>
process_digit(text, i) ==
    LET last == CHOOSE j \in i .. Len(text) :
                    /\ \A k \in i .. j : text[k] \in Digits
                    /\ j = Len(text) \/ text[j + 1] \notin Digits
    IN  IF text[i] \in Digits THEN <<<<"digit", SubSeq(text, i, last)>>, last>> ELSE <<>>

RECURSIVE LexFrom(_, _, _)
LexFrom(s, text, i) ==
    IF i > Len(text) THEN s.tokens
    ELSE LET t == process_string_literal(s, text, i)
             found == IF process_keyword(text, i) # <<>> THEN process_keyword(text, i)
                      ELSE process_digit(text, i)
         IN  IF (t.first /\ t.pasted % 2 = 0) \/ found = <<>> THEN LexFrom(t, text, i + 1)
             ELSE LexFrom([t EXCEPT !.tokens = Append(@, found[1])], text, found[2] + 1)
process(text) == LexFrom(lexer, text, 1)

-----------------------------------------------------------------------------
(* Properties *)

\* The longest beginning that is digits with operators between them.
Alternates(input, n, ops) ==
    n % 2 = 1 /\ \A i \in 1 .. n : input[i] \in IF i % 2 = 1 THEN Digits ELSE ops
Longest(input, ops) == Max({0} \cup {n \in 1 .. Len(input) : Alternates(input, n, ops)})

\* The value of digits with + and * between them: the sum of the products of
\* the runs between the pluses.
Worth(input) ==
    LET ends == {i \in DOMAIN input : input[i] = "+"} \cup {Len(input) + 1}
        begin(e) == Max({0} \cup {i \in ends : i < e})
        run(e) == FoldLeft(LAMBDA acc, c : IF c \in Digits THEN acc * Value(c) ELSE acc,
                           1, SubSeq(input, begin(e) + 1, e - 1))
    IN  FoldSet(LAMBDA e, acc : acc + run(e), 0, ends)

RECURSIVE Heights(_)
Heights(tree) == IF tree[1] = "number" THEN 0 ELSE 1 + Heights(tree[4])

\* Parser reads the longest expression at the beginning of the line and does
\* not look behind it, throws when an operator has nothing behind it, and the
\* tree is worth what the line is; + leans to the left, * to the right.
PrecedenceSound(input) ==
    LET n == Longest(input, {"+", "*"})
        parsed == Additive(input)
        dangling == n < Len(input) /\ input[n + 1] \in {"+", "*"}
    IN  /\ (parsed = Thrown) = (n = 0 \/ dangling)
        /\ parsed # Thrown =>
               /\ parsed[2] = n + 1
               /\ Evaluate(parsed[1]) = Worth(SubSeq(input, 1, n))
               /\ ToText(parsed[1]) = SubSeq(input, 1, n)
               /\ "+" \notin ToSet(input) => Heights(parsed[1]) = n \div 2
               /\ "*" \notin ToSet(input) => Heights(parsed[1]) = IF n > 1 THEN 1 ELSE 0

\* What a stack machine makes of postfix.
Run(out) ==
    FoldLeft(LAMBDA st, c : IF c \in Digits THEN Append(st, Value(c))
                            ELSE LET a == st[Len(st) - 1]
                                     b == st[Len(st)]
                                 IN  Append(SubSeq(st, 1, Len(st) - 2), IF c = "+" THEN a + b ELSE a - b),
             <<>>, out)
FromLeft(input) ==
    FoldLeft(LAMBDA acc, i : acc + IF i > 1 /\ input[i - 1] = "-" THEN -Value(input[i]) ELSE Value(input[i]),
             0, SelectSeq([i \in DOMAIN input |-> i], LAMBDA i : input[i] \in Digits))

\* The postfix printed is worth, on a stack, what the line is from left to
\* right; a line that ends in an operator throws, and so does one that begins
\* with no digit.
PostfixSound(input) ==
    LET n == Longest(input, {"+", "-"})
        p == expr(input)
    IN  /\ p.thrown = (n = 0 \/ (n < Len(input) /\ input[n + 1] \in {"+", "-"}))
        /\ ~p.thrown => Run(p.out) = <<FromLeft(SubSeq(input, 1, n))>>

\* The value of a text with brackets, by splitting it at the last operator
\* outside of them, + before *.
RECURSIVE BracketWorth(_)
BracketWorth(text) ==
    LET depth(i) == Cardinality({j \in 1 .. i : text[j] = "("}) - Cardinality({j \in 1 .. i : text[j] = ")"})
        at(op) == {i \in DOMAIN text : text[i] = op /\ depth(i) = 0}
        cut(op) == <<SubSeq(text, 1, Max(at(op)) - 1), SubSeq(text, Max(at(op)) + 1, Len(text))>>
    IN  IF at("+") # {} THEN BracketWorth(cut("+")[1]) + BracketWorth(cut("+")[2])
        ELSE IF at("*") # {} THEN BracketWorth(cut("*")[1]) * BracketWorth(cut("*")[2])
        ELSE IF text[1] = "(" THEN BracketWorth(SubSeq(text, 2, Len(text) - 1))
        ELSE Value(text[1])

\* A printed expression is worth what it evaluates to: no bracket is missing.
PrintingSound(tree) == BracketWorth(ToText(tree)) = Evaluate(tree)

\* Quotes open and close in turn: what is between an odd one and the next is a
\* literal, what is outside gives the tokens of its keywords, signs and runs of
\* digits in order, and a literal nobody closes gives nothing.
RECURSIVE Outside(_)
Outside(text) ==
    IF text = <<>> THEN <<>>
    ELSE LET run == {n \in DOMAIN text : \A k \in 1 .. n : text[k] \in Digits}
             sized(n, kind) == <<<<kind, SubSeq(text, 1, n)>>>> \o Outside(SubSeq(text, n + 1, Len(text)))
         IN  IF text[1] \in Signs THEN sized(1, "sign")
             ELSE IF IsPrefix(Keyword, text) THEN sized(2, "keyword")
             ELSE IF run # {} THEN sized(Max(run), "digit")
             ELSE Outside(Tail(text))
RECURSIVE Lexemes(_)
Lexemes(text) ==
    LET quotes == {i \in DOMAIN text : text[i] = Quote}
        first == Min(quotes)
        second == Min(quotes \ {first})
    IN  IF quotes = {} THEN Outside(text)
        ELSE Outside(SubSeq(text, 1, first - 1)) \o
             IF Cardinality(quotes) = 1 THEN <<>>
             ELSE <<<<"literal", SubSeq(text, first + 1, second - 1)>>>>
                      \o Lexemes(SubSeq(text, second + 1, Len(text)))
LexerSound(text) == process(text) = Lexemes(text)

(***************************************************************************)
(* The matchers: lightning/Regex/regex.cpp, regex/main.cpp, contain of     *)
(* Sandbox/string_contains.hpp and split of Sandbox/finite_automata.hpp.   *)
(* Texts are sequences of characters that end with NUL; an answer is       *)
(* "yes", "no", or "overrun" where the code reads behind the NUL.          *)
(***************************************************************************)

NUL == "NUL"
char(s, p) == IF p <= Len(s) THEN s[p] ELSE NUL
Answer(b) == IF b THEN "yes" ELSE "no"

isdigit(ch) == ch \in {"0", "1"}
isspace(ch) == ch = " "
isalpha(ch) == ch \in {"a", "b", "d", "D", "s", "S", "w", "W"}

-----------------------------------------------------------------------------
(* lightning::Regex; a group is [ch, set]: set is its bit 0x100.           *)

match_group(ch, group) ==
    LET g == [group EXCEPT !.set = IF group.ch = "." THEN ~@ ELSE @]
    IN  IF ~g.set THEN ch = g.ch
        ELSE CASE g.ch = "." -> TRUE
               [] g.ch = "d" -> isdigit(ch)
               [] g.ch = "D" -> ~isdigit(ch)
               [] g.ch = "s" -> isspace(ch)
               [] g.ch = "S" -> ~isspace(ch)
               [] g.ch = "w" -> isalpha(ch) \/ isdigit(ch)
               [] g.ch = "W" -> ~(isalpha(ch) \/ isdigit(ch))
               [] OTHER -> FALSE

\* Where the characters of group end that start at p.
RECURSIVE RunEnd(_, _, _)
RunEnd(s, p, group) ==
    IF char(s, p) # NUL /\ match_group(char(s, p), group) THEN RunEnd(s, p + 1, group) ELSE p

RECURSIVE match_exists(_, _, _, _), match_quantity(_, _, _, _, _, _), Backtrack(_, _, _, _, _)

\* What was taken for ? is not given back; - is no quantifier and never fits.
match_quantity(regex, r, s, p, quant, group) ==
    IF quant = "?"
    THEN match_exists(regex, r, s, IF match_group(char(s, p), group) THEN p + 1 ELSE p)
    ELSE IF quant = "-" \/ (quant = "+" /\ RunEnd(s, p, group) = p) THEN "no"
    ELSE Backtrack(regex, r, s, RunEnd(s, p, group), p)
Backtrack(regex, r, s, q, p) ==
    LET m == match_exists(regex, r, s, q)
    IN  IF m # "no" \/ q = p THEN m ELSE Backtrack(regex, r, s, q - 1, p)

match_exists(regex, r, s, p) ==
    LET escaped == char(regex, r) = "\\" /\ char(regex, r + 1) # NUL
        at == IF escaped THEN r + 1 ELSE r
        ch == char(regex, at)
        group == [ch |-> ch, set |-> escaped /\ ch \notin {"\\", "^", "$", "+", "*", "?"}]
        q == char(regex, at + 1)
    IN  IF char(regex, r) = NUL THEN "yes"
        ELSE IF p > Len(s) + 1 THEN "overrun"
        ELSE IF q \in {"*", "+", "-", "?"} THEN match_quantity(regex, at + 2, s, p, q, group)
        ELSE IF match_group(char(s, p), group) THEN match_exists(regex, at + 1, s, p + 1)
        ELSE "no"

-----------------------------------------------------------------------------
(* class regex of regex/main.cpp; u is unmatched.                          *)

InClass(class, ch) ==
    \/ class = "d" /\ isdigit(ch)
    \/ class = "D" /\ ~isdigit(ch)
    \/ class = "s" /\ isspace(ch)
    \/ class = "S" /\ ~isspace(ch)

strstr(text, u, word) ==
    \E i \in u .. Len(text) + 1 - Len(word) : SubSeq(text, i, i + Len(word) - 1) = word

RECURSIVE match(_, _, _, _)
match(text, u, pattern, i) ==
    LET class == char(pattern, i + 1)
        hit == \E k \in u .. Max({u, Len(text)}) : InClass(class, char(text, k))
    IN  IF char(pattern, i) = NUL THEN "yes"
        ELSE IF char(pattern, i) \notin {"\\", "+", ".", "?", "*"}
        THEN Answer(strstr(text, u, SubSeq(pattern, i, Len(pattern))))
        ELSE IF i + 2 > Len(pattern) + 1 THEN "overrun"
        ELSE IF char(pattern, i) # "\\" \/ class \notin {"d", "D", "s", "S"}
        THEN match(text, u, pattern, i + 2)
        ELSE IF hit THEN "yes"
        ELSE IF u = Len(text) + 1 THEN "overrun"
        ELSE match(text, Len(text) + 1, pattern, i + 2)

-----------------------------------------------------------------------------
\* contain: b and s are base_begin and sub_begin.  After a part of substring
\* was found the search goes on one character behind it.
RECURSIVE Equal(_, _, _, _), contain(_, _, _)
Equal(base, sub, b, s) ==
    IF char(base, b) = char(sub, s) /\ b <= Len(base) /\ s <= Len(sub)
    THEN Equal(base, sub, b + 1, s + 1) ELSE <<b, s>>
contain(base, sub, b) ==
    LET e == Equal(base, sub, b, 1)
    IN  IF b > Len(base) + 1 THEN "overrun"
        ELSE IF b = Len(base) + 1 \/ sub = <<>> THEN "no"
        ELSE IF e[2] = Len(sub) + 1 THEN "yes"
        ELSE contain(base, sub, e[1] + 1)

\* split at the characters of delim
RECURSIVE split(_, _)
split(data, delim) ==
    LET begin == SelectInSeq(data, LAMBDA c : c \notin delim)
        rest == SubSeq(data, begin, Len(data))
        end == SelectInSeq(rest, LAMBDA c : c \in delim)
    IN  IF begin = 0 THEN <<>>
        ELSE IF end = 0 THEN <<rest>>
        ELSE <<SubSeq(rest, 1, end - 1)>> \o split(SubSeq(rest, end, Len(rest)), delim)

-----------------------------------------------------------------------------
(* Properties.  An item is [group, quant]; Text writes a regex down.       *)

Text(items) ==
    FoldLeft(LAMBDA r, i : r \o (IF i.group.set THEN <<"\\">> ELSE <<>>) \o <<i.group.ch>>
                             \o (IF i.quant = "" THEN <<>> ELSE <<i.quant>>), <<>>, items)
RECURSIVE Closure(_, _, _)
Closure(s, group, P) ==
    LET Q == P \cup {p + 1 : p \in {p \in P : char(s, p) # NUL /\ match_group(s[p], group)}}
    IN  IF Q = P THEN P ELSE Closure(s, group, Q)
Ends(s, P, item) ==
    LET fit == {p \in P : match_group(char(s, p), item.group)}
    IN  CASE item.quant = "" -> {p + 1 : p \in fit}
          [] item.quant = "?" -> {p + 1 : p \in fit} \cup (P \ fit)
          [] item.quant = "*" -> Closure(s, item.group, P)
          [] item.quant = "+" -> Closure(s, item.group, fit)
          [] OTHER -> {}

\* match_exists agrees with all the ways to match a prefix of the text, tried
\* at once; ? takes its character whenever it can, and + gives even the one
\* back that it must have had.  The code reads behind the text only for a group
\* that takes the NUL for a character.
RegexSound(items, s) ==
    LET result == match_exists(Text(items), 1, s, 1)
        safe == \A i \in DOMAIN items : ~match_group(NUL, items[i].group)
    IN  /\ safe => result = Answer(FoldLeft(LAMBDA P, i : Ends(s, P, i), {1}, items) # {})
        /\ result = "overrun" => \E i \in DOMAIN items : match_group(NUL, items[i].group)

\* A pattern of classes is never refused: where none is found the rest of the
\* pattern decides, and the empty one fits.  A class that is found ends it.
ClassesSound(classes, s) ==
    LET pattern == FlattenSeq([i \in DOMAIN classes |-> <<"\\", classes[i]>>])
        result == match(s, 1, pattern, 1)
        found == \E k \in DOMAIN s : classes # <<>> /\ InClass(classes[1], s[k])
    IN  /\ result # "no"
        /\ found => result = "yes"
        /\ result = "overrun" => \E i \in DOMAIN classes : classes[i] \in {"d", "s"}

\* What contain finds is there.  It finds it unless the text has the first
\* character of it before.
ContainSound(base, sub) ==
    LET at == {i \in DOMAIN base : i + Len(sub) - 1 <= Len(base) /\ SubSeq(base, i, i + Len(sub) - 1) = sub}
        starts == {i \in DOMAIN base : base[i] = sub[1]}
        result == contain(base, sub, 1)
    IN  sub # <<>> => /\ result = "yes" => at # {}
                      /\ at # {} /\ Min(starts) = Min(at) => result = "yes"
                      /\ starts = {} => result = "no"

\* The parts hold what is no delimiter, are not empty, and lie apart.
SplitSound(data, delim) ==
    LET parts == split(data, delim)
    IN  /\ FlattenSeq(parts) = SelectSeq(data, LAMBDA c : c \notin delim)
        /\ \A i \in DOMAIN parts : parts[i] # <<>> /\ ToSet(parts[i]) \cap delim = {}
        /\ Len(parts) = Cardinality({i \in DOMAIN data : data[i] \notin delim
                                        /\ (i = 1 \/ data[Max({1, i - 1})] \in delim)})

(***************************************************************************)
(* class suffix_automaton of Sandbox/suffix_automaton.hpp.  States count   *)
(* from 0, the root; positions in the input do too.                        *)
(***************************************************************************)

None == -1
Junk == -1000   \* first_ of the root, which is never set

state(length) == [length |-> length, link |-> None, first |-> Junk, transitions |-> <<>>]

get_transition(st, symbol) ==
    IF symbol \in DOMAIN st.transitions THEN st.transitions[symbol] ELSE None
add_transition(st, symbol, to) == [st EXCEPT !.transitions = @ @@ (symbol :> to)]
update_transition(st, symbol, to) ==
    IF symbol \in DOMAIN st.transitions THEN [st EXCEPT !.transitions[symbol] = to] ELSE st

add_state(states, length) == states @@ (Cardinality(DOMAIN states) :> state(length))

\* The first loop of build_automaton: up the links until there is a
\* transition over symbol.
RECURSIVE Climb(_, _, _, _)
Climb(states, linked, symbol, current) ==
    LET transition == get_transition(states[linked], symbol)
        added == [states EXCEPT ![linked] = add_transition(@, symbol, current)]
    IN  IF transition # None
        THEN [states |-> states, linked |-> linked, transition |-> transition]
        ELSE IF states[linked].link = None
        THEN [states |-> added, linked |-> None, transition |-> None]
        ELSE Climb(added, states[linked].link, symbol, current)

\* The second one: the transitions to old go to the clone from here on up.
RECURSIVE Redirect(_, _, _, _, _)
Redirect(states, linked, symbol, old, clone) ==
    IF linked = None \/ get_transition(states[linked], symbol) # old THEN states
    ELSE Redirect([states EXCEPT ![linked] = update_transition(@, symbol, clone)],
                  states[linked].link, symbol, old, clone)

\* Mutant: the clone takes no transitions over.
ExtendBare(s, symbol) ==
    LET current == Cardinality(DOMAIN s.states)
        with == add_state(s.states, s.states[s.last].length + 1)
        c == Climb([with EXCEPT ![current].first = s.states[s.last].length], s.last, symbol, current)
        old == c.transition
        clone == current + 1
        grown == add_state([c.states EXCEPT ![current].link = clone, ![old].link = clone],
                           c.states[c.linked].length + 1)
        cloned == [grown EXCEPT ![clone].link = c.states[old].link,
                                ![clone].first = c.states[old].first]
    IN  [last |-> current, states |->
            IF c.linked = None THEN [c.states EXCEPT ![current].link = 0]
            ELSE IF c.states[old].length = c.states[c.linked].length + 1
            THEN [c.states EXCEPT ![current].link = old]
            ELSE Redirect(cloned, c.linked, symbol, old, clone)]

\* One symbol of build_automaton.
Extend(s, symbol) ==
    LET current == Cardinality(DOMAIN s.states)
        with == add_state(s.states, s.states[s.last].length + 1)
        c == Climb([with EXCEPT ![current].first = s.states[s.last].length], s.last, symbol, current)
        old == c.transition
        clone == current + 1
        grown == add_state([c.states EXCEPT ![current].link = clone, ![old].link = clone],
                           c.states[c.linked].length + 1)
        cloned == [grown EXCEPT ![clone].link = c.states[old].link,
                                ![clone].transitions = c.states[old].transitions,
                                ![clone].first = c.states[old].first]
    IN  [last |-> current, states |->
            IF c.linked = None THEN [c.states EXCEPT ![current].link = 0]
            ELSE IF c.states[old].length = c.states[c.linked].length + 1
            THEN [c.states EXCEPT ![current].link = old]
            ELSE Redirect(cloned, c.linked, symbol, old, clone)]

build_automaton(input) ==
    FoldLeft(Extend, [states |-> 0 :> state(0), last |-> 0], input).states

-----------------------------------------------------------------------------
Reached(states, input) ==
    FoldLeft(LAMBDA t, symbol : IF t = None THEN None ELSE get_transition(states[t], symbol), 0, input)

contains(states, input) == Reached(states, input) # None

normalized_string_position(states, t, input) == states[t].first - Len(input) + 1

first(states, input) ==
    LET t == Reached(states, input)
    IN  IF t = None THEN -1 ELSE normalized_string_position(states, t, input)

suffix_references(states, t) == {i \in DOMAIN states \ {0} : states[i].link = t}

\* The states below t in the tree of links.
RECURSIVE Below(_, _)
Below(states, t) == {t} \cup UNION {Below(states, r) : r \in suffix_references(states, t)}

positions(states, input) ==
    LET t == Reached(states, input)
    IN  IF t = None THEN {}
        ELSE {normalized_string_position(states, u, input) : u \in Below(states, t)}

-----------------------------------------------------------------------------
(* Properties *)

At(text, word, i) == SubSeq(text, i + 1, i + Len(word)) = word
Occurrences(text, word) == {i \in 0 .. Len(text) - Len(word) : At(text, word, i)}

\* The automaton of a text contains just its factors, knows where each one
\* occurs first and all the places where it does; it has fewer than two
\* states for each symbol, and links lead to shorter ones.
SuffixSound(text, words) ==
    LET states == build_automaton(text)
    IN  /\ contains(states, <<>>)
        /\ \A word \in words \ {<<>>} :
               LET occurrences == Occurrences(text, word)
               IN  /\ contains(states, word) <=> occurrences # {}
                   /\ first(states, word) = IF occurrences = {} THEN -1 ELSE Min(occurrences)
                   /\ positions(states, word) = occurrences
        /\ text # <<>> => Cardinality(DOMAIN states) <= 2 * Len(text)
        /\ \A i \in DOMAIN states \ {0} : states[states[i].link].length < states[i].length
=============================================================================

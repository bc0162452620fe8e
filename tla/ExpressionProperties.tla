------------------------ MODULE ExpressionProperties ------------------------
(***************************************************************************)
(* Properties of expressions, against a grammar and the values of its      *)
(* derivations; and of literals, against the list in src/README:185.       *)
(***************************************************************************)
EXTENDS Expression

\* Every variable has a value of its kind, and the stack is never full.
TypeOK ==
    /\ source \in Sources /\ assembler_pass \in {0, 2}
    /\ p \in 1..Len(source) + 1 /\ column \in Nat
    /\ Len(match_stack) < StackDepth
    /\ \A i \in DOMAIN match_stack :
          LET item == match_stack[i]
          IN  /\ item.casei \in Binary \cup {"(", "-sign", "+sign"}
              /\ item.open \in (IF item.casei = "(" THEN 1..MaxOpen ELSE {0})
              /\ item.level \in 0..6 /\ item.value1 \in Values
    /\ level \in 0..6 /\ rank \in 0..5 /\ value1 \in Values /\ instruction_value \in Values
    /\ has_undefined \in BOOLEAN /\ used \subseteq {"is_address_used", "is_start_used"}
    /\ errors \subseteq {"Expression too deep", "Missing close paren", "Missing close quote",
                         "bad label", "Undefined label", "division by zero", "modulo by zero",
                         "shift by larger than 31"}
    /\ pc \in {"match", "operator", "pop", "done", "trapped"}
    /\ end \in 0..Len(source) + 1

-----------------------------------------------------------------------------
(* The grammar: an expression of level k is an operand, an expression in    *)
(* parentheses, a sign and one of level 6, or, for an operator of a rank r  *)
(* that is not below k, one of level r, the operator and one of level r + 1.*)

Reading(value, flaws) == [value |-> value, flaws |-> flaws]

OperandReading(token) ==
    CASE token.op = "literal" -> {Reading(Literal(token.text).value, {})}
      [] token.op = "characters" -> {Reading(CharacterConstant(token.bytes), {})}
      [] token.op = "$" -> {Reading(Address, {})}
      [] token.op = "$$" -> {Reading(StartAddress, {})}
      [] token.op = "label" ->
            IF token.name \in DOMAIN Labels THEN {Reading(Labels[token.name], {})}
            ELSE {Reading(0, {"Undefined label"})}
      [] OTHER -> {}

SignReading(op, r) ==
    Reading(CASE op = "+" -> r.value
              [] op = "-" -> Wrap(-r.value)
              [] op = "~" -> Wrap(-r.value - 1), r.flaws)

OperatorReading(op, a, b) ==
    Reading(Apply(op, a.value, b.value), a.flaws \cup b.flaws \cup Flaws(op, b.value))

\* Readings of n tokens from a on that an operator joins which is at m; read has those
\* of fewer tokens.
Joined(read, text, n, a, m) ==
    {OperatorReading(text[m].op, x, y) :
        x \in read[m - a][a][Rank[text[m].op]],
        y \in read[a + n - 1 - m][m + 1][Rank[text[m].op] + 1]}

ReadingsFrom(read, text, n, a, k) ==
    (IF n = 1 THEN OperandReading(text[a]) ELSE {})
    \cup (IF n > 1 /\ text[a].op \in Unary
          THEN {SignReading(text[a].op, r) : r \in read[n - 1][a + 1][6]} ELSE {})
    \cup (IF n > 1 /\ text[a].op = "(" /\ text[a + n - 1].op = ")"
          THEN read[n - 2][a + 1][0] ELSE {})
    \cup UNION {Joined(read, text, n, a, m) :
                   m \in {i \in a + 1..a + n - 2 : /\ text[i].op \in Binary
                                                 /\ Rank[text[i].op] >= k}}

\* For each number of tokens, each place of the first one, and each level.
Expressions(text) ==
    LET read[n \in 0..Len(text)] ==
            [a \in 1..Len(text) + 1 - n |->
                [k \in 0..6 |-> ReadingsFrom(read, text, n, a, k)]]
    IN  read

\* The readings of the tokens from i to j as an expression.
Readings(i, j) == Expressions(source)[j + 1 - i][i][0]

Clean(texts) == {"bad label", "Missing close quote", "Expression too deep"} \cap texts = {}

Uses(i, j) ==
    UNION {CASE source[n].op \in {"$", "$$"} -> {"is_address_used", "is_start_used"}
             [] source[n].op = "label" -> {"is_start_used"}
             [] OTHER -> {} : n \in i..j}

-----------------------------------------------------------------------------

\* match_expression() reads the longest expression that the grammar has at this
\* place, with all that binds tighter or weaker, signs that are squeezed, and
\* parentheses that share an item; its value is that of the derivation, or 0 if a
\* label is undefined; the messages and the flags are those of its parts.  And it
\* gives up only if there is no expression here.
ResultIsRight ==
    pc = "done" /\ column = 0 /\ Clean(errors) =>
        IF end = 0
        THEN \A j \in 1..Len(source) : IsOperator(j + 1) \/ Readings(1, j) = {}
        ELSE /\ ~IsOperator(end)
             /\ \E r \in Readings(1, end - 1) :
                   LET undefined == "Undefined label" \in r.flaws
                   IN  /\ instruction_value = IF undefined THEN 0 ELSE r.value
                       /\ has_undefined = undefined
                       /\ errors = IF assembler_pass > 1 THEN r.flaws ELSE {}
                       /\ used = Uses(1, end - 1)

\* Behind an operator the level is higher, and behind a sign there is nothing but an
\* open parenthesis, so that six operators and a sign are the most that wait at the
\* same time: an expression without parentheses is never too deep, however long it is
\* (src/README:219).
LevelsGrow ==
    \A i \in DOMAIN match_stack :
        LET next == IF i < Len(match_stack) THEN match_stack[i + 1] ELSE Item("", 0, 0)
        IN  /\ match_stack[i].casei \in Binary => match_stack[i].level < next.level
            /\ match_stack[i].casei \in {"-sign", "+sign"} => next.casei \in {"", "("}

-----------------------------------------------------------------------------

Form(digits, base) == [digits |-> digits, base |-> base]

NoUnderscore(digits) == SelectSeq(digits, LAMBDA c : c # "_")

AllIn(digits, chars) == \A i \in DOMAIN digits : digits[i] \in chars

\* The forms of src/README:185 that a text has; no digit need follow a prefix.
Forms(text) ==
    LET n == Len(text)
        rest == SubSeq(text, 3, n)
        suffixed(c, base) ==
            IF n > 1 /\ text[n] = c /\ text[1] \in DigitsBelow(10)
               /\ AllIn(Front(text), DigitsBelow(base))
            THEN {Form(Front(text), base)} ELSE {}
        prefixed(s, base) ==
            IF IsPrefix(s, text) /\ AllIn(rest, DigitsBelow(base)) THEN {Form(rest, base)} ELSE {}
    IN  (IF AllIn(text, DigitsBelow(10)) THEN {Form(text, 10)} ELSE {})
        \cup (IF IsPrefix(<<"0", "b">>, text) /\ AllIn(rest, {"0", "1", "_"})
              THEN {Form(NoUnderscore(rest), 2)} ELSE {})
        \cup prefixed(<<"0", "x">>, 16) \cup prefixed(<<"0", "o">>, 8)
        \cup (IF text[1] = "$" /\ AllIn(Tail(text), DigitsBelow(16))
              THEN {Form(Tail(text), 16)} ELSE {})
        \cup suffixed("b", 2) \cup suffixed("o", 8) \cup suffixed("h", 16)

Positional(form) ==
    LET n == Len(form.digits)
    IN  Wrap(MapThenSumSet(LAMBDA k : Digit(form.digits[k]) * form.base^(n - k), 1..n))

\* What mininasm reads differently: the digit 2 in front of the suffix b.
BinaryTwo(text) == Last(text) = "b" /\ "2" \in {text[i] : i \in DOMAIN text}

\* A literal is accepted if it has one of the documented forms, also if its first
\* characters look like those of another one (0b1h, 1b0h), and has its value.
LiteralsAreRight ==
    pc = "done" /\ Len(source) = 1 /\ source[1].op = "literal" /\ ~BinaryTwo(source[1].text) =>
        IF "bad label" \in errors \/ column # 0
        THEN Forms(source[1].text) = {}
        ELSE {Positional(f) : f \in Forms(source[1].text)} = {instruction_value}

\* %DEFINE takes an integer literal with signs in front, and nothing else
\* (src/README:266): an expression as its value would bind otherwise where the macro
\* is used.  Excepted is what follows the suffix h or a character constant, as in
\* `%define X 5h+2'; and literals with the suffixes b and o are refused, and those
\* in base 16 that begin like one in base 2 (0b1h).
DefineValuesAreLiterals ==
    pc = "done" /\ BehindSigns <= Len(source) =>
        LET token == source[BehindSigns]
            literal == /\ BehindSigns = Len(source)
                       /\ \/ token.op = "literal" /\ Forms(token.text) # {}
                          \/ token.op = "characters" /\ Len(token.bytes) = 1
            taken == IsDefineValue /\ end = Len(source) + 1 /\ errors = {} /\ ~has_undefined
        IN  /\ taken => literal \/ EndsUnchecked(token)
            /\ literal /\ token.op = "literal" =>
                  \/ taken \/ Last(token.text) \in {"b", "o"}
                  \/ Last(token.text) = "h" /\ IsPrefixed(token.text)
            /\ literal /\ token.op = "characters" => taken

\* src/README:206: the behavior is deterministic, and the same as on i386, "if some
\* arguments of division (`//') or modulo (`%%') are negative".
DivisionIsDefined == pc # "trapped"

=============================================================================

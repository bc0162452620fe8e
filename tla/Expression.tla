----------------------------- MODULE Expression -----------------------------
(***************************************************************************)
(* match_expression(): it evaluates an expression in one scan, with a      *)
(* stack of its own in place of recursive calls.  What waits on the stack  *)
(* are open parentheses, unary signs, and binary operators with their left *)
(* operand; a level says which operators may follow an operand.            *)
(***************************************************************************)
EXTENDS Integers, Sequences, FiniteSetsExt, SequencesExt

CONSTANTS
    Sources,        \* the texts considered, as sequences of tokens
    Bits,           \* CONFIG_VALUE_BITS
    ByteBits,       \* 8, the bits of a character in a constant
    StackDepth,     \* CONFIG_MATCH_STACK_DEPTH
    MaxOpen,        \* 127, the most parentheses in one item of the stack
    Labels,         \* the values of the labels that are defined
    Address, StartAddress

ASSUME SizesAssumption ==
    /\ Bits \in Nat \ {0, 1} /\ ByteBits \in Nat \ {0}
    /\ StackDepth \in Nat \ {0} /\ MaxOpen \in Nat \ {0}

ASSUME SourcesAssumption ==
    \A s \in Sources :
        /\ s \in Seq(Range(s))
        /\ \A i \in DOMAIN s :
              /\ s[i].op = "literal" => s[i].text \in Seq(Range(s[i].text))
              /\ s[i].op = "characters" => s[i].bytes \in Seq(0..2^ByteBits - 1)

Values == 0..2^Bits - 1

ASSUME ValuesAssumption ==
    Address \in Values /\ StartAddress \in Values /\ \A l \in DOMAIN Labels : Labels[l] \in Values

\* The loops behind have_value1, from the one that binds weakest.
Rank ==
    [op \in {"|", "^", "&", "<<", ">>", "+", "-", "*", "/", "//", "%", "%%"} |->
        CASE op = "|" -> 0
          [] op = "^" -> 1
          [] op = "&" -> 2
          [] op \in {"<<", ">>"} -> 3
          [] op \in {"+", "-"} -> 4
          [] op \in {"*", "/", "//", "%", "%%"} -> 5]

Binary == DOMAIN Rank
Unary == {"+", "-", "~"}

VARIABLES
    source, assembler_pass,
    p,                  \* the next token
    column,             \* characters of it that have been read
    match_stack,
    level, value1,
    rank,               \* the loop that is running
    has_undefined, used,    \* which of is_address_used, is_start_used are set
    errors,
    pc,                 \* "match", "operator", "pop", "done", "trapped"
    end,                \* what is returned, NULL as 0
    instruction_value

position == <<p, column>>
result == <<end, instruction_value>>
vars == <<source, assembler_pass, position, match_stack, level, value1, rank, has_undefined,
          used, errors, pc, result>>

-----------------------------------------------------------------------------
(* Arithmetic modulo 2^Bits. *)

Wrap(n) == n % 2^Bits

Smallest == 2^(Bits - 1)        \* as a signed value

Signed(v) == IF v >= Smallest THEN v - 2^Bits ELSE v

Magnitude(v) == IF Signed(v) < 0 THEN -Signed(v) ELSE v

Bit(v, k) == (v \div 2^k) % 2

OneBit(op, x, y) ==
    CASE op = "&" -> x * y
      [] op = "^" -> (x + y) % 2
      [] op = "|" -> x + y - x * y

Bitwise(op, a, b) ==
    MapThenSumSet(LAMBDA k : 2^k * OneBit(op, Bit(a, k), Bit(b, k)), 0..Bits - 1)

\* Rounds towards zero.
ValueDiv(a, b) ==
    LET d == Magnitude(a) \div Magnitude(b)
    IN  Wrap(IF (Signed(a) < 0) = (Signed(b) < 0) THEN d ELSE -d)

ByZero(op, b) == op \in {"/", "//", "%", "%%"} /\ b = 0
TooFar(op, b) == op \in {"<<", ">>"} /\ b >= Bits

\* The right operand that is used in place of an impossible one.
RightOperand(op, b) == IF ByZero(op, b) THEN 1 ELSE IF TooFar(op, b) THEN 0 ELSE b

Apply(op, a, right) ==
    LET b == RightOperand(op, right)
    IN  CASE op = "*" -> Wrap(a * b)
          [] op = "/" -> a \div b
          [] op = "//" -> ValueDiv(a, b)
          [] op = "%" -> a % b
          [] op = "%%" -> Wrap(a - ValueDiv(a, b) * b)
          [] op = "+" -> Wrap(a + b)
          [] op = "-" -> Wrap(a - b)
          [] op = "<<" -> Wrap(a * 2^b)
          [] op = ">>" -> a \div 2^b
          [] op \in {"&", "^", "|"} -> Bitwise(op, a, b)

Flaws(op, b) ==
    IF ByZero(op, b)
    THEN {IF op \in {"/", "//"} THEN "division by zero" ELSE "modulo by zero"}
    ELSE IF TooFar(op, b) THEN {"shift by larger than 31"} ELSE {}

-----------------------------------------------------------------------------
(* Literals.  The text has only characters that may be in a label. *)

HexDigits == <<"0", "1", "2", "3", "4", "5", "6", "7", "8", "9", "a", "b", "c", "d", "e", "f">>

Digit(c) == (CHOOSE i \in DOMAIN HexDigits : HexDigits[i] = c) - 1

DigitsBelow(base) == {HexDigits[i] : i \in 1..base}

CharAt(text, i) == IF i \in DOMAIN text THEN text[i] ELSE " "

Lower(c) == IF c = "O" THEN "o" ELSE c

RunEnd(text, i, chars) ==
    Min({j \in i..Len(text) : text[j] \notin chars} \cup {Len(text) + 1})

\* Base 2 is a shift and an OR, which matters for the digit 2; underscores are skipped.
Number(digits, base) ==
    LET carry(v, c) == IF c = "_" THEN v
                       ELSE IF base = 2 THEN Apply("|", Wrap(2 * v), Digit(c))
                       ELSE Wrap(base * v + Digit(c))
    IN  FoldLeft(carry, 0, digits)

\* The digits from i on; behind them the suffix, if there is one, and nothing else.
Based(text, i, base, suffix) ==
    LET last == RunEnd(text, i, DigitsBelow(base))
        bad_suffix == suffix # "" /\ CharAt(text, last) # suffix
        next == IF suffix = "" \/ bad_suffix THEN last ELSE last + 1
    IN  [value |-> Number(SubSeq(text, i, last - 1), base),
         next |-> next,
         bad |-> bad_suffix \/ next <= Len(text)]

\* Faulty variant: a hexadecimal literal is not looked for behind other digits.
OrHexNot(text, i, value) == [value |-> value, next |-> i, bad |-> i <= Len(text)]

\* Digits of another base end at i: is it a hexadecimal literal?
OrHex(text, i, value) ==
    IF CharAt(text, i) \in {"h"} \cup DigitsBelow(16)
    THEN Based(text, 1, 16, "h")
    ELSE [value |-> value, next |-> i, bad |-> i <= Len(text)]

\* Behind the suffix b nothing is checked: what follows is not read.
BinarySuffix(text) ==
    LET b == RunEnd(text, 1, DigitsBelow(3))
    IN  IF CharAt(text, b + 1) \in {"h"} \cup DigitsBelow(16)
        THEN Based(text, 1, 16, "h")
        ELSE [value |-> Number(SubSeq(text, 1, b - 1), 2), next |-> b + 1, bad |-> FALSE]

BinaryPrefix(text) ==
    LET last == RunEnd(text, 3, {"0", "1", "_"})
    IN  OrHex(text, last, Number(SubSeq(text, 3, last - 1), 2))

Literal(text) ==
    LET prefix == Lower(CharAt(text, 2))
        last == RunEnd(text, 1, DigitsBelow(10))
        suffix == Lower(CharAt(text, last))
    IN  CASE text[1] = "0" /\ prefix = "b" -> BinaryPrefix(text)
          [] text[1] = "0" /\ prefix = "x" -> Based(text, 3, 16, "")
          [] text[1] = "0" /\ prefix = "o" -> Based(text, 3, 8, "")
          [] text[1] = "$" -> Based(text, 2, 16, "")
          [] OTHER -> CASE suffix = "o" -> Based(text, 1, 8, "o")
                        [] suffix = "b" -> BinarySuffix(text)
                        [] OTHER -> OrHex(text, last, Number(SubSeq(text, 1, last - 1), 10))

\* The first characters that fit, the first one lowest.
CharacterConstant(bytes) ==
    LET fits == {k \in DOMAIN bytes : (k - 1) * ByteBits < Bits}
    IN  Wrap(MapThenSumSet(LAMBDA k : bytes[k] * 2^((k - 1) * ByteBits), fits))

-----------------------------------------------------------------------------
(* is_define_value(): what %DEFINE and -D take is decided before it is evaluated. *)

BehindSigns == Min({i \in DOMAIN source : source[i].op \notin Unary} \cup {Len(source) + 1})

IsPrefixed(text) ==
    text[1] = "$" \/ (text[1] = "0" /\ Lower(CharAt(text, 2)) \in {"b", "x", "o"})

DigitsEnd(text) ==
    CASE ~IsPrefixed(text) -> RunEnd(text, 1, DigitsBelow(10))
      [] IsPrefixed(text) /\ CharAt(text, 2) = "b" -> RunEnd(text, 3, {"0", "1", "_"})
      [] IsPrefixed(text) /\ Lower(CharAt(text, 2)) = "o" -> RunEnd(text, 3, DigitsBelow(8))
      [] OTHER -> RunEnd(text, 3, DigitsBelow(16))

\* What is behind the suffix h or a closing quote is not looked at.
EndsUnchecked(token) ==
    \/ token.op = "characters" /\ Len(token.bytes) = 1
    \/ /\ token.op = "literal" /\ ~IsPrefixed(token.text)
       /\ CharAt(token.text, RunEnd(token.text, 1, DigitsBelow(16))) = "h"

\* Faulty variant: what is behind the digits is not looked at.
IsDefineValueAtStart ==
    BehindSigns <= Len(source) /\ source[BehindSigns].op \in {"literal", "characters"}

IsDefineValue ==
    /\ BehindSigns <= Len(source)
    /\ LET token == source[BehindSigns]
       IN  \/ EndsUnchecked(token)
           \/ /\ token.op = "literal" /\ BehindSigns = Len(source)
              /\ DigitsEnd(token.text) > Len(token.text)

-----------------------------------------------------------------------------

At(ops) == column = 0 /\ p <= Len(source) /\ source[p].op \in ops

Fail(error) ==
    /\ errors' = errors \cup error
    /\ pc' = "done" /\ end' = 0 /\ instruction_value' = 0

\* Faulty variant: the check of the stack's size is one too late.
PushTooLate(item, new_level) ==
    IF Len(match_stack) + 1 > StackDepth
    THEN /\ Fail({"Expression too deep"})
         /\ UNCHANGED <<match_stack, level>>
    ELSE /\ match_stack' = Append(match_stack, item)
         /\ level' = new_level
         /\ pc' = "match"
         /\ UNCHANGED <<errors, result>>

Push(item, new_level) ==
    IF Len(match_stack) + 1 = StackDepth
    THEN /\ Fail({"Expression too deep"})
         /\ UNCHANGED <<match_stack, level>>
    ELSE /\ match_stack' = Append(match_stack, item)
         /\ level' = new_level
         /\ pc' = "match"
         /\ UNCHANGED <<errors, result>>

Item(casei, open, value) == [casei |-> casei, open |-> open, level |-> level, value1 |-> value]

\* The first token from p on that is not one of ops.
Behind(ops) ==
    Min({i \in p..Len(source) : source[i].op \notin ops} \cup {Len(source) + 1})

\* Consecutive open parentheses are one item.
MatchParens ==
    /\ pc = "match" /\ At({"("})
    /\ LET open == Min({Behind({"("}) - p, MaxOpen})
       IN  /\ p' = p + open
           /\ Push(Item("(", open, 0), 0)
    /\ UNCHANGED <<source, assembler_pass, column, value1, rank, has_undefined, used>>

\* Consecutive signs are one item: a sign, and what the ~ among them add up to.
Signs ==
    LET sign(s, token) ==
            CASE token.op = "+" -> s
              [] token.op = "-" -> [s EXCEPT !.minus = ~@]
              [] token.op = "~" -> [minus |-> ~s.minus,
                                    delta |-> IF s.minus THEN s.delta + 1 ELSE s.delta - 1]
    IN  FoldLeft(sign, [minus |-> FALSE, delta |-> 0], SubSeq(source, p, Behind(Unary) - 1))

MatchSigns ==
    /\ pc = "match" /\ At(Unary)
    /\ p' = Behind(Unary)
    /\ Push(Item(IF Signs.minus THEN "-sign" ELSE "+sign", 0, Wrap(Signs.delta)), 6)
    /\ UNCHANGED <<source, assembler_pass, column, value1, rank, has_undefined, used>>

\* There is a value: the loops behind have_value1 begin.
HaveValue(v) == value1' = v /\ pc' = "operator" /\ rank' = 5

unchangedByOperand == <<source, assembler_pass, match_stack, level, result>>

MatchLiteral ==
    /\ pc = "match" /\ At({"literal"})
    /\ LET literal == Literal(source[p].text)
           whole == literal.next > Len(source[p].text)
       IN  /\ HaveValue(literal.value)
           /\ p' = IF whole THEN p + 1 ELSE p
           /\ column' = IF whole THEN 0 ELSE literal.next - 1
           /\ errors' = IF literal.bad THEN errors \cup {"bad label"} ELSE errors
    /\ UNCHANGED <<has_undefined, used, unchangedByOperand>>

MatchCharacters ==
    /\ pc = "match" /\ At({"characters"})
    /\ HaveValue(CharacterConstant(source[p].bytes))
    /\ p' = p + 1
    /\ UNCHANGED <<column, has_undefined, used, errors, unchangedByOperand>>

MatchAddress ==
    /\ pc = "match" /\ At({"$", "$$"})
    /\ HaveValue(IF source[p].op = "$" THEN Address ELSE StartAddress)
    /\ p' = p + 1
    /\ used' = {"is_address_used", "is_start_used"}
    /\ UNCHANGED <<column, has_undefined, errors, unchangedByOperand>>

MatchLabel ==
    /\ pc = "match" /\ At({"label"})
    /\ LET defined == source[p].name \in DOMAIN Labels
       IN  /\ HaveValue(IF defined THEN Labels[source[p].name] ELSE 0)
           /\ has_undefined' = (has_undefined \/ ~defined)
           /\ errors' = IF defined \/ assembler_pass <= 1 THEN errors
                        ELSE errors \cup {"Undefined label"}
    /\ p' = p + 1
    /\ used' = used \cup {"is_start_used"}
    /\ UNCHANGED <<column, unchangedByOperand>>

\* No operand; or a quote that is not closed.
MatchNothing ==
    /\ pc = "match"
    /\ ~At({"(", "literal", "characters", "$", "$$", "label"} \cup Unary)
    /\ Fail(IF At({"open quote"}) THEN {"Missing close quote"} ELSE {})
    /\ UNCHANGED <<source, assembler_pass, position, match_stack, level, value1, rank,
                   has_undefined, used>>

-----------------------------------------------------------------------------

\* `+si' is left to match_addressing().
IsOperator(i) ==
    /\ i <= Len(source) /\ source[i].op \in Binary
    /\ ~ /\ Rank[source[i].op] = 4
         /\ i < Len(source) /\ source[i + 1].op = "register"

\* A loop that is running, or one that comes later, takes the operator.
TakesOperator == At(Binary) /\ IsOperator(p) /\ Rank[source[p].op] \in level..rank

\* Faulty variant: the right operand may hold the same operator again.
RightLevelSame(op) == Rank[op]

RightLevel(op) == Rank[op] + 1

MatchOperator ==
    /\ pc = "operator" /\ TakesOperator
    /\ p' = p + 1
    /\ Push(Item(source[p].op, 0, value1), RightLevel(source[p].op))
    /\ UNCHANGED <<source, assembler_pass, column, value1, rank, has_undefined, used>>

EndOperand ==
    /\ pc = "operator" /\ ~TakesOperator
    /\ IF match_stack = <<>>
       THEN /\ pc' = "done"
            /\ end' = p
            /\ instruction_value' = IF has_undefined THEN 0 ELSE value1
       ELSE pc' = "pop" /\ UNCHANGED result
    /\ UNCHANGED <<source, assembler_pass, position, match_stack, level, value1, rank,
                   has_undefined, used, errors>>

-----------------------------------------------------------------------------

top == Last(match_stack)

unchangedByPop == <<source, assembler_pass, column, has_undefined, used>>

MissingParen ==
    /\ pc = "pop" /\ top.casei = "(" /\ ~At({")"})
    /\ Fail({"Missing close paren"})
    /\ match_stack' = Front(match_stack)
    /\ level' = top.level
    /\ UNCHANGED <<p, value1, rank, unchangedByPop>>

\* Faulty variant: the level outside of all parentheses comes back with the first.
CloseParenOuterLevel ==
    /\ pc = "pop" /\ top.casei = "(" /\ At({")"})
    /\ p' = p + 1
    /\ match_stack' = IF top.open = 1 THEN Front(match_stack)
                      ELSE Append(Front(match_stack), [top EXCEPT !.open = @ - 1])
    /\ level' = top.level
    /\ HaveValue(value1)
    /\ UNCHANGED <<errors, result, unchangedByPop>>

CloseParen ==
    /\ pc = "pop" /\ top.casei = "(" /\ At({")"})
    /\ p' = p + 1
    /\ IF top.open = 1
       THEN match_stack' = Front(match_stack) /\ level' = top.level
       ELSE /\ match_stack' = Append(Front(match_stack), [top EXCEPT !.open = @ - 1])
            /\ level' = 0
    /\ HaveValue(value1)
    /\ UNCHANGED <<errors, result, unchangedByPop>>

ApplySign ==
    /\ pc = "pop" /\ top.casei \in {"-sign", "+sign"}
    /\ match_stack' = Front(match_stack) /\ level' = top.level
    /\ HaveValue(Wrap(IF top.casei = "-sign" THEN top.value1 - value1 ELSE top.value1 + value1))
    /\ UNCHANGED <<p, errors, result, unchangedByPop>>

ApplyOperator ==
    /\ pc = "pop" /\ top.casei \in Binary
    /\ match_stack' = Front(match_stack) /\ level' = top.level
    /\ value1' = Apply(top.casei, top.value1, value1)
    /\ errors' = IF assembler_pass > 1 THEN errors \cup Flaws(top.casei, value1) ELSE errors
    /\ pc' = "operator" /\ rank' = Rank[top.casei]
    /\ UNCHANGED <<p, result, unchangedByPop>>

\* With CONFIG_CPU_IDIV_TO_ZERO the division is an x86 instruction, which traps if
\* the quotient is no signed value.
DivisionTraps ==
    /\ pc = "pop" /\ top.casei \in {"//", "%%"}
    /\ top.value1 = Smallest /\ Signed(value1) = -1
    /\ pc' = "trapped"
    /\ UNCHANGED <<p, match_stack, level, value1, rank, errors, result, unchangedByPop>>

Done == pc \in {"done", "trapped"} /\ UNCHANGED vars

Init ==
    /\ source \in Sources /\ assembler_pass \in {0, 2}
    /\ p = 1 /\ column = 0
    /\ match_stack = <<>> /\ level = 0 /\ value1 = 0 /\ rank = 5
    /\ has_undefined = FALSE /\ used = {} /\ errors = {}
    /\ pc = "match" /\ end = 0 /\ instruction_value = 0

Operand == MatchLiteral \/ MatchCharacters \/ MatchAddress \/ MatchLabel \/ MatchNothing

Pop == MissingParen \/ CloseParen \/ ApplySign \/ ApplyOperator \/ DivisionTraps

Next == MatchParens \/ MatchSigns \/ Operand \/ MatchOperator \/ EndOperand \/ Pop \/ Done

Spec == Init /\ [][Next]_vars

=============================================================================

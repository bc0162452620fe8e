---------------------------- MODULE MCExpression ----------------------------
(***************************************************************************)
(* Bounded texts for expressions.                                          *)
(***************************************************************************)
EXTENDS ExpressionProperties

Op(op) == [op |-> op]
Lit(text) == [op |-> "literal", text |-> text]
Lab(l) == [op |-> "label", name |-> l]

MCLabels == [l \in {"a"} |-> 5]

Three == Lit(<<"3">>)
Eight == Lit(<<"8">>)
Lowest == Lit(<<"8", "0", "h">>)
UpTo(n, tokens) == UNION {[1..k -> tokens] : k \in 0..n}

\* Anything, in any order.
AllTokens ==
    {Op(o) : o \in Binary \cup {"~", "(", ")", "$", "$$", "register", "open quote"}}
    \cup {Three, Lowest, Lab("a"), Lab("b"), [op |-> "characters", bytes |-> <<1, 2, 3>>]}
Short == UpTo(3, AllTokens)

\* Two operators of any ranks, also by zero, and a sign.
Chains ==
    {<<a, Op(o1), b, Op(o2), c>> : a \in {Three, Lowest}, o1 \in Binary, b \in {Eight, Lab("b")},
        o2 \in Binary, c \in {Three, Lit(<<"0">>)}}
    \cup {<<Lowest, Op(o1), Op(s), Three, Op(o2), Eight>> :
        o1 \in Binary, s \in Unary, o2 \in Binary}

\* Parentheses and signs.
Nested ==
    UpTo(6, {Op("("), Op(")"), Op("-"), Op("*"), Three})
    \cup UpTo(5, {Op(s) : s \in Unary} \cup {Three})
    \cup {<<Three, Op(o1), Op("("), Op("("), Three, Op(o2), Eight, Op(")"), Op(o3), Three, Op(")")>> :
            o1 \in {"*", "-"}, o2 \in {"+", "*"}, o3 \in Binary}

\* All ranks at once, and more items than the stack has.
Climb == <<Three, Op("|"), Three, Op("^"), Eight, Op("&"), Three, Op("<<"), Three, Op("+"),
           Lowest, Op("*")>>
Deep == {Climb \o s : s \in [1..3 -> {Op("-"), Op("("), Three}]}
        \cup {Climb \o <<Three, Op(o), Three>> : o \in Binary}

\* Literals, with the digits and letters at which the bases part.
LiteralChars == {"0", "1", "2", "8", "b", "c", "h", "o", "x"}
LiteralTexts ==
    {t \in UNION {[1..k -> LiteralChars] : k \in 1..4} : t[1] \in DigitsBelow(10)}
    \cup {<<"$">> \o t : t \in {"0", "8"} \X {"0", "8", "c", "h"}}
    \cup {<<"0", "b", "1", "_", c>> : c \in {"_", "1", "2", "h"}}
Literals == {<<Lit(t)>> : t \in LiteralTexts}

\* Values for %DEFINE, and what is none.
Defines ==
    {signs \o <<x>> \o rest :
        signs \in {<<>>, <<Op("-")>>, <<Op("~"), Op("+")>>},
        x \in {Lit(<<"5", "h">>), Lit(<<"0", "b", "1">>), Lit(<<"0", "x", "c">>), Lit(<<"0", "o", "2">>),
               Lit(<<"$", "0", "c">>), Lit(<<"1", "0", "b">>), Lit(<<"2", "o">>), Lit(<<"1", "c">>),
               Lit(<<"5", "h", "c">>), Lit(<<"1", "2">>), Lab("a"), Op("$"),
               [op |-> "characters", bytes |-> <<1>>], [op |-> "characters", bytes |-> <<1, 2>>]},
        rest \in {<<>>, <<Op("+"), Three>>, <<Op("*"), Lab("b")>>, <<Three>>}}

\* Signed and unsigned division of the smallest value.
Divisions ==
    {<<Lowest, Op(o), Op("-"), Lit(<<d>>)>> : o \in {"/", "//", "%", "%%"}, d \in DigitsBelow(10)}

Texts == Short \cup Chains \cup Nested \cup Deep \cup Literals \cup Defines \cup Divisions

=============================================================================

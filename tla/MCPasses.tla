------------------------------ MODULE MCPasses ------------------------------
(***************************************************************************)
(* Bounded sets of source programs for Passes, one for each question.      *)
(***************************************************************************)
EXTENDS PassesProperties, FiniteSets

CONSTANTS A, B

Ref(op, l) == [op |-> op, l |-> l]
Num(op, n) == [op |-> op, n |-> n]
Equ(l, m) == [op |-> "equ", l |-> l, m |-> m]
Bare(op) == [op |-> op]

Lab(l) == Ref("label", l)

Defs(p, l) == Cardinality({i \in DOMAIN p : p[i].op \in {"label", "equ"} /\ p[i].l = l})

\* Sequences of length n over S that define each label of ls once.
Sources(n, S, ls) == {p \in [1..n -> S] : \A l \in ls : Defs(p, l) = 1}

\* -O9: jumps that start short and grow, around the limit of 127 bytes.
GrowLines == {Lab(A), Lab(B), Ref("jmp", A), Ref("jcc", B), Ref("short", A),
              Num("fill", 123), Num("align", 8)}
MixedPrograms == Sources(6, GrowLines, {A, B})

\* A jump to B that is pushed out of range when another jump grows, one pass
\* later than that jump.
CascadePrograms ==
    {<<a, b, c, Num("fill", n), Lab(B), Num("fill", 8), Lab(A)>> :
        a \in {Ref("short", A), Ref("dw", B)}, b \in {Ref("jmp", B), Ref("jcc", B)},
        c \in {Ref("jmp", A), Ref("jcc", A)}, n \in 122..126}

GrowPrograms == MixedPrograms \cup CascadePrograms

\* Conditions on the address: any nesting of branches, and lines in them ...
NestingLines == {Num("if", 1), Num("if", 3), Bare("else"), Bare("endif"),
                 Lab(A), Num("fill", 2)}
NestingPrograms == {<<Num("fill", 2)>> \o p : p \in [1..5 -> NestingLines]}

\* ... and branches that are taken in one pass and not in another.
MovingRefs == {Ref("ea", A), Ref("jmp", B), Equ(B, A), Ref("jcc", A)}
MovingLines == {Lab(A), Lab(B), Num("fill", 200), Num("pad", 9), Num("align", 16)}
MovingPrograms ==
    {<<a, b, Num("if", n), c, Bare("else"), d, Bare("endif"), e, f>> :
        a \in MovingRefs, b \in MovingRefs, n \in {4, 5},
        c \in MovingLines, d \in MovingLines, e \in {Lab(A), Num("fill", 1)},
        f \in {Lab(B), Num("fill", 1)}}

\* ... or once grow by n bytes, and then grow and shrink by 200 for ever.
SwingingPrograms ==
    {<<Ref("jcc", B), Num("if", 5), Num("fill", n), Bare("endif"),
       Ref(op, A), Num("if", n + 8), Bare("else"), Num("fill", 200), Bare("endif"),
       Lab(A), Lab(B)>> : op \in {"jmp", "jcc"}, n \in {1, 100, 300}}

CondPrograms == NestingPrograms \cup MovingPrograms \cup SwingingPrograms

Invoke(programs, opt_levels, origins) ==
    [source : programs, opt_level : opt_levels, origin : origins]

\* -O0 and -O1: operands guessed to be wide in pass 0.
WideLines == {Lab(A), Lab(B), Ref("jmp", A), Ref("ea", B), Ref("imm", A),
              Num("fill", 126)}
WidePrograms == Sources(6, WideLines, {A, B})

\* A label defined from one further down, which pass 0 takes for 0.
EquLines == {Lab(B), Equ(A, B), Ref("jmp", A), Ref("jmp", B), Ref("ea", A), Num("fill", 126)}
EquPrograms == Sources(5, EquLines, {A, B})

\* An org line before any code, or after a line that used an address, so that
\* the special pass 1 is needed; .bss and a second org.
OrgPrograms ==
    {<<a, Num("org", 256), b, c, d, e, f>> :
        a \in {Ref("jmp", A), Ref("jcc", B), Num("pad", 4), Num("org", 0), Num("org", 256)},
        b \in {Ref("ea", A), Ref("imm", B), Ref("jmp", B), Num("fill", 126)},
        c \in {Ref("near", A), Ref("short", B), Ref("dw", B)},
        d \in {Lab(A), Bare("bss"), Num("align", 4), Num("org", 0)},
        e \in {Lab(B), Num("resb", 3), Num("incbin", 2), Lab(A)},
        f \in {Lab(B), Num("align", 0)}}

\* Programs tried with I/O failures: two that are accepted, and one that never
\* defines A, which is noticed in pass 2.
FailingPrograms ==
    {<<a, Num("org", 256), Ref("ea", A), Ref("near", A), Lab(A), Num("incbin", 2), Lab(B)>> :
        a \in {Ref("jmp", A), Num("org", 256)}}
    \cup {<<Ref("jmp", A), Num("org", 256), Ref("jmp", B), Ref("dw", B), Num("align", 4),
            Num("incbin", 2), Lab(B)>>}

AllInvocations ==
    Invoke(GrowPrograms, {9}, {0}) \cup Invoke(CondPrograms, {0, 9}, {0})
    \cup Invoke(WidePrograms \cup EquPrograms, {0, 1, 9}, {0}) \cup Invoke(OrgPrograms, {0, 1, 9}, {0, 256})

\* A first org after code that used no address: the addresses of pass 0 start
\* over in the middle of the file ...
RestartPrograms ==
    {<<a, Num("org", 256), b, c, Lab(A)>> :
        a \in {Num("fill", 1), Ref("dw", A)},
        b \in {Ref("jmp", A), Ref("ea", A)},
        c \in {Num("fill", 1), Ref("imm", A)}}

\* ... or after code that used one: the sizes of pass 0, which go by the wrong
\* origin, are not those of the special pass 1.
ResizePrograms ==
    {<<Ref("jmp", A), Lab(A), Num("org", n), b, Ref("imm", B), Lab(B)>> :
        n \in {128, 256}, b \in {Ref("ea", A), Ref("imm", A)}}

LateOrgInvocations == Invoke(RestartPrograms \cup ResizePrograms, {0, 1}, {0})

=============================================================================

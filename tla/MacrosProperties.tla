-------------------------- MODULE MacrosProperties --------------------------
(***************************************************************************)
(* Properties of macros, against one reading of the source without passes. *)
(***************************************************************************)
EXTENDS Macros

\* Every variable has a value of its kind.
TypeOK ==
    /\ source \in Sources
    /\ phase \in {"arguments", "assemble", "assembled", "done"}
    /\ assembler_pass \in 0..LastPass /\ do_special_pass_1 \in BOOLEAN
    /\ line \in 1..Len(source) + 1 /\ level \in Nat \ {0} /\ avoid_level \in 0..level
    /\ deleted \subseteq names /\ names \subseteq Names
    /\ kind \in [Names -> {"none", "cmdline", "self", "value"}]
    /\ value \in [Names -> Nat]
    /\ given \in [Identifiers -> Values \cup {Undefined}]

-----------------------------------------------------------------------------
(* One reading: what is defined at each line, and which %IFDEF hold. *)

SelfDefined == -2

ReadValue(r, x) ==
    IF r.def[x] >= 0 THEN r.def[x] ELSE IF x \in r.labels THEN LabelValue ELSE Undefined

Taken(r) == \A k \in DOMAIN r.branches : r.branches[k]

Holds(r, l) == (r.def[l.name] # Undefined) = (l.op = "ifdef")

BranchesAfter(r, l) ==
    LET n == Len(r.branches)
    IN  IF l.op \in {"ifdef", "ifndef"} THEN Append(r.branches, Holds(r, l))
        ELSE IF l.op = "else" /\ n > 0 THEN [r.branches EXCEPT ![n] = ~@]
        ELSE IF l.op = "endif" /\ n > 0 THEN SubSeq(r.branches, 1, n - 1)
        ELSE r.branches

Definition(r, l) ==
    CASE l.op = "define" -> l.value
      [] l.op = "self" -> SelfDefined
      [] l.op = "assign" -> ReadValue(r, l.from) + 1
      [] l.op = "undef" -> Undefined
      [] OTHER -> r.def[l.name]

Read(r, l) ==
    [def |-> IF Taken(r) THEN [r.def EXCEPT ![l.name] = Definition(r, l)] ELSE r.def,
     labels |-> IF Taken(r) /\ l.op = "label" THEN r.labels \cup {l.name} ELSE r.labels,
     branches |-> BranchesAfter(r, l)]

\* Before line i + 1 of s, with the macros g of the command line.
ReadFrom(s, g) ==
    LET reading[i \in 0..Len(s)] ==
            IF i = 0 THEN [def |-> g, labels |-> {}, branches |-> <<>>]
            ELSE Read(reading[i - 1], s[i])
    IN  reading

Reading == ReadFrom(source, given)

\* What line i means: of a name that is used, the macro at this place or the label
\* anywhere; of an %IFDEF, whether it holds.
Meaning(i) ==
    LET before == Reading[i - 1]
        end == Reading[Len(source)]
        x == source[i].name
    IN  IF source[i].op # "use" THEN (IF Holds(before, source[i]) THEN 1 ELSE 0)
        ELSE IF before.def[x] >= 0 THEN before.def[x]
        ELSE IF x \in end.labels THEN LabelValue ELSE Undefined

\* A name is either an integer macro or a label (src/README:277).
Separate ==
    \A x \in Identifiers :
        ~ /\ \E i \in DOMAIN source : source[i].op = "label" /\ source[i].name = x
          /\ \/ given[x] # Undefined
             \/ \E i \in DOMAIN source :
                    source[i].op \in {"define", "assign"} /\ source[i].name = x

-----------------------------------------------------------------------------

\* Each pass reads the same program as a reader without passes, until it prints
\* an error: the same lines, the same branches, and for each name the value it has
\* at that place.  Before pass 2, a label that comes later may be undefined yet.
PassesAgree ==
    phase = "assemble" /\ errors = {} =>
        /\ {seen[k].line : k \in DOMAIN seen} =
               {i \in 1..line - 1 : /\ source[i].op \in {"use", "ifdef", "ifndef"}
                                    /\ Taken(Reading[i - 1])}
        /\ \A k \in DOMAIN seen :
              \/ seen[k].sees = Meaning(seen[k].line)
              \/ /\ seen[k].sees = Undefined
                 /\ assembler_pass <= 1
                 /\ ReadValue(Reading[seen[k].line - 1], source[seen[k].line].name) = Undefined

\* A pass begins with the macros of the command line, and these keep their values
\* through all passes (src/README:272), until an error is printed.  After one, an
\* %IFDEF may go another way than before, and meet a label of the same name.
CommandLineKept ==
    phase # "arguments" /\ errors = {} =>
        /\ line = 1 => {x \in Identifiers : Live(Macro(x))} =
                           {x \in Identifiers : given[x] # Undefined}
        /\ \A x \in Identifiers :
              given[x] # Undefined => Live(Macro(x)) /\ ValueOf(x) = given[x]

\* If names of macros and labels are kept apart, pass 0 finds every error but the
\* use of a name that has no meaning.
LaterPassesAccept ==
    Separate /\ assembler_pass >= 1 /\ errors # {} =>
        /\ errors = {"Undefined label"}
        /\ \E i \in 1..line - 1 : source[i].op = "use" /\ Meaning(i) = Undefined

\* reset_macros() deletes "the label corresponding to the macro defined with an
\* INTVALUE" (src/mininasm.c:2856), not a label that a line of the source defines.
LabelsSurvive ==
    [][assembler_pass' # assembler_pass /\ ~(do_special_pass_1' # do_special_pass_1) =>
           \A x \in Identifiers :
               Live(Label(x)) /\ value[Label(x)] = LabelValue => Live(Label(x))']_vars

=============================================================================

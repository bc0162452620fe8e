------------------------------ MODULE MCMacros ------------------------------
(***************************************************************************)
(* Bounded source programs for the macros.                                 *)
(***************************************************************************)
EXTENDS MacrosProperties

MCLine(op, x, y) == [op |-> op, name |-> x, from |-> y, value |-> 1]

Programs(lines, n) == UNION {[1..k -> lines] : k \in 0..n}

\* Everything that can happen to one name, in any order.
OneName == Programs({MCLine(op, "X", "X") : op \in {"define", "self", "assign", "undef",
                                                   "label", "use"}}, 5)

\* Conditions, balanced or not, and a value that passes from one name to another.
ConditionLines ==
    {MCLine(op, "X", "X") : op \in {"define", "undef", "ifdef", "ifndef", "else", "endif"}}
Nested == {s \in [1..6 -> ConditionLines] :
              /\ s[1].op \in {"ifdef", "ifndef"} /\ s[6].op = "endif"
              /\ \A i \in 1..5 : s[i].op = "define" => s[i + 1].op # "undef"}
TwoNames == Programs({MCLine("define", "X", "X"), MCLine("undef", "X", "X"),
                      MCLine("assign", "X", "Y"), MCLine("assign", "Y", "X"),
                      MCLine("label", "Y", "Y"), MCLine("use", "X", "X"),
                      MCLine("use", "Y", "Y"), MCLine("ifdef", "Y", "Y"),
                      MCLine("else", "Y", "Y")}, 4)

MacroPrograms == OneName \cup Programs(ConditionLines, 4) \cup Nested \cup TwoNames

=============================================================================

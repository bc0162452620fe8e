------------------------------ MODULE LabelStore ------------------------------
(***************************************************************************)
(* What the label tree promises: a set of names, each with a deleted bit   *)
(* and, if it is a macro, a kind.  Listing the labels and the reset of     *)
(* macros between passes each happen in one step.                          *)
(***************************************************************************)
EXTENDS Integers, Sequences, FiniteSets

CONSTANTS
    Names,        \* label names and macro names, in their order
    Macros,       \* the macro names
    LabelOf(_)    \* the label that holds a macro's value

VARIABLES
    names, deleted, kind,
    listing       \* what the last operation listed

vars == <<names, deleted, kind, listing>>

Kinds == {"none", "cmdline", "self", "value"}
KindsOf(n) == IF n \in Macros THEN Kinds \ {"none"} ELSE {"none"}

Define ==
    \E n \in Names \ names :
        /\ names' = names \cup {n}
        /\ \E k \in KindsOf(n) : kind' = [kind EXCEPT ![n] = k]
        /\ listing' = <<>>
        /\ UNCHANGED deleted

\* A macro or label is deleted, or comes back, a macro perhaps as another kind.
Mark ==
    \E n \in names :
        /\ \/ deleted' = deleted \cup {n} /\ UNCHANGED kind
           \/ /\ n \in deleted
              /\ deleted' = deleted \ {n}
              /\ \E k \in KindsOf(n) : kind' = [kind EXCEPT ![n] = k]
        /\ listing' = <<>>
        /\ UNCHANGED names

Forget == listing' = <<>> /\ UNCHANGED <<names, deleted, kind>>

Sorted(S) ==
    [i \in 1..Cardinality(S) |-> CHOOSE n \in S : Cardinality({m \in S : m < n}) = i - 1]

List ==
    /\ listing' = Sorted(names \ Macros)
    /\ UNCHANGED <<names, deleted, kind>>

\* Before a pass, the macros of the source are deleted with their labels.
\* Before the special pass, all labels are, but for those of -D macros.
OwnMacros == {m \in names \cap Macros : kind[m] # "cmdline"}
LabelsOf(k) == {LabelOf(m) : m \in {m \in names \cap Macros : kind[m] = k}} \cap names
DeletedByReset(special) ==
    IF special
    THEN (deleted \cup OwnMacros \cup (names \ Macros)) \ LabelsOf("cmdline")
    ELSE deleted \cup OwnMacros \cup LabelsOf("value")
Reset(special) ==
    /\ deleted' = DeletedByReset(special)
    /\ listing' = <<>>
    /\ UNCHANGED <<names, kind>>

Init ==
    /\ names = {} /\ deleted = {}
    /\ kind = [n \in Names |-> "none"]
    /\ listing = <<>>

Next == Define \/ Mark \/ Forget \/ List \/ (\E s \in BOOLEAN : Reset(s))

Spec == Init /\ [][Next]_vars

=============================================================================

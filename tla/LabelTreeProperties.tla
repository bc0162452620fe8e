------------------------- MODULE LabelTreeProperties -------------------------
(***************************************************************************)
(* Properties of the label tree, and its refinement of LabelStore.         *)
(***************************************************************************)
EXTENDS LabelTree

NodeOrNull == Names \cup {Null}

\* Every variable has a value of its kind.
TypeOK ==
    /\ use \in Uses
    /\ label_list \in NodeOrNull /\ nodes \subseteq Names
    /\ left \in [Names -> NodeOrNull] /\ right \in [Names -> NodeOrNull]
    /\ red \in [Names -> BOOLEAN]
    /\ deleted \subseteq nodes /\ kind \in [Names -> Kinds]
    /\ pc \in {"idle", "descend", "ascend", "search", "walk"}
    /\ task \in {"none", "print", "reset", "special"}
    /\ path \in Seq([label : NodeOrNull, less : BOOLEAN]) /\ pathp \in 0..Len(path)
    /\ {node, pre, name, explore, milestone} \subseteq NodeOrNull
    /\ listing \in Seq(Labels) /\ deleted_before \subseteq nodes

InOrder ==
    LET walk[n \in NodeOrNull] ==
            IF n = Null THEN <<>> ELSE walk[left[n]] \o <<n>> \o walk[right[n]]
    IN  walk[label_list]
IsRed(n) == n # Null /\ red[n]
BlackHeight ==
    LET height[n \in NodeOrNull] ==
            IF n = Null THEN 0
            ELSE LET l == height[left[n]]
                     r == height[right[n]]
                 IN  IF l < 0 \/ l # r THEN -1
                     ELSE IF red[n] THEN l ELSE l + 1
    IN  height[label_list]

\* Between operations the tree holds every name once, in order: insertions
\* keep the order, and a traversal leaves no thread behind.  And it is
\* balanced: the root is black, red nodes are left children of black ones, and
\* all paths pass the same number of black nodes.
RedBlackTree ==
    pc = "idle" =>
        /\ {InOrder[i] : i \in DOMAIN InOrder} = nodes
        /\ \A i \in 1..Len(InOrder) - 1 : InOrder[i] < InOrder[i + 1]
        /\ ~IsRed(label_list)
        /\ \A n \in nodes : ~IsRed(right[n]) /\ ~(IsRed(n) /\ IsRed(left[n]))
        /\ BlackHeight >= 0

\* define_label() stays within the array path[RB_LOG2_MAX_NODES << 1]: k
\* entries for each doubling of the number of nodes are enough.
PathFits ==
    \A k \in 1..Log2MaxNodes : Cardinality(nodes) < 2^k => Len(path) <= 2 * k

\* A search finds the name if and only if it is there, also in the middle of
\* the traversal of reset_macros(), when the tree has threads.
SearchFinds ==
    pc = "search" /\ explore \in {Null, name} =>
        explore = IF name \in nodes THEN name ELSE Null

\* No operation goes round in circles, on a threaded tree either.
OperationsEnd == pc # "idle" ~> pc = "idle"

\* The tree implements a store of names in which each operation is one step.
inserting == pc \in {"descend", "ascend"}
Store == INSTANCE LabelStore WITH
    names <- IF inserting THEN nodes \ {name} ELSE nodes,
    kind <- IF inserting THEN [kind EXCEPT ![name] = "none"] ELSE kind,
    deleted <- IF task \in {"reset", "special"} THEN deleted_before ELSE deleted,
    listing <- IF task = "print" THEN <<>> ELSE listing
ImplementsStore == Store!Spec

=============================================================================

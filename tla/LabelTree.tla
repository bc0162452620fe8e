------------------------------ MODULE LabelTree ------------------------------
(***************************************************************************)
(* The tree of labels and macros: insertion into a red-black tree that     *)
(* leans left, search, and the traversals of the listing and of the reset  *)
(* of macros, which thread the tree instead of using a stack.  One step of *)
(* the model is one round of a loop.                                       *)
(***************************************************************************)
EXTENDS Integers, Sequences, FiniteSets

CONSTANTS
    Labels,         \* label names, numbered in strcmp order
    MacroLabels,    \* the labels that macros may use for their value
    Log2MaxNodes,   \* RB_LOG2_MAX_NODES
    Uses            \* which labels and macros a source file may define, and what
                    \* the tree is traversed for: "print" for the listing,
                    \* "reset" before a pass, "special" before the special pass 1

ASSUME LabelsAssumption == Labels \subseteq 1..99 /\ MacroLabels \subseteq Labels
ASSUME NodesAssumption ==
    /\ Log2MaxNodes \in Nat
    /\ Cardinality(Labels) + Cardinality(MacroLabels) < 2^Log2MaxNodes
ASSUME UsesAssumption ==
    Uses \subseteq [labels : SUBSET Labels, macros : SUBSET MacroLabels,
                    traversals : SUBSET {"print", "reset", "special"}]

\* Faulty variant: a macro prefix that sorts before the names of labels.
MacroNameFirst(l) == l - 100

\* The name of the macro l: LABEL_NAME_MACRO_PREFIX comes after every
\* character a label may start with.
MacroName(l) == l + 100

Macros == {MacroName(l) : l \in MacroLabels}
LabelOf(m) == CHOOSE l \in MacroLabels : MacroName(l) = m
Names == Labels \cup Macros

Null == 1000
Kinds == {"none", "cmdline", "self", "value"}
KindsOf(n) == IF n \in Macros THEN Kinds \ {"none"} ELSE {"none"}

VARIABLES
    use,                  \* a member of Uses (never changes)
    label_list,           \* the root
    nodes,                \* the names in the tree, or being inserted
    left, right, red,     \* fields of the nodes
    deleted,              \* the nodes whose deleted bit is set
    kind,                 \* the value of a macro node: how it was defined
    pc, task,             \* what is being done, and by which traversal
    path, pathp,          \* define_label(): nodes passed on the way down
    node, pre,            \* traversal
    name, explore, milestone,   \* find_cat_label()
    listing,              \* the labels that the last operation printed
    deleted_before        \* history: deleted, when the traversal began

usedNames == use.labels \cup {MacroName(l) : l \in use.macros}

treeVars == <<use, label_list, nodes, left, right, red>>
bitVars == <<deleted, kind>>
pathVars == <<path, pathp>>
walkVars == <<node, pre, deleted_before>>
searchVars == <<name, explore, milestone>>
vars == <<treeVars, bitVars, pc, task, pathVars, walkVars, listing, searchVars>>

\* Local variables have no value between operations.
LeaveSearch == name' = Null /\ explore' = Null /\ milestone' = Null

-----------------------------------------------------------------------------
(* define_label(), of a name that find_label() has not found. *)

StartDefine ==
    /\ pc = "idle"
    /\ \E n \in usedNames \ nodes, k \in Kinds :
          /\ k \in KindsOf(n)
          /\ kind' = [kind EXCEPT ![n] = k]
          /\ name' = n
          /\ nodes' = nodes \cup {n}
          /\ red' = [red EXCEPT ![n] = TRUE]
          /\ left' = [left EXCEPT ![n] = Null]
          /\ right' = [right EXCEPT ![n] = Null]
    /\ path' = <<[label |-> label_list, less |-> FALSE]>>
    /\ pc' = "descend"
    /\ listing' = <<>>
    /\ UNCHANGED <<use, label_list, deleted, task, pathp, walkVars, explore, milestone>>

Descend ==
    /\ pc = "descend"
    /\ LET i == Len(path)
           at == path[i].label
           less == name < at
       IN  IF at # Null
           THEN /\ path' = Append([path EXCEPT ![i].less = less],
                                  [label |-> IF less THEN left[at] ELSE right[at],
                                   less |-> FALSE])
                /\ UNCHANGED <<pc, pathp>>
           ELSE /\ path' = [path EXCEPT ![i].label = name]
                /\ pathp' = i - 1
                /\ pc' = "ascend"
    /\ UNCHANGED <<treeVars, bitVars, task, walkVars, listing, searchVars>>

\* Faulty variant: the turn to the right loses a subtree.
FixLeftLosesChild(clabel, child) ==
    LET leftleft == left[child]
        turn == red[child] /\ leftleft # Null /\ red[leftleft]
    IN  IF turn
        THEN /\ red' = [red EXCEPT ![leftleft] = FALSE]
             /\ left' = [left EXCEPT ![clabel] = Null]
             /\ right' = [right EXCEPT ![child] = clabel]
             /\ path' = [path EXCEPT ![pathp].label = child]
        ELSE /\ left' = [left EXCEPT ![clabel] = child]
             /\ UNCHANGED <<red, right>>
             /\ path' = IF red[child] THEN path ELSE <<>>

\* Link the new left child; two reds in a row on the left turn right.
FixLeft(clabel, child) ==
    LET leftleft == left[child]
        turn == red[child] /\ leftleft # Null /\ red[leftleft]
    IN  IF turn
        THEN /\ red' = [red EXCEPT ![leftleft] = FALSE]
             /\ left' = [left EXCEPT ![clabel] = right[child]]
             /\ right' = [right EXCEPT ![child] = clabel]
             /\ path' = [path EXCEPT ![pathp].label = child]
        ELSE /\ left' = [left EXCEPT ![clabel] = child]
             /\ UNCHANGED <<red, right>>
             /\ path' = IF red[child] THEN path ELSE <<>>

\* Faulty variant: the turned nodes keep their colours.
FixRightKeepsColour(clabel, child) ==
    LET sibling == left[clabel]
        split == red[child] /\ sibling # Null /\ red[sibling]
        turn == red[child] /\ ~split
    IN  /\ red' = IF split
                  THEN [red EXCEPT ![sibling] = FALSE, ![child] = FALSE,
                                   ![clabel] = TRUE]
                  ELSE red
        /\ right' = [right EXCEPT ![clabel] = IF turn THEN left[child] ELSE child]
        /\ left' = IF turn THEN [left EXCEPT ![child] = clabel] ELSE left
        /\ path' = IF turn THEN [path EXCEPT ![pathp].label = child]
                    ELSE IF red[child] THEN path ELSE <<>>

\* Link the new right child; a red one with a red sibling splits, a red one
\* without turns left.
FixRight(clabel, child) ==
    LET sibling == left[clabel]
        split == red[child] /\ sibling # Null /\ red[sibling]
        turn == red[child] /\ ~split
    IN  /\ red' = CASE split -> [red EXCEPT ![sibling] = FALSE, ![child] = FALSE,
                                            ![clabel] = TRUE]
                    [] turn -> [red EXCEPT ![child] = red[clabel], ![clabel] = TRUE]
                    [] OTHER -> red
        /\ right' = [right EXCEPT ![clabel] = IF turn THEN left[child] ELSE child]
        /\ left' = IF turn THEN [left EXCEPT ![child] = clabel] ELSE left
        /\ path' = IF turn THEN [path EXCEPT ![pathp].label = child]
                    ELSE IF red[child] THEN path ELSE <<>>

EndInsertion == pc' = "idle" /\ pathp' = 0 /\ LeaveSearch

Ascend ==
    /\ pc = "ascend"
    /\ pathp > 0
    /\ LET clabel == path[pathp].label
           child == path[pathp + 1].label
       IN  /\ IF path[pathp].less THEN FixLeft(clabel, child) ELSE FixRight(clabel, child)
           /\ IF red[child]
              THEN pathp' = pathp - 1 /\ UNCHANGED <<pc, searchVars>>
              ELSE EndInsertion
    /\ UNCHANGED <<use, label_list, nodes, bitVars, task, walkVars, listing>>

NewRoot ==
    /\ pc = "ascend"
    /\ pathp = 0
    /\ label_list' = path[1].label
    /\ path' = <<>>
    /\ red' = [red EXCEPT ![path[1].label] = FALSE]
    /\ EndInsertion
    /\ UNCHANGED <<use, nodes, left, right, bitVars, task, walkVars, listing>>

-----------------------------------------------------------------------------
(* What callers do with a node they have found. *)

Delete ==
    /\ pc = "idle"
    /\ \E n \in nodes \cap (Macros \cup MacroLabels) : deleted' = deleted \cup {n}
    /\ listing' = <<>>
    /\ UNCHANGED <<treeVars, kind, pc, task, pathVars, walkVars, searchVars>>

Undelete ==
    /\ pc = "idle"
    /\ \E n \in deleted, k \in Kinds :
          /\ k \in KindsOf(n)
          /\ deleted' = deleted \ {n}
          /\ kind' = [kind EXCEPT ![n] = k]
    /\ listing' = <<>>
    /\ UNCHANGED <<treeVars, pc, task, pathVars, walkVars, searchVars>>

-----------------------------------------------------------------------------
(* find_cat_label(), also on a tree that a traversal has threaded. *)

BeginSearch(n) ==
    /\ name' = n
    /\ explore' = label_list
    /\ milestone' = Null
    /\ pc' = "search"

StartFind ==
    /\ pc = "idle"
    /\ \E n \in usedNames : BeginSearch(n)
    /\ listing' = <<>>
    /\ UNCHANGED <<treeVars, bitVars, task, pathVars, walkVars>>

\* A right child that is the milestone is a thread.
FollowRight(n) == IF right[n] = milestone THEN Null ELSE right[n]

Search ==
    /\ pc = "search"
    /\ explore \notin {Null, name}
    /\ IF name < explore
       THEN milestone' = explore /\ explore' = left[explore]
       ELSE explore' = FollowRight(explore) /\ UNCHANGED milestone
    /\ UNCHANGED <<treeVars, bitVars, pc, task, pathVars, walkVars, listing, name>>

EndFind ==
    /\ pc = "search"
    /\ explore \in {Null, name}
    /\ task = "none"
    /\ pc' = "idle"
    /\ LeaveSearch
    /\ UNCHANGED <<treeVars, bitVars, task, pathVars, walkVars, listing>>

-----------------------------------------------------------------------------
(* print_labels_sorted_to_listing() and reset_macros(). *)

\* set_macro() defines a macro and then the label with its value.
ValuesDefined ==
    \A m \in nodes \cap Macros : kind[m] \in {"cmdline", "value"} => LabelOf(m) \in nodes

StartTraversal ==
    /\ pc = "idle"
    /\ task' \in use.traversals
    /\ task' = "reset" => nodes \cap Macros # {}
    /\ ValuesDefined
    /\ pc' = "walk"
    /\ node' = label_list
    /\ pre' = Null
    /\ listing' = <<>>
    /\ deleted_before' = deleted
    /\ UNCHANGED <<treeVars, bitVars, pathVars, searchVars>>

\* Look for the predecessor of node: its left child, then right as far as it goes.
StartPredecessor ==
    /\ pc = "walk" /\ node # Null /\ pre = Null
    /\ left[node] # Null
    /\ pre' = left[node]
    /\ UNCHANGED <<treeVars, bitVars, pc, task, pathVars, node,
                   deleted_before, listing, searchVars>>

Predecessor ==
    /\ pc = "walk" /\ pre # Null
    /\ right[pre] \notin {Null, node}
    /\ pre' = right[pre]
    /\ UNCHANGED <<treeVars, bitVars, pc, task, pathVars, node,
                   deleted_before, listing, searchVars>>

Thread ==
    /\ pc = "walk" /\ pre # Null
    /\ right[pre] = Null
    /\ right' = [right EXCEPT ![pre] = node]
    /\ node' = left[node]
    /\ pre' = Null
    /\ UNCHANGED <<use, label_list, nodes, left, red, bitVars, pc, task, pathVars,
                   deleted_before, listing, searchVars>>

\* Faulty variant: macros are printed like labels.
ListedAlways(n) == TRUE

Listed(n) == n \notin Macros

\* Work on the node: at do_print or do_work.
Visit ==
    LET macro == node \in Macros
        findsLabel == /\ macro
                      /\ \/ task = "reset" /\ kind[node] = "value"
                         \/ task = "special" /\ kind[node] = "cmdline"
    IN  /\ listing' = IF task = "print" /\ Listed(node) THEN Append(listing, node) ELSE listing
        /\ deleted' = IF \/ task # "print" /\ macro /\ kind[node] # "cmdline"
                         \/ task = "special" /\ ~macro
                      THEN deleted \cup {node} ELSE deleted
        /\ IF findsLabel
           THEN BeginSearch(LabelOf(node)) /\ UNCHANGED node
           ELSE node' = right'[node] /\ UNCHANGED <<pc, name, explore, milestone>>

VisitLeftmost ==
    /\ pc = "walk" /\ node # Null /\ pre = Null
    /\ left[node] = Null
    /\ UNCHANGED <<treeVars, pre>>
    /\ Visit
    /\ UNCHANGED <<kind, task, pathVars, deleted_before>>

RemoveThread == right' = [right EXCEPT ![pre] = Null]

VisitBehindThread ==
    /\ pc = "walk" /\ pre # Null
    /\ right[pre] = node
    /\ RemoveThread
    /\ pre' = Null
    /\ Visit
    /\ UNCHANGED <<use, label_list, nodes, left, red, kind, task, pathVars,
                   deleted_before>>

\* Faulty variant: the traversal stays at the macro.
FoundLabelStays ==
    /\ pc = "search"
    /\ explore \in {Null, name}
    /\ task # "none"
    /\ deleted' = IF explore = Null THEN deleted
                  ELSE IF task = "reset" THEN deleted \cup {explore}
                  ELSE deleted \ {explore}
    /\ pc' = "walk"
    /\ LeaveSearch
    /\ UNCHANGED <<treeVars, kind, task, pathVars, pre, listing, deleted_before, node>>

\* The search for a macro's label during the traversal is over.
FoundLabel ==
    /\ pc = "search"
    /\ explore \in {Null, name}
    /\ task # "none"
    /\ deleted' = IF explore = Null THEN deleted
                  ELSE IF task = "reset" THEN deleted \cup {explore}
                  ELSE deleted \ {explore}
    /\ pc' = "walk"
    /\ node' = right[node]
    /\ LeaveSearch
    /\ UNCHANGED <<treeVars, kind, task, pathVars, pre, listing, deleted_before>>

EndTraversal ==
    /\ pc = "walk" /\ node = Null
    /\ pc' = "idle"
    /\ task' = "none" /\ node' = Null /\ pre' = Null /\ deleted_before' = {}
    /\ UNCHANGED <<treeVars, bitVars, pathVars, listing, searchVars>>

-----------------------------------------------------------------------------

Init ==
    /\ use \in Uses
    /\ label_list = Null /\ nodes = {}
    /\ left = [n \in Names |-> Null] /\ right = [n \in Names |-> Null]
    /\ red = [n \in Names |-> FALSE]
    /\ deleted = {} /\ kind = [n \in Names |-> "none"]
    /\ pc = "idle"
    /\ path = <<>> /\ pathp = 0
    /\ task = "none" /\ node = Null /\ pre = Null /\ deleted_before = {}
    /\ name = Null /\ explore = Null /\ milestone = Null
    /\ listing = <<>>

Caller == StartDefine \/ Delete \/ Undelete \/ StartFind \/ StartTraversal
Step == \/ Descend \/ Ascend \/ NewRoot \/ Search \/ EndFind
        \/ StartPredecessor \/ Predecessor \/ Thread
        \/ VisitLeftmost \/ VisitBehindThread \/ FoundLabel \/ EndTraversal

Next == Caller \/ Step

\* Every operation runs to its end before the next one begins.
Spec == Init /\ [][Next]_vars /\ WF_vars(Step)

=============================================================================

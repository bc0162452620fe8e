---------------------------- MODULE LabelTreeProofs ----------------------------
(***************************************************************************)
(* Proofs about the label tree.  First about search trees in general, then *)
(* about insertion, traversal and search, with the sets of names below the *)
(* nodes as witnesses.                                                     *)
(***************************************************************************)
EXTENDS LabelTreeProperties, Induction

LEMMA NamesAreNumbers ==
    /\ Names \subseteq 1..199 /\ Names \subseteq Int /\ Null \notin Names
    /\ Labels \cap Macros = {} /\ MacroLabels \subseteq Labels
    /\ \A l \in Labels, m \in Macros : l < m
    /\ \A m \in Macros : LabelOf(m) \in MacroLabels /\ MacroName(LabelOf(m)) = m
    /\ \A n \in Names \ Macros : n \in Labels
<1>1. /\ Labels \subseteq 1..99 /\ MacroLabels \subseteq 1..99 /\ MacroLabels \subseteq Labels
  BY LabelsAssumption
<1>2. \A m \in Macros : m \in 101..199 /\ \E l \in MacroLabels : MacroName(l) = m
  BY <1>1 DEF Macros, MacroName
<1>3. \A m \in Macros : LabelOf(m) \in MacroLabels /\ MacroName(LabelOf(m)) = m
  BY <1>2 DEF LabelOf
<1>4. \A l \in Labels : l \in 1..99
  BY <1>1
<1>5. \A n \in Names : n \in 1..199
  BY <1>2, <1>4 DEF Names
<1>6. Names \subseteq 1..199 /\ Names \subseteq Int
  BY <1>5
<1>7. Null \notin Names
  BY <1>5 DEF Null
<1>8. Labels \cap Macros = {} /\ \A l \in Labels, m \in Macros : l < m
  BY <1>2, <1>4
<1>9. \A n \in Names \ Macros : n \in Labels
  BY DEF Names
<1>10. QED
  BY <1>1, <1>3, <1>6, <1>7, <1>8, <1>9

-----------------------------------------------------------------------------
(* Search trees: the function S gives each node the names in its subtree. *)

Joins(L, R, S, n) ==
    /\ S[n] = {n} \cup S[L[n]] \cup S[R[n]]
    /\ \A m \in S[L[n]] : m < n
    /\ \A m \in S[R[n]] : n < m

IsTree(L, R, S) ==
    /\ L \in [Names -> NodeOrNull] /\ R \in [Names -> NodeOrNull]
    /\ S \in [NodeOrNull -> SUBSET Names] /\ S[Null] = {}
    /\ \A n \in Names : Joins(L, R, S, n)

LEMMA TreeSteps ==
    ASSUME NEW L, NEW R, NEW S, IsTree(L, R, S), NEW n \in Names
    PROVE  /\ L[n] \in NodeOrNull /\ R[n] \in NodeOrNull /\ n \in Int
           /\ S[n] \subseteq Names /\ S[L[n]] \subseteq Names /\ S[R[n]] \subseteq Names
           /\ S[n] = {n} \cup S[L[n]] \cup S[R[n]] /\ n \in S[n]
           /\ \A m \in S[L[n]] : m < n /\ m \in Int
           /\ \A m \in S[R[n]] : n < m /\ m \in Int
           /\ L[n] # Null => L[n] \in Names /\ L[n] \in S[L[n]]
           /\ R[n] # Null => R[n] \in Names /\ R[n] \in S[R[n]]
<1>1. L[n] \in NodeOrNull /\ R[n] \in NodeOrNull /\ n \in NodeOrNull
  BY DEF IsTree, NodeOrNull
<1>2. S[n] \subseteq Names /\ S[L[n]] \subseteq Names /\ S[R[n]] \subseteq Names
  BY <1>1 DEF IsTree
<1>3. Joins(L, R, S, n)
  BY DEF IsTree
<1>4. \A m \in Names : m \in S[m]
  BY DEF IsTree, Joins
<1>5. QED
  BY <1>1, <1>2, <1>3, <1>4, NamesAreNumbers DEF Joins, NodeOrNull

\* Induction over a tree, for the set G of the nodes for which something holds.
LEMMA TreeInduction ==
    ASSUME NEW L, NEW R, NEW S, IsTree(L, R, S), NEW G,
           Null \in G,
           \A n \in Names : L[n] \in G /\ R[n] \in G => n \in G
    PROVE  NodeOrNull \subseteq G
<1> DEFINE F == {S[n] : n \in Names \ G}
           Smaller == StrictSubsetOrdering(Names)
<1>1. SUFFICES ASSUME NodeOrNull \ G # {} PROVE FALSE
  OBVIOUS
<1>2. IsWellFoundedOn(Smaller, SUBSET Names)
  <2>1. IsFiniteSet(Names)
    <3> PICK a \in Int, b \in Int : a = 1 /\ b = 199
      OBVIOUS
    <3>1. IsFiniteSet(a..b)
      BY FS_Interval
    <3>2. Names \in SUBSET (a..b)
      BY NamesAreNumbers
    <3>3. QED
      BY <3>1, <3>2, FS_Subset
  <2>2. FiniteSubsetsOf(Names) = SUBSET Names
    BY <2>1, FS_FiniteSubsetsOfFinite
  <2>3. IsWellFoundedOn(Smaller, FiniteSubsetsOf(Names))
    BY FS_StrictSubsetOrderingWellFounded, Zenon
  <2>4. QED
    BY <2>2, <2>3
<1>3. F \subseteq SUBSET Names /\ F # {}
  <2>1. \A n \in Names : S[n] \in SUBSET Names
    BY DEF IsTree, NodeOrNull
  <2>2. Names \ G # {}
    BY <1>1 DEF NodeOrNull
  <2>3. QED
    BY <2>1, <2>2
<1>4. PICK x \in F : \A y \in F : <<y, x>> \notin Smaller
  <2> HIDE DEF F, Smaller
  <2> QED
    BY <1>2, <1>3, WFMin, Zenon
<1>5. PICK n \in Names \ G : x = S[n]
  BY <1>4
<1>6. ASSUME NEW c \in {L[n], R[n]}, c \notin G
      PROVE  FALSE
  <2>1. c \in Names /\ c \in S[c]
    BY <1>6, TreeSteps
  <2>2. S[c] \subseteq S[n] /\ S[c] # S[n]
    BY TreeSteps
  <2>3. S[c] \in F
    BY <1>6, <2>1
  <2>4. S[c] \in SUBSET Names /\ S[n] \in SUBSET Names
    BY <1>3, <1>5, <2>3
  <2>5. <<S[c], x>> \in Smaller
    BY <1>5, <2>2, <2>4 DEF StrictSubsetOrdering
  <2>6. QED
    BY <1>4, <2>3, <2>5
<1>7. QED
  BY <1>5, <1>6

-----------------------------------------------------------------------------
(* Where two nodes of a tree are. *)

\* A subtree has the subtrees of its nodes.
LEMMA Down ==
    ASSUME NEW L, NEW R, NEW S, IsTree(L, R, S), NEW n \in NodeOrNull, NEW m \in S[n]
    PROVE  m \in Names /\ S[m] \subseteq S[n]
<1> DEFINE G == {r \in NodeOrNull : \A x \in S[r] : S[x] \subseteq S[r]}
<1>1. Null \in G
  BY DEF IsTree, NodeOrNull
<1>2. ASSUME NEW r \in Names, L[r] \in G, R[r] \in G
      PROVE  r \in G
  <2>1. S[r] = {r} \cup S[L[r]] \cup S[R[r]]
    BY TreeSteps
  <2>2. ASSUME NEW x \in S[r] PROVE S[x] \subseteq S[r]
    BY <1>2, <2>1
  <2>3. QED
    BY <2>2 DEF NodeOrNull
<1>3. NodeOrNull \subseteq G
  <2> HIDE DEF G
  <2> QED
    BY <1>1, <1>2, TreeInduction
<1>4. m \in Names
  BY DEF IsTree
<1>5. QED
  BY <1>3, <1>4

\* No node is below another one that is below it.
LEMMA NoCircle ==
    ASSUME NEW L, NEW R, NEW S, IsTree(L, R, S), NEW n \in Names, NEW m \in S[n], n \in S[m]
    PROVE  m = n
<1>1. /\ S[n] = {n} \cup S[L[n]] \cup S[R[n]] /\ L[n] \in NodeOrNull /\ R[n] \in NodeOrNull
      /\ n \in Int
      /\ n \notin S[L[n]] /\ n \notin S[R[n]]
  BY TreeSteps
<1>2. ASSUME m \in S[L[n]] PROVE n \in S[L[n]]
  BY <1>1, <1>2, Down
<1>3. ASSUME m \in S[R[n]] PROVE n \in S[R[n]]
  BY <1>1, <1>3, Down
<1>4. QED
  BY <1>1, <1>2, <1>3

\* Of two nodes, either one is below the other, or a node above both is between them.
LEMMA Between ==
    ASSUME NEW L, NEW R, NEW S, IsTree(L, R, S), NEW root \in NodeOrNull,
           NEW x \in S[root], NEW y \in S[root], x < y
    PROVE  \E z \in S[root] : /\ x = z \/ x \in S[L[z]]
                              /\ y = z \/ y \in S[R[z]]
<1> DEFINE Meet(r, a, b) == \E z \in S[r] : /\ a = z \/ a \in S[L[z]]
                                            /\ b = z \/ b \in S[R[z]]
           G == {r \in NodeOrNull : \A a, b \in S[r] : a < b => Meet(r, a, b)}
<1>1. Null \in G
  BY DEF IsTree, NodeOrNull
<1>2. ASSUME NEW r \in Names, L[r] \in G, R[r] \in G
      PROVE  r \in G
  <2>1. /\ S[r] = {r} \cup S[L[r]] \cup S[R[r]]
        /\ r \in Int /\ \A k \in S[L[r]] : k < r /\ k \in Int
        /\ \A k \in S[R[r]] : r < k /\ k \in Int
    BY TreeSteps
  <2>2. ASSUME NEW a \in S[r], NEW b \in S[r], a < b
        PROVE  Meet(r, a, b)
    <3>1. CASE a \in S[L[r]] /\ b \in S[L[r]]
      <4>1. Meet(L[r], a, b)
        BY <1>2, <2>2, <3>1
      <4>2. QED
        BY <2>1, <4>1
    <3>2. CASE a \in S[R[r]] /\ b \in S[R[r]]
      <4>1. Meet(R[r], a, b)
        BY <1>2, <2>2, <3>2
      <4>2. QED
        BY <2>1, <4>1
    <3>3. CASE (a = r \/ a \in S[L[r]]) /\ (b = r \/ b \in S[R[r]])
      BY <2>1, <3>3
    <3>4. ~((a = r \/ a \in S[R[r]]) /\ (b = r \/ b \in S[L[r]]))
      BY <2>1, <2>2
    <3>5. QED
      BY <2>1, <2>2, <3>1, <3>2, <3>3, <3>4
  <2>3. QED
    BY <2>2 DEF NodeOrNull
<1>3. NodeOrNull \subseteq G
  <2> HIDE DEF G
  <2> QED
    BY <1>1, <1>2, TreeInduction
<1>4. QED
  BY <1>3

\* Subtrees that have a node in common are one below the other.
LEMMA Nested ==
    ASSUME NEW L, NEW R, NEW S, IsTree(L, R, S), NEW root \in NodeOrNull,
           NEW x \in S[root], NEW y \in S[root], NEW k \in S[x], k \in S[y]
    PROVE  x \in S[y] \/ y \in S[x]
<1>1. /\ x \in Names /\ y \in Names /\ x \in Int /\ y \in Int
      /\ x \in S[x] /\ y \in S[y]
  <2>1. x \in Names /\ y \in Names
    BY Down
  <2>2. QED
    BY <2>1, TreeSteps
<1>2. ASSUME NEW a \in S[root], NEW b \in S[root], a \in Int, b \in Int, a < b,
             k \in S[a], k \in S[b]
      PROVE  a \in S[b] \/ b \in S[a]
  <2>1. PICK z \in S[root] : (a = z \/ a \in S[L[z]]) /\ (b = z \/ b \in S[R[z]])
    BY <1>2, Between
  <2>2. /\ z \in Names /\ z \in Int /\ z \in S[z]
        /\ S[L[z]] \subseteq S[z] /\ S[R[z]] \subseteq S[z]
        /\ L[z] \in NodeOrNull /\ R[z] \in NodeOrNull
        /\ \A m \in S[L[z]] : m < z /\ m \in Int
        /\ \A m \in S[R[z]] : z < m /\ m \in Int
    BY Down, TreeSteps
  <2>3. CASE a = z \/ b = z
    BY <2>1, <2>2, <2>3
  <2>4. CASE a \in S[L[z]] /\ b \in S[R[z]]
    <3>1. k \in S[L[z]] /\ k \in S[R[z]]
      BY <1>2, <2>2, <2>4, Down
    <3>2. QED
      BY <2>2, <3>1
  <2>5. QED
    BY <2>1, <2>3, <2>4
<1>3. QED
  BY <1>1, <1>2

\* A subtree that has a node has the parent, or begins with the node.
LEMMA Parent ==
    ASSUME NEW L, NEW R, NEW S, IsTree(L, R, S), NEW root \in NodeOrNull,
           NEW p \in S[root], NEW n \in S[root],
           NEW x \in {L[p], R[p]}, x \in S[n]
    PROVE  x = n \/ p \in S[n]
<1>1. /\ p \in Names /\ n \in Names /\ x \in Names /\ p \in Int
      /\ S[p] = {p} \cup S[L[p]] \cup S[R[p]]
      /\ L[p] \in NodeOrNull /\ R[p] \in NodeOrNull
      /\ \A m \in S[L[p]] : m < p /\ m \in Int
      /\ \A m \in S[R[p]] : p < m /\ m \in Int
      /\ n \in S[n]
  <2>1. p \in Names /\ n \in Names /\ x \in Names
    BY Down, NamesAreNumbers DEF NodeOrNull
  <2>2. QED
    BY <2>1, TreeSteps
<1>2. x \in S[x] /\ x \in S[p]
  BY <1>1, TreeSteps
<1>3. p \in S[n] \/ n \in S[p]
  BY <1>2, Nested
<1>4. ASSUME n \in S[x] PROVE x = n
  BY <1>1, <1>4, NoCircle
<1>5. ASSUME NEW c \in {L[p], R[p]}, n \in S[c] PROVE x \in S[c]
  BY <1>1, <1>5, Down
<1>6. ASSUME n \in S[p], n # p PROVE n \in S[x]
  <2>1. L[p] # R[p]
    <3>1. SUFFICES ASSUME L[p] = R[p] PROVE FALSE
      OBVIOUS
    <3>2. x \in S[L[p]] /\ x \in S[R[p]]
      BY <1>2, <3>1
    <3>3. QED
      BY <1>1, <3>2
  <2>2. \A c \in {L[p], R[p]} : n \in S[c] => c = x
    BY <1>1, <1>2, <1>5
  <2>3. n \in S[L[p]] \/ n \in S[R[p]]
    BY <1>1, <1>6
  <2>4. QED
    BY <2>2, <2>3
<1>7. QED
  BY <1>1, <1>3, <1>4, <1>6

\* A smaller name is in the left subtree of a node, or smaller than all below it;
\* a larger one is in the right subtree, or larger than all below it.
LEMMA Sides ==
    ASSUME NEW L, NEW R, NEW S, IsTree(L, R, S), NEW root \in NodeOrNull,
           NEW a \in S[root], NEW m \in S[root]
    PROVE  /\ m < a => m \in S[L[a]] \/ \A k \in S[a] : m < k
           /\ a < m => m \in S[R[a]] \/ \A k \in S[a] : k < m
<1>1. ASSUME NEW x \in S[root], NEW y \in S[root], x < y
      PROVE  /\ x \in S[L[y]] \/ \A k \in S[y] : x < k
             /\ y \in S[R[x]] \/ \A k \in S[x] : k < y
  <2>1. PICK z \in S[root] : (x = z \/ x \in S[L[z]]) /\ (y = z \/ y \in S[R[z]])
    BY <1>1, Between
  <2>2. /\ z \in Names /\ z \in Int /\ x \in Int /\ y \in Int
        /\ L[z] \in NodeOrNull /\ R[z] \in NodeOrNull
        /\ \A k \in S[L[z]] : k < z /\ k \in Int
        /\ \A k \in S[R[z]] : z < k /\ k \in Int
    BY Down, TreeSteps
  <2>3. y = z \/ \A k \in S[y] : z < k /\ k \in Int
    BY <2>1, <2>2, Down
  <2>4. x = z \/ \A k \in S[x] : k < z /\ k \in Int
    BY <2>1, <2>2, Down
  <2>5. (x = z \/ x < z) /\ (y = z \/ z < y)
    BY <2>1, <2>2
  <2>6. QED
    BY <1>1, <2>1, <2>2, <2>3, <2>4, <2>5
<1>2. QED
  BY <1>1

-----------------------------------------------------------------------------
(* Types, and what the control of the program keeps. *)

Known == nodes \cup {Null}

\* All links lead to nodes of the tree.
Linked ==
    /\ label_list \in Known
    /\ left \in [Names -> Known] /\ right \in [Names -> Known]
    /\ {node, pre, explore, milestone} \subseteq Known
    /\ \A k \in DOMAIN path : path[k].label \in Known
    /\ \A n \in Names \ nodes :
          left[n] = Null /\ right[n] = Null /\ red[n] = FALSE /\ kind[n] = "none"

Control ==
    /\ pc \in {"idle", "descend", "ascend"} => task = "none"
    /\ task = "none" => node = Null /\ pre = Null
    /\ pc = "walk" => task # "none"
    /\ node = Null => pre = Null
    /\ pc = "search" => name \in Names /\ pre = Null
    /\ pc = "search" /\ task # "none" => node # Null
    /\ pc \in {"descend", "ascend"} => name \in nodes
    /\ pc = "descend" => Len(path) > 0
    /\ pc # "ascend" => pathp = 0
    /\ pc \notin {"descend", "ascend"} => path = <<>>
    /\ pc = "ascend" => /\ pathp < Len(path)
                        /\ \A k \in 1..pathp + 1 : path[k].label # Null
    /\ \A k \in DOMAIN path : pc = "descend" /\ k < Len(path) => path[k].label # Null

Typed == TypeOK /\ Linked /\ Control

LEMMA TypedInit == Init => Typed
<1> SUFFICES ASSUME Init PROVE Typed
  OBVIOUS
<1>1. TypeOK
  <2>1. path \in Seq([label : NodeOrNull, less : BOOLEAN]) /\ pathp \in 0..Len(path)
    BY DEF Init
  <2>2. listing \in Seq(Labels)
    BY DEF Init
  <2>3. /\ left \in [Names -> NodeOrNull] /\ right \in [Names -> NodeOrNull]
        /\ red \in [Names -> BOOLEAN] /\ kind \in [Names -> Kinds]
    BY DEF Init, NodeOrNull, Kinds
  <2>4. QED
    BY <2>1, <2>2, <2>3 DEF Init, TypeOK, NodeOrNull
<1>2. Linked
  <2>1. \A k \in DOMAIN path : FALSE
    BY DEF Init
  <2>2. QED
    BY <2>1 DEF Init, Linked, Known
<1>3. Control
  <2>1. \A k \in DOMAIN path : FALSE
    BY DEF Init
  <2>2. QED
    BY <2>1 DEF Init, Control
<1>4. QED
  BY <1>1, <1>2, <1>3 DEF Typed

\* What most steps leave alone.
LEMMA TypedKept ==
    ASSUME Typed, UNCHANGED <<use, label_list, nodes, left, red, kind, path, pathp>>,
           right' \in [Names -> Known], \A n \in Names \ nodes : right'[n] = Null,
           deleted' \subseteq nodes, listing' \in Seq(Labels), deleted_before' \subseteq nodes,
           pc \notin {"descend", "ascend"}, pc' \in {"idle", "search", "walk"}, task' \in {"none", "print", "reset", "special"},
           {node', pre', explore', milestone'} \subseteq Known, name' \in NodeOrNull,
           pc' = "idle" => task' = "none",
           task' = "none" => node' = Null /\ pre' = Null,
           pc' = "walk" => task' # "none",
           node' = Null => pre' = Null,
           pc' = "search" => name' \in Names /\ pre' = Null,
           pc' = "search" /\ task' # "none" => node' # Null
    PROVE  Typed'
<1>1. TypeOK /\ Linked /\ Control
  BY DEF Typed
<1>2. Known' = Known /\ Known \subseteq NodeOrNull
  BY <1>1 DEF Known, TypeOK, NodeOrNull
<1>3. TypeOK'
  BY <1>1, <1>2 DEF TypeOK
<1>4. Linked'
  BY <1>1, <1>2 DEF Linked
<1>5. Control'
  BY <1>1 DEF Control
<1>6. QED
  BY <1>3, <1>4, <1>5 DEF Typed

LEMMA TypedCaller == Typed /\ Caller => Typed'
<1> SUFFICES ASSUME Typed, Caller PROVE Typed'
  OBVIOUS
<1>1. TypeOK /\ Linked /\ Control
  BY DEF Typed
<1>2. <<>> \in Seq(Labels)
  OBVIOUS
<1>3. CASE StartDefine
  <2>1. PICK n \in usedNames \ nodes, k \in Kinds :
           /\ kind' = [kind EXCEPT ![n] = k]
           /\ name' = n
           /\ nodes' = nodes \cup {n}
           /\ red' = [red EXCEPT ![n] = TRUE]
           /\ left' = [left EXCEPT ![n] = Null]
           /\ right' = [right EXCEPT ![n] = Null]
    BY <1>3 DEF StartDefine
  <2>2. n \in Names
    <3>1. use.labels \subseteq Labels /\ use.macros \subseteq MacroLabels
      BY <1>1, UsesAssumption DEF TypeOK
    <3>2. QED
      BY <3>1 DEF usedNames, Names, Macros
  <2>3. /\ UNCHANGED <<use, label_list, deleted, task, pathp, node, pre, deleted_before, explore, milestone>>
        /\ pc = "idle" /\ pc' = "descend" /\ listing' = <<>>
        /\ path' = <<[label |-> label_list, less |-> FALSE]>>
    BY <1>3 DEF StartDefine, walkVars
  <2>4. Known \subseteq Known' /\ Known' \subseteq NodeOrNull
    BY <1>1, <2>1, <2>2 DEF Known, NodeOrNull, TypeOK
  <2>5. /\ left' \in [Names -> Known'] /\ right' \in [Names -> Known']
        /\ red' \in [Names -> BOOLEAN] /\ kind' \in [Names -> Kinds]
    <3>1. Null \in Known'
      BY DEF Known
    <3>2. QED
      BY <1>1, <2>1, <2>4, <3>1 DEF Linked, TypeOK
  <2>6. /\ path' \in Seq([label : NodeOrNull, less : BOOLEAN]) /\ Len(path') = 1
        /\ DOMAIN path' = {1} /\ path'[1].label = label_list
    <3>1. [label |-> label_list, less |-> FALSE] \in [label : NodeOrNull, less : BOOLEAN]
      BY <1>1 DEF TypeOK
    <3> DEFINE e == [label |-> label_list, less |-> FALSE]
    <3>2. e.label = label_list /\ path' = <<e>>
      BY <2>3
    <3> HIDE DEF e
    <3>3. QED
      BY <3>1, <3>2 DEF e
  <2>7. pathp' \in 0..Len(path') /\ pathp' = 0
    BY <1>1, <2>3, <2>6 DEF Control
  <2>8. TypeOK'
    BY <1>1, <1>2, <2>1, <2>2, <2>3, <2>4, <2>5, <2>6, <2>7 DEF TypeOK, NodeOrNull
  <2>9. Linked'
    BY <1>1, <2>1, <2>3, <2>4, <2>5, <2>6 DEF Linked, TypeOK
  <2>10. Control'
    BY <1>1, <2>1, <2>2, <2>3, <2>6, <2>7 DEF Control
  <2>11. QED
    BY <2>8, <2>9, <2>10 DEF Typed
<1>4. CASE Delete
  <2>1. PICK n \in nodes \cap (Macros \cup MacroLabels) : deleted' = deleted \cup {n}
    BY <1>4 DEF Delete
  <2>2. pc = "idle" /\ listing' = <<>>
        /\ UNCHANGED <<treeVars, kind, pc, task, pathVars, walkVars, searchVars>>
    BY <1>4 DEF Delete
  <2>3. QED
    BY <1>1, <1>2, <2>1, <2>2, TypedKept
      DEF TypeOK, Linked, Control, treeVars, pathVars, walkVars, searchVars
<1>5. CASE Undelete
  <2>1. PICK n \in deleted, k \in Kinds : /\ k \in KindsOf(n)
                                          /\ deleted' = deleted \ {n}
                                          /\ kind' = [kind EXCEPT ![n] = k]
    BY <1>5 DEF Undelete
  <2>2. /\ pc = "idle" /\ listing' = <<>>
        /\ UNCHANGED <<use, label_list, nodes, left, right, red, pc, task, path, pathp,
                       node, pre, deleted_before, name, explore, milestone>>
    BY <1>5 DEF Undelete, treeVars, pathVars, walkVars, searchVars
  <2>3. n \in nodes
    BY <1>1, <2>1 DEF TypeOK
  <2>4. kind' \in [Names -> Kinds] /\ \A m \in Names \ nodes : kind'[m] = kind[m]
    BY <1>1, <2>1, <2>3 DEF TypeOK
  <2>5. TypeOK'
    BY <1>1, <1>2, <2>1, <2>2, <2>4 DEF TypeOK
  <2>6. Linked'
    BY <1>1, <2>2, <2>4 DEF Linked, Known
  <2>7. Control'
    BY <1>1, <2>2 DEF Control
  <2>8. QED
    BY <2>5, <2>6, <2>7 DEF Typed
<1>6. CASE StartFind
  <2>1. PICK n \in usedNames : BeginSearch(n)
    BY <1>6 DEF StartFind
  <2>2. n \in Names
    <3>1. use.labels \subseteq Labels /\ use.macros \subseteq MacroLabels
      BY <1>1, UsesAssumption DEF TypeOK
    <3>2. QED
      BY <3>1 DEF usedNames, Names, Macros
  <2>3. pc = "idle" /\ listing' = <<>>
        /\ UNCHANGED <<treeVars, bitVars, task, pathVars, walkVars>>
    BY <1>6 DEF StartFind
  <2>4. QED
    BY <1>1, <1>2, <2>1, <2>2, <2>3, TypedKept
      DEF TypeOK, Linked, Control, NodeOrNull, Known, BeginSearch, treeVars, bitVars, pathVars, walkVars
<1>7. CASE StartTraversal
  <2>1. use.traversals \subseteq {"print", "reset", "special"}
    BY <1>1, UsesAssumption DEF TypeOK
  <2>2. task' \in {"print", "reset", "special"}
    BY <1>7, <2>1 DEF StartTraversal
  <2>3. QED
    BY <1>1, <1>2, <1>7, <2>2, TypedKept
      DEF StartTraversal, TypeOK, Linked, Control, Known, treeVars, bitVars, pathVars, searchVars
<1>8. QED
  BY <1>3, <1>4, <1>5, <1>6, <1>7 DEF Caller

LEMMA SequenceElements ==
    ASSUME NEW X, NEW s \in Seq(X), NEW k \in DOMAIN s
    PROVE  s[k] \in X
OBVIOUS

\* Changing an entry of path.
LEMMA EntryChanged ==
    ASSUME NEW X, NEW e \in [label : X, less : BOOLEAN], NEW x \in X, NEW b \in BOOLEAN
    PROVE  /\ [e EXCEPT !.label = x] \in [label : X, less : BOOLEAN]
           /\ [e EXCEPT !.label = x].label = x /\ [e EXCEPT !.label = x].less = e.less
           /\ [e EXCEPT !.less = b] \in [label : X, less : BOOLEAN]
           /\ [e EXCEPT !.less = b].label = e.label /\ [e EXCEPT !.less = b].less = b
           /\ e.label \in X /\ e.less \in BOOLEAN
<1>1. e = [label |-> e.label, less |-> e.less] /\ e.label \in X /\ e.less \in BOOLEAN
  OBVIOUS
<1>2. QED
  BY <1>1

Entries == [label : NodeOrNull, less : BOOLEAN]

\* What Descend makes of the path.
LEMMA DescendPath ==
    ASSUME Typed, Descend, NEW i, i = Len(path), NEW at, at = path[i].label
    PROVE  /\ i \in Nat /\ i > 0 /\ at \in Known /\ Known \subseteq NodeOrNull
           /\ path' \in Seq(Entries)
           /\ \A k \in 1..i : path[k].label \in Known /\ (k < i => path[k].label # Null)
           /\ \A k \in 1..i : k < i => path'[k] = path[k]
           /\ at # Null => /\ at \in nodes /\ Len(path') = i + 1
                           /\ path'[i].label = at /\ path'[i].less = (name < at)
                           /\ path'[i + 1].label = IF name < at THEN left[at] ELSE right[at]
                           /\ pc' = pc /\ pathp' = 0
           /\ at = Null => /\ Len(path') = i /\ path'[i].label = name /\ name \in nodes
                           /\ pc' = "ascend" /\ pathp' = i - 1
<1>1. TypeOK /\ Linked /\ Control
  BY DEF Typed
<1>2. pc = "descend" /\ path \in Seq(Entries) /\ i \in Nat /\ i > 0 /\ DOMAIN path = 1..i /\ i \in 1..i
  BY <1>1 DEF Descend, TypeOK, Entries, Control
<1>3. /\ Known \subseteq NodeOrNull /\ at \in Known
      /\ \A k \in 1..i : path[k] \in Entries /\ path[k].label \in Known
  <2>1. Known \subseteq NodeOrNull
    BY <1>1 DEF Known, TypeOK, NodeOrNull
  <2>2. \A k \in 1..i : path[k] \in Entries /\ path[k].label \in Known
    BY <1>1, <1>2, SequenceElements DEF Linked
  <2>3. QED
    BY <1>2, <2>1, <2>2
<1>4. \A k \in 1..i : k < i => path[k].label # Null
  BY <1>1, <1>2 DEF Control
<1>5. CASE at # Null
  <2> PICK b : b = (name < at)
    OBVIOUS
  <2> DEFINE e == [label |-> IF name < at THEN left[at] ELSE right[at], less |-> FALSE]
             d == [path[i] EXCEPT !.less = b]
  <2>1. at \in nodes /\ at \in Names
    BY <1>1, <1>3, <1>5 DEF Known, TypeOK
  <2>2. e \in Entries /\ e.label = IF name < at THEN left[at] ELSE right[at]
    BY <1>1, <2>1 DEF TypeOK, Entries
  <2>3. d \in Entries /\ d.label = at /\ d.less = b
    <3> PICK a : a = path[i]
      OBVIOUS
    <3>1. a \in Entries /\ b \in BOOLEAN /\ a.label = at
      BY <1>2, <1>3
    <3>2. [a EXCEPT !.less = b] \in Entries /\ [a EXCEPT !.less = b].label = a.label
          /\ [a EXCEPT !.less = b].less = b
      BY <3>1, EntryChanged DEF Entries
    <3>3. QED
      BY <3>1, <3>2
  <2>4. path' = Append([path EXCEPT ![i] = d], e) /\ pc' = pc /\ pathp' = pathp
    BY <1>5 DEF Descend
  <2> HIDE DEF e, d
  <2> DEFINE q == [path EXCEPT ![i] = d]
  <2>5. q \in Seq(Entries) /\ Len(q) = i /\ \A k \in 1..i : q[k] = IF k = i THEN d ELSE path[k]
    BY <1>2, <1>3, <2>3
  <2> HIDE DEF q
  <2>6. path' \in Seq(Entries) /\ Len(path') = i + 1 /\ path'[i + 1] = e
        /\ \A k \in 1..i : path'[k] = q[k]
    <3>1. path' = Append(q, e)
      BY <2>4 DEF q
    <3>2. QED
      BY <1>2, <2>2, <2>5, <3>1
  <2>7. pathp' = 0
    BY <1>1, <1>2, <2>4 DEF Control
  <2>8. path'[i] = d /\ \A k \in 1..i : k < i => path'[k] = path[k]
    BY <1>2, <2>5, <2>6
  <2>9. QED
    BY <1>2, <1>3, <1>4, <1>5, <2>1, <2>2, <2>3, <2>4, <2>6, <2>7, <2>8
<1>6. CASE at = Null
  <2> DEFINE d == [path[i] EXCEPT !.label = name]
  <2>1. name \in nodes /\ name \in NodeOrNull
    BY <1>1, <1>2 DEF Control, TypeOK
  <2>2. d \in Entries /\ d.label = name
    BY <1>2, <1>3, <2>1 DEF Entries
  <2>3. path' = [path EXCEPT ![i] = d] /\ pathp' = i - 1 /\ pc' = "ascend"
    BY <1>6 DEF Descend
  <2> HIDE DEF d
  <2>4. /\ path' \in Seq(Entries) /\ Len(path') = i
        /\ \A k \in 1..i : path'[k] = IF k = i THEN d ELSE path[k]
    BY <1>2, <1>3, <2>2, <2>3
  <2>5. path'[i] = d /\ \A k \in 1..i : k < i => path'[k] = path[k]
    BY <1>2, <2>4
  <2>6. QED
    BY <1>2, <1>3, <1>4, <1>6, <2>1, <2>2, <2>3, <2>4, <2>5
<1>7. QED
  BY <1>5, <1>6

LEMMA TypedDescend == Typed /\ Descend => Typed'
<1> SUFFICES ASSUME Typed, Descend PROVE Typed'
  OBVIOUS
<1>1. TypeOK /\ Linked /\ Control
  BY DEF Typed
<1>2. PICK i, at : i = Len(path) /\ at = path[i].label
  OBVIOUS
<1>3. /\ i \in Nat /\ i > 0 /\ at \in Known /\ Known \subseteq NodeOrNull
      /\ path' \in Seq(Entries)
      /\ \A k \in 1..i : path[k].label \in Known /\ (k < i => path[k].label # Null)
      /\ \A k \in 1..i : k < i => path'[k] = path[k]
      /\ at # Null => /\ at \in nodes /\ Len(path') = i + 1
                      /\ path'[i].label = at
                      /\ path'[i + 1].label = IF name < at THEN left[at] ELSE right[at]
                      /\ pc' = pc /\ pathp' = 0
      /\ at = Null => /\ Len(path') = i /\ path'[i].label = name /\ name \in nodes
                      /\ pc' = "ascend" /\ pathp' = i - 1
  BY <1>2, DescendPath
<1>4. pc = "descend" /\ UNCHANGED <<use, label_list, nodes, left, right, red, deleted, kind, task, node, pre,
                     deleted_before, listing, name, explore, milestone>>
  BY DEF Descend, treeVars, bitVars, walkVars, searchVars
<1>5. CASE at # Null
  <2>1. left[at] \in Known /\ right[at] \in Known
    BY <1>1, <1>3, <1>5 DEF Linked, TypeOK
  <2>2. \A k \in 1..i+1 : path'[k].label \in Known
    <3>1. \A k \in 1..i+1 : (k \in 1..i /\ k < i) \/ k = i \/ k = i + 1
      BY <1>3
    <3>2. QED
      BY <1>3, <1>5, <2>1, <3>1
  <2>3. \A k \in 1..i : path'[k].label # Null
    <3>1. \A k \in 1..i : k < i \/ k = i
      BY <1>3
    <3>2. QED
      BY <1>3, <1>5, <3>1
  <2>4. pathp' \in 0..Len(path') /\ Len(path') > 0 /\ DOMAIN path' = 1..i+1
    BY <1>3, <1>5
  <2>5. TypeOK'
    BY <1>1, <1>3, <1>4, <1>5, <2>4 DEF TypeOK, Entries
  <2>6. Linked'
    BY <1>1, <1>4, <2>2, <2>4 DEF Linked, Known
  <2>7. Control'
    <3>1. \A k \in DOMAIN path' : k < Len(path') => path'[k].label # Null
      BY <1>3, <1>5, <2>3, <2>4
    <3>2. QED
      BY <1>1, <1>3, <1>4, <1>5, <2>4, <3>1 DEF Control
  <2>8. QED
    BY <2>5, <2>6, <2>7 DEF Typed
<1>6. CASE at = Null
  <2>1. name # Null
    BY <1>1, <1>3, <1>6, NamesAreNumbers DEF TypeOK
  <2>2. \A k \in 1..i : path'[k].label \in Known /\ path'[k].label # Null
    <3>1. \A k \in 1..i : k < i \/ k = i
      BY <1>3
    <3>2. QED
      BY <1>3, <1>6, <2>1, <3>1 DEF Known
  <2>3. pathp' \in 0..Len(path') /\ pathp' < Len(path') /\ pathp' + 1 = i /\ DOMAIN path' = 1..i
    BY <1>3, <1>6
  <2>4. TypeOK'
    BY <1>1, <1>3, <1>4, <1>6, <2>3 DEF TypeOK, Entries
  <2>5. Linked'
    BY <1>1, <1>4, <2>2, <2>3 DEF Linked, Known
  <2>6. Control'
    BY <1>1, <1>3, <1>4, <1>6, <2>2, <2>3 DEF Control
  <2>7. QED
    BY <2>4, <2>5, <2>6 DEF Typed
<1>7. QED
  BY <1>5, <1>6

LEMMA TypedAscend == Typed /\ Ascend => Typed'
<1> SUFFICES ASSUME Typed, Ascend PROVE Typed'
  OBVIOUS
<1>1. TypeOK /\ Linked /\ Control
  BY DEF Typed
<1> DEFINE E == [label : NodeOrNull, less : BOOLEAN]
<1>2. PICK c, q, x : q = pathp /\ c = path[q].label /\ x = path[q + 1].label
  OBVIOUS
<1>3. /\ pc = "ascend" /\ path \in Seq(E) /\ q \in Nat /\ q > 0 /\ q < Len(path) /\ q \in DOMAIN path
      /\ path[q] \in E /\ c \in nodes /\ x \in nodes
      /\ nodes \subseteq Names /\ Known \subseteq NodeOrNull /\ Null \in Known /\ nodes \subseteq Known
      /\ UNCHANGED <<use, label_list, nodes, deleted, kind, task, node, pre, deleted_before, listing>>
  <2>1. pc = "ascend" /\ path \in Seq(E) /\ q \in Nat /\ q > 0
    BY <1>1, <1>2 DEF Ascend, TypeOK
  <2>2. q < Len(path)
    BY <1>1, <1>2, <2>1 DEF Control
  <2>3. q \in DOMAIN path /\ q + 1 \in DOMAIN path /\ q \in 1..q + 1 /\ q + 1 \in 1..q + 1
    BY <2>1, <2>2
  <2>4. nodes \subseteq Names /\ Known \subseteq NodeOrNull /\ Null \in Known /\ nodes \subseteq Known
    BY <1>1 DEF Known, TypeOK, NodeOrNull
  <2>5. path[q] \in E
    BY <2>1, <2>3, SequenceElements
  <2>6. c \in Known /\ x \in Known
    BY <1>1, <1>2, <2>3 DEF Linked
  <2>7. c # Null /\ x # Null
    BY <1>1, <1>2, <2>1, <2>3 DEF Control
  <2>8. UNCHANGED <<use, label_list, nodes, deleted, kind, task, node, pre, deleted_before, listing>>
    BY DEF Ascend, bitVars, walkVars
  <2>9. QED
    BY <2>1, <2>2, <2>3, <2>4, <2>5, <2>6, <2>7, <2>8 DEF Known
<1> DEFINE d == [path[q] EXCEPT !.label = x]
<1>4. d \in E /\ d.label = x
  BY <1>3
<1>5. [path EXCEPT ![pathp].label = x] = [path EXCEPT ![q] = d]
  BY <1>2
<1> HIDE DEF d, E
<1>6. IF path[q].less THEN FixLeft(c, x) ELSE FixRight(c, x)
  BY <1>2 DEF Ascend
<1>7. IF red[x] THEN pathp' = q - 1 /\ UNCHANGED <<pc, searchVars>> ELSE EndInsertion
  BY <1>2 DEF Ascend
<1>8. /\ left' \in [Names -> Known] /\ right' \in [Names -> Known] /\ red' \in [Names -> BOOLEAN]
      /\ \A n \in Names \ nodes : left'[n] = left[n] /\ right'[n] = right[n] /\ red'[n] = red[n]
      /\ path' = IF red[x] THEN path' ELSE <<>>
      /\ red[x] => path' \in {path, [path EXCEPT ![q] = d]}
  <2>1. /\ left \in [Names -> Known] /\ right \in [Names -> Known] /\ red \in [Names -> BOOLEAN]
    BY <1>1 DEF Linked, TypeOK
  <2>2. CASE path[q].less
    <3>1. FixLeft(c, x)
      BY <1>6, <2>2
    <3>2. /\ left[x] \in Known /\ right[x] \in Known
      BY <1>3, <2>1
    <3>3. left[x] # Null => left[x] \in nodes
      BY <3>2 DEF Known
    <3>4. CASE red[x] /\ left[x] # Null /\ red[left[x]]
      <4>1. /\ red' = [red EXCEPT ![left[x]] = FALSE]
            /\ left' = [left EXCEPT ![c] = right[x]]
            /\ right' = [right EXCEPT ![x] = c]
            /\ path' = [path EXCEPT ![q] = d]
        BY <3>1, <3>4, <1>5 DEF FixLeft
      <4>2. QED
        BY <1>3, <2>1, <3>2, <3>3, <3>4, <4>1
    <3>5. CASE ~(red[x] /\ left[x] # Null /\ red[left[x]])
      <4>1. /\ left' = [left EXCEPT ![c] = x]
            /\ UNCHANGED <<red, right>>
            /\ path' = IF red[x] THEN path ELSE <<>>
        BY <3>1, <3>5 DEF FixLeft
      <4>2. QED
        BY <1>3, <2>1, <4>1
    <3>6. QED
      BY <3>4, <3>5
  <2>3. CASE ~path[q].less
    <3>1. FixRight(c, x)
      BY <1>6, <2>3
    <3>2. /\ left[c] \in Known /\ left[x] \in Known
      BY <1>3, <2>1
    <3>3. left[c] # Null => left[c] \in nodes
      BY <3>2 DEF Known
    <3>4. CASE red[x] /\ left[c] # Null /\ red[left[c]]
      <4>1. /\ red' = [red EXCEPT ![left[c]] = FALSE, ![x] = FALSE, ![c] = TRUE]
            /\ right' = [right EXCEPT ![c] = x]
            /\ left' = left
            /\ path' = path
        BY <3>1, <3>4 DEF FixRight
      <4>2. red' \in [Names -> BOOLEAN] /\ \A n \in Names \ nodes : red'[n] = red[n]
        BY <1>3, <2>1, <3>3, <3>4, <4>1
      <4>3. QED
        BY <1>3, <2>1, <3>4, <4>1, <4>2
    <3>5. CASE red[x] /\ ~(left[c] # Null /\ red[left[c]])
      <4>1. /\ red' = [red EXCEPT ![x] = red[c], ![c] = TRUE]
            /\ right' = [right EXCEPT ![c] = left[x]]
            /\ left' = [left EXCEPT ![x] = c]
            /\ path' = [path EXCEPT ![q] = d]
        BY <3>1, <3>5, <1>5 DEF FixRight
      <4>2. red' \in [Names -> BOOLEAN] /\ \A n \in Names \ nodes : red'[n] = red[n]
        BY <1>3, <2>1, <4>1
      <4>3. QED
        BY <1>3, <2>1, <3>2, <3>5, <4>1, <4>2
    <3>6. CASE ~red[x]
      <4>1. /\ red' = red
            /\ right' = [right EXCEPT ![c] = x]
            /\ left' = left
            /\ path' = <<>>
        BY <3>1, <3>6 DEF FixRight
      <4>2. QED
        BY <1>3, <2>1, <3>6, <4>1
    <3>7. QED
      BY <3>4, <3>5, <3>6
  <2>4. QED
    BY <2>2, <2>3
<1>9. CASE red[x]
  <2>1. /\ path' \in Seq(E) /\ Len(path') = Len(path) /\ DOMAIN path' = DOMAIN path
        /\ \A k \in DOMAIN path : path'[k] = path[k] \/ path'[k] = d
    BY <1>3, <1>4, <1>8, <1>9
  <2>2. /\ \A k \in DOMAIN path' : path'[k].label \in Known
        /\ \A k \in 1..q : path'[k].label # Null
    <3>1. x \in Known /\ x # Null
      BY <1>3, NamesAreNumbers
    <3>2. \A k \in DOMAIN path : path[k].label \in Known
      BY <1>1 DEF Linked
    <3>3. \A k \in 1..q : k \in DOMAIN path /\ path[k].label # Null
      <4>1. \A k \in 1..q : k \in 1..q + 1 /\ k \in 1..Len(path)
        BY <1>3
      <4>2. \A k \in 1..q + 1 : path[k].label # Null
        BY <1>1, <1>2, <1>3 DEF Control
      <4>3. QED
        BY <1>3, <4>1, <4>2
    <3>4. QED
      BY <1>4, <2>1, <3>1, <3>2, <3>3
  <2>3. /\ pathp' = q - 1 /\ pc' = pc /\ name' = name /\ explore' = explore /\ milestone' = milestone
    BY <1>7, <1>9 DEF searchVars
  <2>4. pathp' \in 0..Len(path') /\ pathp' < Len(path') /\ pathp' + 1 = q
    BY <1>3, <2>1, <2>3
  <2>5. TypeOK'
    BY <1>1, <1>3, <1>8, <2>1, <2>3, <2>4 DEF TypeOK, E
  <2>6. Linked'
    BY <1>1, <1>3, <1>8, <2>2, <2>3 DEF Linked, Known
  <2>7. Control'
    BY <1>1, <1>3, <2>2, <2>3, <2>4 DEF Control
  <2>8. QED
    BY <2>5, <2>6, <2>7 DEF Typed
<1>10. CASE ~red[x]
  <2>1. path' = <<>> /\ pathp' = 0 /\ pc' = "idle" /\ name' = Null /\ explore' = Null /\ milestone' = Null
    BY <1>7, <1>8, <1>10 DEF EndInsertion, LeaveSearch
  <2>2. path' \in Seq(E) /\ pathp' \in 0..Len(path') /\ \A k \in DOMAIN path' : FALSE
    BY <2>1
  <2>3. TypeOK'
    BY <1>1, <1>3, <1>8, <2>1, <2>2 DEF TypeOK, E, NodeOrNull
  <2>4. Linked'
    BY <1>1, <1>3, <1>8, <2>1, <2>2 DEF Linked, Known
  <2>5. Control'
    BY <1>1, <1>3, <2>1, <2>2 DEF Control
  <2>6. QED
    BY <2>3, <2>4, <2>5 DEF Typed
<1>11. QED
  BY <1>9, <1>10

LEMMA TypedNewRoot == Typed /\ NewRoot => Typed'
<1> SUFFICES ASSUME Typed, NewRoot PROVE Typed'
  OBVIOUS
<1>1. TypeOK /\ Linked /\ Control
  BY DEF Typed
<1>2. path[1].label \in nodes
  <2>1. pc = "ascend" /\ pathp = 0 /\ pathp < Len(path) /\ 1 \in 1..pathp + 1
    BY <1>1 DEF NewRoot, Control
  <2>2. 1 \in DOMAIN path
    BY <1>1, <2>1 DEF TypeOK
  <2>3. path[1].label # Null
    BY <1>1, <2>1 DEF Control
  <2>4. QED
    BY <1>1, <2>2, <2>3 DEF Linked, Known
<1>3. PICK r : r = path[1].label
  OBVIOUS
<1>4. /\ label_list' = r /\ path' = <<>> /\ red' = [red EXCEPT ![r] = FALSE]
      /\ pc' = "idle" /\ pathp' = 0 /\ name' = Null /\ explore' = Null /\ milestone' = Null
      /\ UNCHANGED <<use, nodes, left, right, deleted, kind, task, node, pre, deleted_before, listing>>
  BY <1>3 DEF NewRoot, EndInsertion, LeaveSearch, bitVars, walkVars
<1>5. path' \in Seq([label : NodeOrNull, less : BOOLEAN]) /\ pathp' \in 0..Len(path')
      /\ \A k \in DOMAIN path' : FALSE
  BY <1>4
<1>6. r \in nodes /\ r \in NodeOrNull /\ nodes \subseteq Names
  BY <1>1, <1>2, <1>3 DEF TypeOK, NodeOrNull
<1>7. red' \in [Names -> BOOLEAN] /\ \A n \in Names \ nodes : red'[n] = red[n]
  BY <1>1, <1>4, <1>6 DEF TypeOK
<1>8. TypeOK'
  BY <1>1, <1>4, <1>5, <1>6, <1>7 DEF TypeOK, NodeOrNull
<1>9. Linked'
  BY <1>1, <1>4, <1>5, <1>6, <1>7 DEF Linked, Known
<1>10. Control'
  BY <1>1, <1>4, <1>5 DEF Control, NewRoot
<1>11. QED
  BY <1>8, <1>9, <1>10 DEF Typed

\* Visiting a node, whose link to the right may just have lost its thread.
LEMMA TypedVisit ==
    ASSUME Typed, Visit, pc = "walk", node # Null, pre' = Null,
           UNCHANGED <<treeVars, kind, task, pathVars, deleted_before>> \/
             (/\ pre \in nodes /\ RemoveThread
              /\ UNCHANGED <<use, label_list, nodes, left, red, kind, task, pathVars, deleted_before>>)
    PROVE  Typed'
<1>1. TypeOK /\ Linked /\ Control
  BY DEF Typed
<1>2. UNCHANGED <<use, label_list, nodes, left, red, kind, task, path, pathp, deleted_before>>
  BY DEF treeVars, pathVars
<1>3. right' \in [Names -> Known] /\ \A n \in Names \ nodes : right'[n] = Null
  <2>1. CASE right' = right
    BY <1>1, <2>1 DEF Linked
  <2>2. CASE pre \in nodes /\ RemoveThread
    BY <1>1, <2>2 DEF Linked, RemoveThread, TypeOK, Known
  <2>3. QED
    BY <2>1, <2>2 DEF treeVars
<1>4. node \in nodes /\ node \in Names /\ right'[node] \in Known /\ nodes \subseteq Names
  <2>1. node \in nodes /\ node \in Names /\ nodes \subseteq Names
    BY <1>1 DEF Linked, Known, TypeOK
  <2>2. QED
    BY <1>3, <2>1
<1>5. listing' \in Seq(Labels)
  <2>1. Listed(node) => node \in Labels
    BY <1>4, NamesAreNumbers DEF Listed
  <2>2. listing' = listing \/ (Listed(node) /\ listing' = Append(listing, node))
    BY DEF Visit
  <2>3. QED
    BY <1>1, <2>1, <2>2 DEF TypeOK
<1>6. deleted' \subseteq nodes
  <2>1. deleted' = deleted \/ deleted' = deleted \cup {node}
    BY DEF Visit
  <2>2. QED
    BY <1>1, <1>4, <2>1 DEF TypeOK
<1>7. task # "none" /\ task \in {"none", "print", "reset", "special"}
  BY <1>1 DEF Control, TypeOK
<1>8. deleted_before' \subseteq nodes /\ label_list \in Known /\ Null \in Known
  BY <1>1, <1>2 DEF TypeOK, Linked, Known
<1>9. CASE node \in Macros /\ BeginSearch(LabelOf(node)) /\ UNCHANGED node
  <2>1. LabelOf(node) \in Names
    BY <1>9, NamesAreNumbers DEF Names
  <2>2. /\ name' = LabelOf(node) /\ explore' = label_list /\ milestone' = Null /\ pc' = "search"
        /\ node' = node
    BY <1>9 DEF BeginSearch
  <2>3. {node', pre', explore', milestone'} \subseteq Known /\ name' \in NodeOrNull
    BY <1>4, <1>8, <2>1, <2>2 DEF Known, NodeOrNull
  <2>4. QED
    BY <1>2, <1>3, <1>5, <1>6, <1>7, <1>8, <2>1, <2>2, <2>3, TypedKept
<1>10. CASE node' = right'[node] /\ UNCHANGED <<pc, name, explore, milestone>>
  <2>1. {node', pre', explore', milestone'} \subseteq Known /\ name' \in NodeOrNull
    BY <1>1, <1>4, <1>8, <1>10 DEF Linked, TypeOK
  <2>2. QED
    BY <1>2, <1>3, <1>5, <1>6, <1>7, <1>8, <1>10, <2>1, TypedKept
<1>11. QED
  BY <1>9, <1>10 DEF Visit

LEMMA TypedWalk ==
    ASSUME Typed,
           \/ Search \/ EndFind \/ StartPredecessor \/ Predecessor \/ Thread
           \/ VisitLeftmost \/ VisitBehindThread \/ FoundLabel \/ EndTraversal
    PROVE  Typed'
<1>1. TypeOK /\ Linked /\ Control
  BY DEF Typed
<1>2. /\ \A n \in nodes : left[n] \in Known /\ right[n] \in Known
      /\ left \in [Names -> Known] /\ right \in [Names -> Known]
      /\ \A n \in Names \ nodes : right[n] = Null
      /\ nodes \subseteq Names /\ Known = nodes \cup {Null} /\ Known \subseteq NodeOrNull
      /\ {node, pre, explore, milestone} \subseteq Known /\ name \in NodeOrNull
      /\ deleted \subseteq nodes /\ deleted_before \subseteq nodes /\ listing \in Seq(Labels)
      /\ pc \in {"idle", "descend", "ascend", "search", "walk"}
      /\ task \in {"none", "print", "reset", "special"} /\ Null \in NodeOrNull /\ {} \subseteq nodes
  BY <1>1 DEF TypeOK, Linked, Known, NodeOrNull
<1>3. CASE Search
  <2>1. explore \in nodes /\ left[explore] \in Known /\ FollowRight(explore) \in Known
    BY <1>2, <1>3 DEF Search, FollowRight
  <2>2. {milestone', explore'} \subseteq Known
    BY <1>2, <1>3, <2>1 DEF Search
  <2>3. /\ UNCHANGED <<use, label_list, nodes, left, right, red, deleted, kind, pc, task, path, pathp,
                       node, pre, deleted_before, listing, name>>
        /\ pc = "search"
    BY <1>3 DEF Search, treeVars, bitVars, pathVars, walkVars
  <2>4. QED
    BY <1>1, <1>2, <2>2, <2>3, TypedKept DEF Control
<1>4. CASE EndFind
  <2>1. /\ UNCHANGED <<use, label_list, nodes, left, right, red, deleted, kind, task, path, pathp,
                       node, pre, deleted_before, listing>>
        /\ pc = "search" /\ pc' = "idle" /\ task = "none"
        /\ name' = Null /\ explore' = Null /\ milestone' = Null
    BY <1>4 DEF EndFind, LeaveSearch, treeVars, bitVars, pathVars, walkVars
  <2>2. QED
    BY <1>1, <1>2, <2>1, TypedKept DEF Control
<1>5. CASE StartPredecessor \/ Predecessor
  <2>1. /\ UNCHANGED <<use, label_list, nodes, left, right, red, deleted, kind, task, path, pathp,
                       pc, node, deleted_before, listing, name, explore, milestone>>
        /\ pc = "walk" /\ node # Null /\ pre' \in Known
    BY <1>1, <1>2, <1>5
      DEF StartPredecessor, Predecessor, Control, treeVars, bitVars, pathVars, searchVars
  <2>2. QED
    BY <1>1, <1>2, <2>1, TypedKept DEF Control
<1>6. CASE Thread
  <2>1. /\ UNCHANGED <<use, label_list, nodes, left, red, deleted, kind, task, path, pathp,
                       pc, deleted_before, listing, name, explore, milestone>>
        /\ pc = "walk" /\ node \in nodes /\ pre \in nodes /\ pre' = Null /\ node' = left[node]
        /\ right' = [right EXCEPT ![pre] = node]
    BY <1>1, <1>2, <1>6 DEF Thread, Control, bitVars, pathVars, searchVars
  <2>2. right' \in [Names -> Known] /\ \A n \in Names \ nodes : right'[n] = Null
    BY <1>2, <2>1
  <2>3. QED
    BY <1>1, <1>2, <2>1, <2>2, TypedKept DEF Control
<1>7. CASE VisitLeftmost
  <2>1. /\ Visit /\ pc = "walk" /\ node # Null /\ pre' = Null
        /\ UNCHANGED <<treeVars, kind, task, pathVars, deleted_before>>
    BY <1>7 DEF VisitLeftmost
  <2>2. QED
    BY <2>1, TypedVisit
<1>8. CASE VisitBehindThread
  <2>1. /\ Visit /\ pc = "walk" /\ node # Null /\ pre' = Null /\ pre \in nodes /\ RemoveThread
        /\ UNCHANGED <<use, label_list, nodes, left, red, kind, task, pathVars, deleted_before>>
    BY <1>1, <1>2, <1>8 DEF VisitBehindThread, Control
  <2>2. QED
    BY <2>1, TypedVisit
<1>9. CASE FoundLabel
  <2>1. /\ UNCHANGED <<use, label_list, nodes, left, right, red, kind, task, path, pathp,
                       pre, deleted_before, listing>>
        /\ pc = "search" /\ pc' = "walk" /\ task # "none" /\ explore \in {Null, name}
        /\ deleted' \subseteq deleted \cup ({explore} \ {Null}) /\ node' = right[node]
        /\ name' = Null /\ explore' = Null /\ milestone' = Null
    BY <1>9 DEF FoundLabel, LeaveSearch, treeVars, pathVars
  <2>2. node \in nodes /\ pre = Null /\ deleted' \subseteq nodes
    BY <1>1, <1>2, <2>1 DEF Control
  <2>3. QED
    BY <1>1, <1>2, <2>1, <2>2, TypedKept DEF Control
<1>10. CASE EndTraversal
  <2>1. /\ UNCHANGED <<use, label_list, nodes, left, right, red, deleted, kind, path, pathp,
                       listing, name, explore, milestone>>
        /\ pc = "walk" /\ pc' = "idle" /\ task' = "none" /\ node' = Null /\ pre' = Null
        /\ deleted_before' = {}
    BY <1>10 DEF EndTraversal, treeVars, bitVars, pathVars, searchVars
  <2>2. QED
    BY <1>1, <1>2, <2>1, TypedKept DEF Control
<1>11. QED
  BY <1>3, <1>4, <1>5, <1>6, <1>7, <1>8, <1>9, <1>10

LEMMA TypedNext == Typed /\ [Next]_vars => Typed'
<1> SUFFICES ASSUME Typed, [Next]_vars PROVE Typed'
  OBVIOUS
<1>1. CASE UNCHANGED vars
  BY <1>1 DEF Typed, TypeOK, Linked, Known, Control, vars, treeVars, bitVars, pathVars, walkVars, searchVars
<1>2. CASE Next
  BY <1>2, TypedCaller, TypedDescend, TypedAscend, TypedNewRoot, TypedWalk DEF Next, Step
<1>3. QED
  BY <1>1, <1>2

\* Every variable of the label tree always has a value of its kind: no link of
\* define_label(), find_cat_label() or a traversal leads out of the tree.
THEOREM LabelTreeTyped == Spec => []TypeOK
<1>1. Init => Typed
  BY TypedInit
<1>2. Typed /\ [Next]_vars => Typed'
  BY TypedNext
<1>3. Typed => TypeOK
  BY DEF Typed
<1>4. QED
  BY <1>1, <1>2, <1>3, PTL DEF Spec

-----------------------------------------------------------------------------
(* The nodes above another one.  All nodes that have links are below the root. *)

Rooted(L, R, S, root) ==
    /\ IsTree(L, R, S) /\ root \in NodeOrNull
    /\ \A n \in Names \ S[root] : L[n] = Null /\ R[n] = Null

\* The nodes that have n in their left subtree.
Above(L, S, n) == {a \in Names : n \in S[L[a]]}

LEMMA OnlyParent ==
    ASSUME NEW L, NEW R, NEW S, NEW root, Rooted(L, R, S, root), NEW p \in Names, NEW n \in Names,
           NEW x \in Names, x \in {L[p], R[p]}, x \in {L[n], R[n]}
    PROVE  p = n /\ p \in S[root] /\ x \in S[root] /\ ~(x = L[p] /\ x = R[p])
<1>1. IsTree(L, R, S) /\ root \in NodeOrNull /\ x # Null
  BY NamesAreNumbers DEF Rooted
<1>2. p \in S[root] /\ n \in S[root]
  BY <1>1 DEF Rooted
<1>3. /\ S[p] = {p} \cup S[L[p]] \cup S[R[p]] /\ S[n] = {n} \cup S[L[n]] \cup S[R[n]]
      /\ x \in S[x] /\ p \in Int /\ n \in Int
      /\ \A m \in S[L[n]] : m < n /\ m \in Int
      /\ \A m \in S[R[n]] : n < m /\ m \in Int
      /\ \A m \in S[L[p]] : m < p /\ m \in Int
      /\ \A m \in S[R[p]] : p < m /\ m \in Int
  BY <1>1, TreeSteps
<1>4. x \in S[p] /\ x \in S[n] /\ x # p /\ x # n /\ ~(x = L[p] /\ x = R[p])
  BY <1>3
<1>5. p \in S[n] /\ n \in S[p]
  BY <1>1, <1>2, <1>4, Parent
<1>6. p = n
  BY <1>1, <1>5, NoCircle
<1>7. x \in S[root]
  BY <1>1, <1>2, <1>4, Down
<1>8. QED
  BY <1>2, <1>4, <1>6, <1>7

LEMMA AboveIsInside ==
    ASSUME NEW L, NEW R, NEW S, NEW root, Rooted(L, R, S, root), NEW n, NEW a \in Above(L, S, n)
    PROVE  /\ a \in S[root] /\ a \in Names /\ n \in Names /\ n \in S[root] /\ n < a
           /\ n \in S[L[a]] /\ n \in S[a] /\ L[a] # Null /\ a \notin S[n]
<1>1. IsTree(L, R, S) /\ root \in NodeOrNull /\ a \in Names /\ n \in S[L[a]] /\ S[Null] = {}
  BY DEF Rooted, Above, IsTree
<1>2. a \in S[root] /\ L[a] # Null
  BY <1>1 DEF Rooted
<1>3. n \in S[a] /\ n \in Names /\ n < a /\ n \in Int /\ a \in Int
  BY <1>1, TreeSteps
<1>4. n \in S[root]
  BY <1>1, <1>2, <1>3, Down
<1>5. a \notin S[n]
  <2>1. a \in S[n] => a = n
    BY <1>1, <1>3, NoCircle
  <2>2. QED
    BY <1>3, <2>1
<1>6. QED
  BY <1>1, <1>2, <1>3, <1>4, <1>5

\* The root is in no left subtree; a left child is in those its parent is in, and
\* in the parent's, a right child in those its parent is in.
LEMMA AboveRoot ==
    ASSUME NEW L, NEW R, NEW S, NEW root, Rooted(L, R, S, root)
    PROVE  Above(L, S, root) = {}
<1>1. SUFFICES ASSUME NEW a \in Above(L, S, root) PROVE FALSE
  OBVIOUS
<1>2. QED
  BY <1>1, AboveIsInside

LEMMA AboveChild ==
    ASSUME NEW L, NEW R, NEW S, NEW root, Rooted(L, R, S, root), NEW n \in Names
    PROVE  /\ L[n] # Null => Above(L, S, L[n]) = Above(L, S, n) \cup {n}
           /\ R[n] # Null => Above(L, S, R[n]) = Above(L, S, n)
<1>1. /\ IsTree(L, R, S) /\ root \in NodeOrNull
      /\ S[n] = {n} \cup S[L[n]] \cup S[R[n]] /\ n \in Int
      /\ L[n] # Null => L[n] \in Names /\ L[n] \in S[L[n]]
      /\ R[n] # Null => R[n] \in Names /\ R[n] \in S[R[n]]
  BY TreeSteps DEF Rooted
<1>2. ASSUME NEW c \in Names, c \in {L[n], R[n]}, NEW a \in Above(L, S, n)
      PROVE  a \in Above(L, S, c)
  <2>1. a \in Names /\ n \in S[L[a]] /\ L[a] \in NodeOrNull
    BY <1>1, <1>2, TreeSteps DEF Above
  <2>2. c \in S[n]
    BY <1>1, <1>2, NamesAreNumbers
  <2>3. c \in S[L[a]]
    BY <1>1, <2>1, <2>2, Down
  <2>4. QED
    BY <2>1, <2>3 DEF Above
<1>3. ASSUME NEW c \in Names, c \in {L[n], R[n]}, NEW a \in Above(L, S, c)
      PROVE  a \in Above(L, S, n) \/ (a = n /\ c = L[n])
  <2>1. /\ a \in Names /\ c \in S[L[a]] /\ a \in S[root] /\ c \in S[root] /\ L[a] # Null
    BY <1>3, AboveIsInside
  <2>2. n \in S[root]
    BY <1>3, OnlyParent
  <2>3. L[a] \in S[root] /\ L[a] \in Names
    <3>1. L[a] \in S[a] /\ L[a] \in Names
      BY <1>1, <2>1, TreeSteps
    <3>2. QED
      BY <1>1, <2>1, <3>1, Down
  <2>4. c = L[a] \/ n \in S[L[a]]
    BY <1>1, <1>3, <2>1, <2>2, <2>3, Parent
  <2>5. ASSUME c = L[a] PROVE a = n /\ c = L[n]
    BY <1>3, <2>1, <2>5, OnlyParent
  <2>6. QED
    BY <2>1, <2>4, <2>5 DEF Above
<1>4. ASSUME L[n] # Null PROVE n \in Above(L, S, L[n])
  BY <1>1, <1>4 DEF Above
<1>5. ASSUME R[n] # Null PROVE R[n] # L[n]
  <2>1. R[n] \in Names /\ R[n] \in {L[n], R[n]}
    BY <1>1, <1>5
  <2>2. QED
    BY <2>1, OnlyParent
<1>6. ASSUME L[n] # Null PROVE Above(L, S, L[n]) = Above(L, S, n) \cup {n}
  <2> PICK c : c = L[n]
    OBVIOUS
  <2>1. c \in Names /\ c \in {L[n], R[n]}
    BY <1>1, <1>6
  <2>2. QED
    BY <1>2, <1>3, <1>4, <1>6, <2>1
<1>7. ASSUME R[n] # Null PROVE Above(L, S, R[n]) = Above(L, S, n)
  <2> PICK c : c = R[n]
    OBVIOUS
  <2>1. c \in Names /\ c \in {L[n], R[n]} /\ c # L[n]
    BY <1>1, <1>5, <1>7
  <2>2. QED
    BY <1>2, <1>3, <2>1
<1>8. QED
  BY <1>6, <1>7

\* The next node after n, which has no right subtree, is the lowest that has n in
\* its left subtree.
LEMMA Successor ==
    ASSUME NEW L, NEW R, NEW S, NEW root, Rooted(L, R, S, root), NEW n \in S[root], R[n] = Null
    PROVE  /\ Above(L, S, n) = {} => \A m \in S[root] : m <= n
           /\ Above(L, S, n) # {} => \E a \in Above(L, S, n) : \A m \in S[L[a]] : m <= n
<1>1. IsTree(L, R, S) /\ root \in NodeOrNull /\ S[Null] = {} /\ n \in Names
  BY Down DEF Rooted, IsTree
<1>2. ASSUME NEW r \in NodeOrNull, NEW m \in S[r], n \in S[r], n < m
      PROVE  \E a \in S[r] : a \in Above(L, S, n)
  <2>1. PICK z \in S[r] : (n = z \/ n \in S[L[z]]) /\ (m = z \/ m \in S[R[z]])
    BY <1>1, <1>2, Between
  <2>2. n # z
    <3>1. n \in Int /\ m \in Int
      BY <1>1, <1>2, Down, NamesAreNumbers
    <3>2. QED
      BY <1>1, <1>2, <2>1, <3>1
  <2>3. z \in Names
    BY <1>1, <2>1, Down
  <2>4. QED
    BY <2>1, <2>2, <2>3 DEF Above
<1>3. ASSUME NEW r \in NodeOrNull, NEW m \in S[r] PROVE m \in Int /\ n \in Int /\ (m <= n \/ n < m)
  <2>1. m \in Int /\ n \in Int
    BY <1>1, <1>3, Down, NamesAreNumbers
  <2>2. QED
    BY <2>1
<1>4. ASSUME Above(L, S, n) # {}
      PROVE  \E a \in Above(L, S, n) : \A m \in S[L[a]] : m <= n
  <2>1. Above(L, S, n) \subseteq Nat
    <3>1. \A a \in Names : a \in Nat
      BY NamesAreNumbers
    <3>2. QED
      BY <3>1 DEF Above
  <2>2. PICK a \in Above(L, S, n) : \A b \in Above(L, S, n) : a <= b
    BY <1>4, <2>1, Smallest
  <2>3. n \in S[L[a]] /\ L[a] \in NodeOrNull /\ a \in Int
    BY <1>1, AboveIsInside, TreeSteps
  <2>4. ASSUME NEW m \in S[L[a]], n < m
        PROVE  FALSE
    <3>1. PICK b \in S[L[a]] : b \in Above(L, S, n)
      BY <1>2, <2>3, <2>4
    <3>2. b < a /\ b \in Int
      BY <1>1, <2>2, <3>1, AboveIsInside, TreeSteps
    <3>3. QED
      BY <2>2, <2>3, <3>1, <3>2
  <2>5. QED
    BY <1>3, <2>3, <2>4
<1>5. ASSUME Above(L, S, n) = {}, NEW m \in S[root]
      PROVE  m <= n
  BY <1>1, <1>2, <1>3, <1>5
<1>6. QED
  BY <1>4, <1>5

\* The last node of a left subtree is in the left subtrees that the parent is in,
\* and in the parent's, which is the lowest.
LEMMA AboveLast ==
    ASSUME NEW L, NEW R, NEW S, NEW root, Rooted(L, R, S, root), NEW n,
           NEW a \in Above(L, S, n), \A m \in S[L[a]] : m <= n
    PROVE  /\ Above(L, S, n) = Above(L, S, a) \cup {a}
           /\ \A b \in Above(L, S, n) : a <= b
<1>1. /\ IsTree(L, R, S) /\ root \in NodeOrNull
      /\ a \in Names /\ a \in S[root] /\ n \in S[L[a]] /\ n \in S[a] /\ n \in S[root]
      /\ n \in Int /\ a \in Int /\ n < a /\ L[a] \in NodeOrNull
  <2>1. IsTree(L, R, S) /\ root \in NodeOrNull
    BY DEF Rooted
  <2>2. /\ a \in Names /\ a \in S[root] /\ n \in S[L[a]] /\ n \in S[a] /\ n \in S[root]
        /\ n < a /\ n \in Names
    BY AboveIsInside
  <2>3. n \in Int /\ a \in Int /\ L[a] \in NodeOrNull
    BY <2>1, <2>2, TreeSteps
  <2>4. QED
    BY <2>1, <2>2, <2>3
<1>2. ASSUME NEW b \in Above(L, S, a) PROVE b \in Above(L, S, n) /\ a <= b
  <2>1. b \in Names /\ a \in S[L[b]] /\ a < b /\ b \in Int /\ L[b] \in NodeOrNull
    BY <1>1, <1>2, AboveIsInside, TreeSteps, NamesAreNumbers
  <2>2. n \in S[L[b]]
    BY <1>1, <2>1, Down
  <2>3. QED
    BY <1>1, <2>1, <2>2 DEF Above
<1>3. ASSUME NEW b \in Above(L, S, n), b # a PROVE b \in Above(L, S, a)
  <2>1. b \in Names /\ b \in S[root] /\ n \in S[L[b]] /\ n \in S[b] /\ n < b /\ b \in Int
    <3>1. /\ b \in Names /\ b \in S[root] /\ n \in S[L[b]] /\ n \in S[b] /\ n < b
      BY <1>3, AboveIsInside
    <3>2. QED
      BY <3>1, NamesAreNumbers
  <2>2. a \in S[b] \/ b \in S[a]
    BY <1>1, <2>1, Nested
  <2>3. /\ S[a] = {a} \cup S[L[a]] \cup S[R[a]] /\ S[b] = {b} \cup S[L[b]] \cup S[R[b]]
        /\ \A m \in S[R[a]] : a < m /\ m \in Int
        /\ \A m \in S[R[b]] : b < m /\ m \in Int
        /\ R[b] \in NodeOrNull /\ R[a] \in NodeOrNull
    BY <1>1, <2>1, TreeSteps
  <2>4. ASSUME b \in S[a] PROVE FALSE
    <3>1. b \notin S[L[a]]
      BY <1>1, <2>1
    <3>2. b \in S[R[a]]
      BY <1>3, <2>3, <2>4, <3>1
    <3>3. n \in S[R[a]]
      BY <1>1, <2>1, <2>3, <3>2, Down
    <3>4. QED
      BY <1>1, <2>3, <3>3
  <2>5. ASSUME a \in S[R[b]] PROVE FALSE
    <3>1. n \in S[R[b]]
      BY <1>1, <2>3, <2>5, Down
    <3>2. QED
      BY <1>1, <2>1, <2>3, <3>1
  <2>6. a \in S[L[b]]
    BY <1>3, <2>2, <2>3, <2>4, <2>5
  <2>7. QED
    BY <2>1, <2>6 DEF Above
<1>4. a \in Above(L, S, n) /\ a <= a
  BY <1>1
<1>5. QED
  BY <1>2, <1>3, <1>4

-----------------------------------------------------------------------------
(* Balance: B[n] is the number of black nodes on the paths down from n. *)

RedIn(C, n) == n # Null /\ C[n]

Even(L, R, C, B, n) == B[L[n]] = B[R[n]] /\ B[n] = B[L[n]] + (IF C[n] THEN 0 ELSE 1)
EvenTree(L, R, C, B) ==
    /\ B \in [NodeOrNull -> Nat] /\ B[Null] = 0
    /\ C \in [Names -> BOOLEAN]
    /\ \A n \in Names : Even(L, R, C, B, n)

\* Red nodes are left children, and not of red ones.
Lean(L, R, C, n) == ~RedIn(C, R[n]) /\ ~(C[n] /\ RedIn(C, L[n]))

\* x takes the place of its parent p.
Replaced(L, M, p, x) == \A n \in Names \ {p, x} : M[n] = IF L[n] = p THEN x ELSE L[n]

LEMMA Replaces ==
    ASSUME NEW L, NEW R, NEW S, NEW root, Rooted(L, R, S, root),
           NEW p \in Names, NEW x \in Names, x \in {L[p], R[p]},
           NEW L2 \in [Names -> NodeOrNull], NEW R2 \in [Names -> NodeOrNull],
           Replaced(L, L2, p, x), Replaced(R, R2, p, x),
           NEW S2 \in [NodeOrNull -> SUBSET Names],
           S2[x] = S[p], \A n \in NodeOrNull \ {p, x} : S2[n] = S[n],
           Joins(L2, R2, S2, p), Joins(L2, R2, S2, x),
           NEW top, top = IF root = p THEN x ELSE root
    PROVE  Rooted(L2, R2, S2, top) /\ S2[top] = S[root]
<1>1. /\ IsTree(L, R, S) /\ root \in NodeOrNull /\ S \in [NodeOrNull -> SUBSET Names]
      /\ p \in NodeOrNull /\ x \in NodeOrNull /\ Null \in NodeOrNull /\ p # Null /\ x # Null
      /\ S[Null] = {} /\ Names \subseteq NodeOrNull
  BY NamesAreNumbers DEF Rooted, IsTree, NodeOrNull
<1>2. p # x /\ p \in S[root] /\ x \in S[root] /\ x \in S[p] /\ x \in S[x]
  <2>1. p \in S[root] /\ x \in S[root]
    BY OnlyParent
  <2>2. p # x /\ x \in S[p] /\ x \in S[x]
    BY <1>1, TreeSteps
  <2>3. QED
    BY <2>1, <2>2
<1>3. root # x
  <2>1. p \in S[x] => p = x
    BY <1>1, <1>2, NoCircle
  <2>2. QED
    BY <1>2, <2>1
<1>4. S2[top] = S[root] /\ top \in NodeOrNull
  BY <1>1, <1>2, <1>3
<1>5. S2[Null] = {}
  BY <1>1
<1>10. ASSUME NEW n \in Names \ {p, x} PROVE Joins(L2, R2, S2, n)
  <2>1. Joins(L, R, S, n) /\ L[n] \in NodeOrNull /\ R[n] \in NodeOrNull
    BY <1>1 DEF IsTree
  <2>2. L[n] # x /\ R[n] # x
    BY <1>2, OnlyParent
  <2>3. S2[L2[n]] = S[L[n]] /\ S2[R2[n]] = S[R[n]] /\ S2[n] = S[n]
    BY <1>1, <2>1, <2>2 DEF Replaced
  <2>4. QED
    BY <2>1, <2>3 DEF Joins
<1>11. IsTree(L2, R2, S2)
  BY <1>5, <1>10 DEF IsTree
<1>12. ASSUME NEW n \in Names \ S2[top] PROVE L2[n] = Null /\ R2[n] = Null
  <2>1. n \notin {p, x} /\ L[n] = Null /\ R[n] = Null
    BY <1>2, <1>4, <1>12 DEF Rooted
  <2>2. QED
    BY <1>1, <2>1 DEF Replaced
<1>13. QED
  BY <1>4, <1>11, <1>12 DEF Rooted

\* Two red nodes in a row on the left turn right.
TurnsRight(L, R, S, root, C, B, p, x, y, L2, R2, C2, top) ==
    /\ Rooted(L, R, S, root)
    /\ EvenTree(L, R, C, B)
    /\ p \in Names
    /\ x \in Names
    /\ y \in Names
    /\ L[p] = x
    /\ L[x] = y
    /\ C[x]
    /\ C[y]
    /\ ~C[p]
    /\ ~RedIn(C, R[x])
    /\ ~RedIn(C, R[p])
    /\ \A n \in Names \ {x, p} : Lean(L, R, C, n)
    /\ L2 \in [Names -> NodeOrNull]
    /\ R2 \in [Names -> NodeOrNull]
    /\ Replaced(L, L2, p, x)
    /\ Replaced(R, R2, p, x)
    /\ L2[p] = R[x]
    /\ R2[p] = R[p]
    /\ L2[x] = y
    /\ R2[x] = p
    /\ C2 = [C EXCEPT ![y] = FALSE]
    /\ top = IF root = p THEN x ELSE root

LEMMA TurnRight ==
    ASSUME NEW L, NEW R, NEW S, NEW root, NEW C, NEW B, NEW p, NEW x, NEW y, NEW L2, NEW R2, NEW C2, NEW top,
           TurnsRight(L, R, S, root, C, B, p, x, y, L2, R2, C2, top)
    PROVE  \E S2, B2 : /\ Rooted(L2, R2, S2, top) /\ S2[top] = S[root]
                       /\ EvenTree(L2, R2, C2, B2)
                       /\ \A n \in Names : p \notin {L[n], R[n]} => Lean(L2, R2, C2, n)
<1> SUFFICES ASSUME Rooted(L, R, S, root),
                    EvenTree(L, R, C, B),
                    p \in Names,
                    x \in Names,
                    y \in Names,
                    L[p] = x,
                    L[x] = y,
                    C[x],
                    C[y],
                    ~C[p],
                    ~RedIn(C, R[x]),
                    ~RedIn(C, R[p]),
                    \A n \in Names \ {x, p} : Lean(L, R, C, n),
                    L2 \in [Names -> NodeOrNull],
                    R2 \in [Names -> NodeOrNull],
                    Replaced(L, L2, p, x),
                    Replaced(R, R2, p, x),
                    L2[p] = R[x],
                    R2[p] = R[p],
                    L2[x] = y,
                    R2[x] = p,
                    C2 = [C EXCEPT ![y] = FALSE],
                    top = IF root = p THEN x ELSE root
             PROVE  \E S2, B2 : /\ Rooted(L2, R2, S2, top) /\ S2[top] = S[root]
                                /\ EvenTree(L2, R2, C2, B2)
                                /\ \A n \in Names : p \notin {L[n], R[n]} => Lean(L2, R2, C2, n)
  BY DEF TurnsRight
<1>1. /\ IsTree(L, R, S) /\ C \in [Names -> BOOLEAN] /\ B \in [NodeOrNull -> Nat] /\ B[Null] = 0
      /\ p \in NodeOrNull /\ x \in NodeOrNull /\ y \in NodeOrNull /\ Names \subseteq NodeOrNull
      /\ Null \notin Names
  BY NamesAreNumbers DEF Rooted, EvenTree, NodeOrNull
<1>2. /\ S[p] = {p} \cup S[x] \cup S[R[p]] /\ p \in Int /\ R[p] \in NodeOrNull
      /\ \A m \in S[x] : m < p /\ m \in Int
      /\ \A m \in S[R[p]] : p < m /\ m \in Int
      /\ R[p] # Null => R[p] \in S[R[p]]
      /\ S[x] \subseteq Names /\ S[p] \subseteq Names /\ S[R[p]] \subseteq Names
  BY <1>1, TreeSteps
<1>3. /\ S[x] = {x} \cup S[y] \cup S[R[x]] /\ x \in Int /\ R[x] \in NodeOrNull /\ y \in S[y]
      /\ \A m \in S[y] : m < x /\ m \in Int
      /\ \A m \in S[R[x]] : x < m /\ m \in Int
      /\ R[x] # Null => R[x] \in S[R[x]]
      /\ S[R[x]] \subseteq Names
  BY <1>1, TreeSteps
<1>4. x < p /\ y < x /\ y < p /\ y \in Int
  BY <1>2, <1>3
<1>5. R[x] \notin {p, x, y} /\ R[p] \notin {p, x, y}
  <2>1. R[x] # Null => x < R[x] /\ R[x] < p
    BY <1>2, <1>3
  <2>2. R[p] # Null => p < R[p]
    BY <1>2
  <2>3. QED
    BY <1>1, <1>2, <1>3, <1>4, <2>1, <2>2
<1> DEFINE P == {p} \cup S[R[x]] \cup S[R[p]]
           S2 == [n \in NodeOrNull |-> IF n = p THEN P ELSE IF n = x THEN S[p] ELSE S[n]]
           B2 == [n \in NodeOrNull |-> IF n \in {x, y} THEN B[n] + 1 ELSE B[n]]
<1>6. Rooted(L2, R2, S2, top) /\ S2[top] = S[root]
  <2>1. P \in SUBSET Names /\ S[p] = {x} \cup S[y] \cup P
    BY <1>2, <1>3
  <2>2. S2 \in [NodeOrNull -> SUBSET Names]
    BY <1>1, <1>2, <2>1 DEF IsTree
  <2>3. S2[x] = S[p] /\ S2[p] = P /\ \A n \in NodeOrNull \ {p, x} : S2[n] = S[n]
    BY <1>1, <1>4
  <2> HIDE DEF S2
  <2>4. S2[R[x]] = S[R[x]] /\ S2[R[p]] = S[R[p]] /\ S2[y] = S[y]
    <3>1. R[x] \in NodeOrNull \ {p, x} /\ R[p] \in NodeOrNull \ {p, x}
      BY <1>2, <1>3, <1>5
    <3>2. y \in NodeOrNull \ {p, x}
      BY <1>1, <1>2, <1>3, <1>4
    <3>3. QED
      BY <2>3, <3>1, <3>2
  <2>5. Joins(L2, R2, S2, p)
    BY <1>2, <1>3, <2>3, <2>4 DEF Joins
  <2>6. \A m \in P : x < m
    BY <1>2, <1>3, <1>4
  <2>7. Joins(L2, R2, S2, x)
    <3> HIDE DEF P
    <3>1. S2[x] = {x} \cup S2[L2[x]] \cup S2[R2[x]]
      BY <2>1, <2>3, <2>4
    <3>2. QED
      BY <1>3, <2>3, <2>4, <2>6, <3>1 DEF Joins
  <2> HIDE DEF P
  <2>8. QED
    BY <2>2, <2>3, <2>5, <2>7, Replaces
<1>7. /\ Even(L, R, C, B, p) /\ Even(L, R, C, B, x) /\ Even(L, R, C, B, y)
  BY DEF EvenTree
<1>8. /\ B2 \in [NodeOrNull -> Nat] /\ B2[Null] = 0 /\ C2 \in [Names -> BOOLEAN]
      /\ B2[x] = B[x] + 1 /\ B2[y] = B[y] + 1
      /\ \A n \in NodeOrNull : n \notin {x, y} => B2[n] = B[n]
      /\ ~C2[y] /\ \A n \in Names : n # y => C2[n] = C[n]
  <2>1. C2 \in [Names -> BOOLEAN] /\ ~C2[y] /\ \A n \in Names : n # y => C2[n] = C[n]
    BY <1>1
  <2>2. B2 \in [NodeOrNull -> Nat]
    BY <1>1
  <2>3. /\ B2[Null] = 0 /\ B2[x] = B[x] + 1 /\ B2[y] = B[y] + 1
        /\ \A n \in NodeOrNull : n \notin {x, y} => B2[n] = B[n]
    BY <1>1 DEF NodeOrNull
  <2>4. QED
    BY <2>1, <2>2, <2>3
<1>9. L[y] \notin {x, y, p} /\ R[y] \notin {x, y, p} /\ L[y] \in NodeOrNull /\ R[y] \in NodeOrNull
  <2>1. L[y] # Null => L[y] < y /\ L[y] \in Int
    BY <1>1, TreeSteps
  <2>2. R[y] # Null => y < R[y] /\ R[y] \in S[y]
    BY <1>1, TreeSteps
  <2>3. R[y] # Null => R[y] < x /\ R[y] \in Int
    BY <1>3, <2>2
  <2>4. L[y] \in NodeOrNull /\ R[y] \in NodeOrNull
    BY <1>1, TreeSteps
  <2>5. QED
    BY <1>1, <1>4, <1>2, <1>3, <2>1, <2>2, <2>3, <2>4
<1>10. ASSUME NEW n \in Names \ {x, p}
       PROVE  /\ L[n] # x /\ R[n] # x /\ L[n] # y /\ R[n] # y
              /\ L[n] \in NodeOrNull /\ R[n] \in NodeOrNull
  BY <1>1, OnlyParent, TreeSteps
<1>11. EvenTree(L2, R2, C2, B2)
  <2> HIDE DEF B2
  <2>1. /\ B[x] = B[R[p]] /\ B[p] = B[x] + 1 /\ B[y] = B[R[x]] /\ B[x] = B[y] /\ B[L[y]] = B[R[y]]
        /\ B[y] = B[L[y]] /\ \A n \in NodeOrNull : B[n] \in Nat
    <3>1. \A n \in NodeOrNull : B[n] \in Nat
      BY <1>1
    <3>2. B[x] = B[R[p]] /\ B[p] = B[x] + 1
      BY <1>7 DEF Even
    <3>3. B[y] = B[R[x]] /\ B[x] = B[y] + 0
      BY <1>7 DEF Even
    <3>4. B[L[y]] = B[R[y]] /\ B[y] = B[L[y]] + 0
      BY <1>7 DEF Even
    <3>5. B[y] \in Nat /\ B[L[y]] \in Nat
      BY <1>1, <1>9, <3>1
    <3>6. QED
      BY <3>1, <3>2, <3>3, <3>4, <3>5
  <2>2. Even(L2, R2, C2, B2, p)
    <3>1. B2[R[x]] = B[R[x]] /\ B2[R[p]] = B[R[p]] /\ B2[p] = B[p] /\ C2[p] = C[p]
      BY <1>1, <1>2, <1>3, <1>4, <1>5, <1>8
    <3>2. QED
      BY <2>1, <3>1 DEF Even
  <2>3. Even(L2, R2, C2, B2, x)
    <3>1. B2[p] = B[p] /\ C2[x]
      BY <1>1, <1>4, <1>8
    <3>2. B2[y] = B[x] + 1 /\ B2[p] = B[x] + 1 /\ B2[x] = B[x] + 1
      BY <1>8, <2>1, <3>1
    <3>3. B[x] + 1 = B[x] + 1 + 0
      BY <1>1
    <3>4. QED
      BY <3>1, <3>2, <3>3 DEF Even
  <2>4. L2[y] = L[y] /\ R2[y] = R[y]
    BY <1>4, <1>9 DEF Replaced
  <2>5. Even(L2, R2, C2, B2, y)
    BY <1>8, <1>9, <2>1, <2>4 DEF Even
  <2>6. ASSUME NEW n \in Names \ {x, p, y} PROVE Even(L2, R2, C2, B2, n)
    <3> PICK l, r : l = L[n] /\ r = R[n]
      OBVIOUS
    <3>4. l \notin {x, y} /\ r \notin {x, y} /\ l \in NodeOrNull /\ r \in NodeOrNull
      BY <1>10
    <3>5. L2[n] = (IF l = p THEN x ELSE l) /\ R2[n] = (IF r = p THEN x ELSE r)
      BY DEF Replaced
    <3>6. B2[x] = B[p]
      BY <1>8, <2>1
    <3>7. B2[L2[n]] = B[l] /\ B2[R2[n]] = B[r]
      BY <1>8, <3>4, <3>5, <3>6
    <3>1. B2[L2[n]] = B[L[n]] /\ B2[R2[n]] = B[R[n]] /\ B2[n] = B[n] /\ C2[n] = C[n]
      BY <1>1, <1>8, <3>7
    <3>2. Even(L, R, C, B, n)
      BY DEF EvenTree
    <3>3. QED
      BY <3>1, <3>2 DEF Even
  <2>7. QED
    BY <1>8, <2>2, <2>3, <2>5, <2>6 DEF EvenTree
<1>12. ASSUME NEW n \in Names, p \notin {L[n], R[n]} PROVE Lean(L2, R2, C2, n)
  <2>1. CASE n = p
    BY <1>2, <1>4, <1>5, <1>8, <2>1 DEF Lean, RedIn, NodeOrNull
  <2>2. CASE n = x
    BY <1>4, <1>8, <2>2 DEF Lean, RedIn
  <2>3. CASE n \notin {p, x}
    <3>1. L2[n] = L[n] /\ R2[n] = R[n] /\ Lean(L, R, C, n) /\ L[n] \in NodeOrNull /\ R[n] \in NodeOrNull
      BY <1>10, <1>12, <2>3 DEF Replaced
    <3>2. \A m \in Names : C2[m] => C[m]
      BY <1>8
    <3>3. QED
      BY <1>1, <3>1, <3>2 DEF Lean, RedIn, NodeOrNull
  <2>4. QED
    BY <2>1, <2>2, <2>3
<1>13. QED
  <2> HIDE DEF S2, B2
  <2> QED
    BY <1>6, <1>11, <1>12

\* A red node on the right with a black sibling turns left.
TurnsLeft(L, R, S, root, C, B, p, x, L2, R2, C2, top) ==
    /\ Rooted(L, R, S, root)
    /\ EvenTree(L, R, C, B)
    /\ p \in Names
    /\ x \in Names
    /\ R[p] = x
    /\ C[x]
    /\ ~RedIn(C, L[p])
    /\ ~RedIn(C, L[x])
    /\ ~RedIn(C, R[x])
    /\ \A n \in Names \ {x, p} : Lean(L, R, C, n)
    /\ L2 \in [Names -> NodeOrNull]
    /\ R2 \in [Names -> NodeOrNull]
    /\ Replaced(L, L2, p, x)
    /\ Replaced(R, R2, p, x)
    /\ L2[p] = L[p]
    /\ R2[p] = L[x]
    /\ L2[x] = p
    /\ R2[x] = R[x]
    /\ C2 = [C EXCEPT ![x] = C[p], ![p] = TRUE]
    /\ top = IF root = p THEN x ELSE root

LEMMA TurnLeft ==
    ASSUME NEW L, NEW R, NEW S, NEW root, NEW C, NEW B, NEW p, NEW x, NEW L2, NEW R2, NEW C2, NEW top,
           TurnsLeft(L, R, S, root, C, B, p, x, L2, R2, C2, top)
    PROVE  \E S2, B2 : /\ Rooted(L2, R2, S2, top) /\ S2[top] = S[root]
                       /\ EvenTree(L2, R2, C2, B2)
                       /\ ~RedIn(C2, R2[x])
                       /\ \A n \in Names \ {x} : p \notin {L[n], R[n]} => Lean(L2, R2, C2, n)
<1> SUFFICES ASSUME Rooted(L, R, S, root),
                    EvenTree(L, R, C, B),
                    p \in Names,
                    x \in Names,
                    R[p] = x,
                    C[x],
                    ~RedIn(C, L[p]),
                    ~RedIn(C, L[x]),
                    ~RedIn(C, R[x]),
                    \A n \in Names \ {x, p} : Lean(L, R, C, n),
                    L2 \in [Names -> NodeOrNull],
                    R2 \in [Names -> NodeOrNull],
                    Replaced(L, L2, p, x),
                    Replaced(R, R2, p, x),
                    L2[p] = L[p],
                    R2[p] = L[x],
                    L2[x] = p,
                    R2[x] = R[x],
                    C2 = [C EXCEPT ![x] = C[p], ![p] = TRUE],
                    top = IF root = p THEN x ELSE root
             PROVE  \E S2, B2 : /\ Rooted(L2, R2, S2, top) /\ S2[top] = S[root]
                                /\ EvenTree(L2, R2, C2, B2)
                                /\ ~RedIn(C2, R2[x])
                                /\ \A n \in Names \ {x} : p \notin {L[n], R[n]} => Lean(L2, R2, C2, n)
  BY DEF TurnsLeft
<1>1. /\ IsTree(L, R, S) /\ C \in [Names -> BOOLEAN] /\ B \in [NodeOrNull -> Nat] /\ B[Null] = 0
      /\ p \in NodeOrNull /\ x \in NodeOrNull /\ Names \subseteq NodeOrNull
      /\ Null \notin Names
  BY NamesAreNumbers DEF Rooted, EvenTree, NodeOrNull
<1>2. /\ S[p] = {p} \cup S[L[p]] \cup S[x] /\ p \in Int /\ L[p] \in NodeOrNull
      /\ \A m \in S[x] : p < m /\ m \in Int
      /\ \A m \in S[L[p]] : m < p /\ m \in Int
      /\ L[p] # Null => L[p] \in S[L[p]]
      /\ S[x] \subseteq Names /\ S[p] \subseteq Names /\ S[L[p]] \subseteq Names
  BY <1>1, TreeSteps
<1>3. /\ S[x] = {x} \cup S[L[x]] \cup S[R[x]] /\ x \in Int /\ R[x] \in NodeOrNull /\ L[x] \in NodeOrNull
      /\ \A m \in S[L[x]] : m < x /\ m \in Int
      /\ \A m \in S[R[x]] : x < m /\ m \in Int
      /\ R[x] # Null => R[x] \in S[R[x]]
      /\ L[x] # Null => L[x] \in S[L[x]]
      /\ S[R[x]] \subseteq Names /\ S[L[x]] \subseteq Names
  BY <1>1, TreeSteps
<1>4. p < x
  BY <1>2, <1>3
<1>5. R[x] \notin {p, x} /\ L[p] \notin {p, x} /\ L[x] \notin {p, x}
  <2>1. R[x] # Null => x < R[x] /\ R[x] \in Int
    BY <1>3
  <2>2. L[p] # Null => L[p] < p /\ L[p] \in Int
    BY <1>2
  <2>3. L[x] # Null => p < L[x] /\ L[x] < x
    BY <1>2, <1>3
  <2>4. QED
    BY <1>1, <1>2, <1>3, <1>4, <2>1, <2>2, <2>3
<1> DEFINE P == {p} \cup S[L[p]] \cup S[L[x]]
           S2 == [n \in NodeOrNull |-> IF n = p THEN P ELSE IF n = x THEN S[p] ELSE S[n]]
           B2 == [n \in NodeOrNull |-> IF n = x THEN B[p] ELSE IF n = p THEN B[x] ELSE B[n]]
<1>6. Rooted(L2, R2, S2, top) /\ S2[top] = S[root]
  <2>1. P \in SUBSET Names /\ S[p] = {x} \cup P \cup S[R[x]]
    BY <1>2, <1>3
  <2>2. S2 \in [NodeOrNull -> SUBSET Names]
    BY <1>1, <1>2, <2>1 DEF IsTree
  <2>3. S2[x] = S[p] /\ S2[p] = P /\ \A n \in NodeOrNull \ {p, x} : S2[n] = S[n]
    BY <1>1, <1>2, <1>3, <1>4
  <2> HIDE DEF S2
  <2>4. S2[R[x]] = S[R[x]] /\ S2[L[p]] = S[L[p]] /\ S2[L[x]] = S[L[x]]
    <3>1. R[x] \in NodeOrNull \ {p, x} /\ L[p] \in NodeOrNull \ {p, x} /\ L[x] \in NodeOrNull \ {p, x}
      BY <1>2, <1>3, <1>5
    <3>2. QED
      BY <2>3, <3>1
  <2>5. Joins(L2, R2, S2, p)
    BY <1>2, <1>3, <2>3, <2>4 DEF Joins
  <2>6. \A m \in P : m < x
    BY <1>2, <1>3, <1>4
  <2>7. Joins(L2, R2, S2, x)
    <3> HIDE DEF P
    <3>1. S2[x] = {x} \cup S2[L2[x]] \cup S2[R2[x]]
      BY <2>1, <2>3, <2>4
    <3>2. QED
      BY <1>3, <2>3, <2>4, <2>6, <3>1 DEF Joins
  <2> HIDE DEF P
  <2>8. QED
    BY <2>2, <2>3, <2>5, <2>7, Replaces
<1>7. Even(L, R, C, B, p) /\ Even(L, R, C, B, x)
  BY DEF EvenTree
<1>8. /\ B2 \in [NodeOrNull -> Nat] /\ B2[Null] = 0 /\ C2 \in [Names -> BOOLEAN]
      /\ B2[x] = B[p] /\ B2[p] = B[x]
      /\ \A n \in NodeOrNull : n \notin {x, p} => B2[n] = B[n]
      /\ C2[p] /\ C2[x] = C[p] /\ \A n \in Names : n \notin {x, p} => C2[n] = C[n]
  <2>1. C2 \in [Names -> BOOLEAN] /\ C2[p] /\ C2[x] = C[p] /\ \A n \in Names : n \notin {x, p} => C2[n] = C[n]
    BY <1>1, <1>2, <1>3, <1>4
  <2>2. B2 \in [NodeOrNull -> Nat]
    BY <1>1
  <2>3. /\ B2[Null] = 0 /\ B2[x] = B[p] /\ B2[p] = B[x]
        /\ \A n \in NodeOrNull : n \notin {x, p} => B2[n] = B[n]
    BY <1>1, <1>2, <1>3, <1>4 DEF NodeOrNull
  <2>4. QED
    BY <2>1, <2>2, <2>3
<1>9. ASSUME NEW n \in Names \ {x, p}
      PROVE  /\ L[n] # x /\ R[n] # x
             /\ L[n] \in NodeOrNull /\ R[n] \in NodeOrNull
  BY <1>1, OnlyParent, TreeSteps
<1>10. EvenTree(L2, R2, C2, B2)
  <2> HIDE DEF B2
  <2>1. /\ B[L[p]] = B[x] /\ B[p] = B[x] + (IF C[p] THEN 0 ELSE 1) /\ B[L[x]] = B[x] /\ B[R[x]] = B[x]
        /\ \A n \in NodeOrNull : B[n] \in Nat
    <3>1. \A n \in NodeOrNull : B[n] \in Nat
      BY <1>1
    <3>2. B[x] = B[L[p]] /\ B[p] = B[L[p]] + (IF C[p] THEN 0 ELSE 1)
      BY <1>7 DEF Even
    <3>3. B[L[x]] = B[R[x]] /\ B[x] = B[L[x]] + 0
      BY <1>7 DEF Even
    <3>4. B[L[x]] \in Nat
      BY <1>1, <1>3, <3>1
    <3>5. QED
      BY <3>1, <3>2, <3>3, <3>4
  <2>2. Even(L2, R2, C2, B2, p)
    <3>1. B2[L2[p]] = B[x] /\ B2[R2[p]] = B[x] /\ B2[p] = B[x] /\ C2[p]
      BY <1>1, <1>2, <1>3, <1>5, <1>8, <2>1
    <3>2. B[x] = B[x] + 0
      BY <1>1
    <3>3. QED
      BY <3>1, <3>2 DEF Even
  <2>3. Even(L2, R2, C2, B2, x)
    <3>1. B2[L2[x]] = B[x] /\ B2[x] = B[p] /\ C2[x] = C[p]
      BY <1>8
    <3>2. B2[R2[x]] = B[x]
      BY <1>1, <1>3, <1>5, <1>8, <2>1
    <3>3. QED
      BY <2>1, <3>1, <3>2 DEF Even
  <2>4. ASSUME NEW n \in Names \ {x, p} PROVE Even(L2, R2, C2, B2, n)
    <3> PICK l, r : l = L[n] /\ r = R[n]
      OBVIOUS
    <3>1. l # x /\ r # x /\ l \in NodeOrNull /\ r \in NodeOrNull
      BY <1>9
    <3>2. L2[n] = (IF l = p THEN x ELSE l) /\ R2[n] = (IF r = p THEN x ELSE r)
      BY DEF Replaced
    <3>3. B2[L2[n]] = B[l] /\ B2[R2[n]] = B[r]
      BY <1>8, <3>1, <3>2
    <3>4. B2[L2[n]] = B[L[n]] /\ B2[R2[n]] = B[R[n]] /\ B2[n] = B[n] /\ C2[n] = C[n]
      BY <1>1, <1>8, <3>3
    <3>5. Even(L, R, C, B, n)
      BY DEF EvenTree
    <3>6. QED
      BY <3>4, <3>5 DEF Even
  <2>5. QED
    BY <1>8, <2>2, <2>3, <2>4 DEF EvenTree
<1>11. ASSUME NEW n \in Names, n # x, p \notin {L[n], R[n]} PROVE Lean(L2, R2, C2, n)
  <2>1. CASE n = p
    <3>1. ~RedIn(C2, L[x]) /\ ~RedIn(C2, L[p])
      BY <1>2, <1>3, <1>5, <1>8 DEF RedIn, NodeOrNull
    <3>2. QED
      BY <2>1, <3>1 DEF Lean
  <2>2. CASE n # p
    <3>1. L2[n] = L[n] /\ R2[n] = R[n] /\ Lean(L, R, C, n) /\ L[n] \in NodeOrNull /\ R[n] \in NodeOrNull
          /\ L[n] \notin {x, p} /\ R[n] \notin {x, p} /\ C2[n] = C[n]
      BY <1>8, <1>9, <1>11, <2>2 DEF Replaced
    <3>2. QED
      BY <1>1, <1>8, <3>1 DEF Lean, RedIn, NodeOrNull
  <2>3. QED
    BY <2>1, <2>2
<1>12. ~RedIn(C2, R2[x])
  BY <1>3, <1>5, <1>8 DEF RedIn, NodeOrNull
<1>13. QED
  <2> HIDE DEF S2, B2
  <2> QED
    BY <1>6, <1>10, <1>11, <1>12

\* Two red children get black, their parent red.
Splits(L, R, S, root, C, B, p, x, s, C2) ==
    /\ Rooted(L, R, S, root)
    /\ EvenTree(L, R, C, B)
    /\ p \in Names
    /\ x \in Names
    /\ s \in Names
    /\ R[p] = x
    /\ L[p] = s
    /\ C[x]
    /\ C[s]
    /\ ~C[p]
    /\ ~RedIn(C, R[x])
    /\ \A n \in Names \ {x, p} : Lean(L, R, C, n)
    /\ C2 = [C EXCEPT ![s] = FALSE, ![x] = FALSE, ![p] = TRUE]

LEMMA Split ==
    ASSUME NEW L, NEW R, NEW S, NEW root, NEW C, NEW B, NEW p, NEW x, NEW s, NEW C2,
           Splits(L, R, S, root, C, B, p, x, s, C2)
    PROVE  \E B2 : /\ EvenTree(L, R, C2, B2)
                   /\ ~RedIn(C2, L[p]) /\ ~RedIn(C2, R[p])
                   /\ \A n \in Names \ {p} : p \notin {L[n], R[n]} => Lean(L, R, C2, n)
<1> SUFFICES ASSUME Rooted(L, R, S, root),
                    EvenTree(L, R, C, B),
                    p \in Names,
                    x \in Names,
                    s \in Names,
                    R[p] = x,
                    L[p] = s,
                    C[x],
                    C[s],
                    ~C[p],
                    ~RedIn(C, R[x]),
                    \A n \in Names \ {x, p} : Lean(L, R, C, n),
                    C2 = [C EXCEPT ![s] = FALSE, ![x] = FALSE, ![p] = TRUE]
             PROVE  \E B2 : /\ EvenTree(L, R, C2, B2)
                            /\ ~RedIn(C2, L[p]) /\ ~RedIn(C2, R[p])
                            /\ \A n \in Names \ {p} : p \notin {L[n], R[n]} => Lean(L, R, C2, n)
  BY DEF Splits
<1>1. /\ IsTree(L, R, S) /\ C \in [Names -> BOOLEAN] /\ B \in [NodeOrNull -> Nat] /\ B[Null] = 0
      /\ p \in NodeOrNull /\ x \in NodeOrNull /\ s \in NodeOrNull /\ Names \subseteq NodeOrNull
      /\ Null \notin Names
  BY NamesAreNumbers DEF Rooted, EvenTree, NodeOrNull
<1>2. p < x /\ s < p /\ p \in Int /\ x \in Int /\ s \in Int
  <2>1. /\ p \in Int /\ x \in S[R[p]] /\ s \in S[L[p]]
        /\ \A m \in S[L[p]] : m < p /\ m \in Int
        /\ \A m \in S[R[p]] : p < m /\ m \in Int
    BY <1>1, TreeSteps
  <2>2. QED
    BY <2>1
<1>3. p # x /\ p # s /\ s # x
  BY <1>2
<1> DEFINE B2 == [n \in NodeOrNull |-> IF n \in {x, s} THEN B[n] + 1 ELSE B[n]]
<1>4. /\ B2 \in [NodeOrNull -> Nat] /\ B2[Null] = 0 /\ C2 \in [Names -> BOOLEAN]
      /\ B2[x] = B[x] + 1 /\ B2[s] = B[s] + 1
      /\ \A n \in NodeOrNull : n \notin {x, s} => B2[n] = B[n]
      /\ C2[p] /\ ~C2[x] /\ ~C2[s] /\ \A n \in Names : n \notin {x, s, p} => C2[n] = C[n]
  <2>1. C2 \in [Names -> BOOLEAN] /\ C2[p] /\ ~C2[x] /\ ~C2[s]
        /\ \A n \in Names : n \notin {x, s, p} => C2[n] = C[n]
    BY <1>1, <1>3
  <2>2. B2 \in [NodeOrNull -> Nat]
    BY <1>1
  <2>3. /\ B2[Null] = 0 /\ B2[x] = B[x] + 1 /\ B2[s] = B[s] + 1
        /\ \A n \in NodeOrNull : n \notin {x, s} => B2[n] = B[n]
    BY <1>1 DEF NodeOrNull
  <2>4. QED
    BY <2>1, <2>2, <2>3
<1>5. ASSUME NEW n \in Names, n # p
      PROVE  /\ L[n] \notin {x, s} /\ R[n] \notin {x, s}
             /\ L[n] \in NodeOrNull /\ R[n] \in NodeOrNull
  BY <1>1, <1>5, OnlyParent, TreeSteps
<1>6. EvenTree(L, R, C2, B2)
  <2> HIDE DEF B2
  <2>1. Even(L, R, C2, B2, p)
    <3>1. B[s] = B[x] /\ B[p] = B[s] + 1 /\ B[s] \in Nat
      BY <1>1 DEF EvenTree, Even
    <3>2. B2[s] = B[s] + 1 /\ B2[x] = B[s] + 1 /\ B2[p] = B[s] + 1 /\ C2[p]
      BY <1>1, <1>3, <1>4, <3>1
    <3>3. B[s] + 1 = B[s] + 1 + 0
      BY <3>1
    <3>4. QED
      BY <3>2, <3>3 DEF Even
  <2>2. ASSUME NEW n \in Names \ {p} PROVE Even(L, R, C2, B2, n)
    <3>1. B2[L[n]] = B[L[n]] /\ B2[R[n]] = B[R[n]] /\ B[L[n]] \in Nat
      BY <1>1, <1>4, <1>5
    <3>2. Even(L, R, C, B, n)
      BY DEF EvenTree
    <3>3. CASE n \in {x, s}
      <4>1. B[n] = B[L[n]] + 0 /\ B2[n] = B[n] + 1 /\ ~C2[n]
        BY <1>4, <3>2, <3>3 DEF Even
      <4>2. QED
        BY <3>1, <3>2, <4>1 DEF Even
    <3>4. CASE n \notin {x, s}
      <4>1. B2[n] = B[n] /\ C2[n] = C[n]
        BY <1>1, <1>4, <3>4
      <4>2. QED
        BY <3>1, <3>2, <4>1 DEF Even
    <3>5. QED
      BY <3>3, <3>4
  <2>3. QED
    BY <1>4, <2>1, <2>2 DEF EvenTree
<1>7. ASSUME NEW n \in Names, n # p, p \notin {L[n], R[n]} PROVE Lean(L, R, C2, n)
  <2>1. L[n] \in NodeOrNull \ {p, x, s} /\ R[n] \in NodeOrNull \ {p, x, s}
    BY <1>5, <1>7
  <2>2. (RedIn(C2, L[n]) <=> RedIn(C, L[n])) /\ (RedIn(C2, R[n]) <=> RedIn(C, R[n]))
    BY <1>4, <2>1 DEF RedIn, NodeOrNull
  <2>3. CASE n = x
    BY <1>4, <2>2, <2>3 DEF Lean
  <2>4. CASE n # x
    <3>1. Lean(L, R, C, n) /\ (C2[n] => C[n])
      BY <1>4, <1>7, <2>4
    <3>2. QED
      BY <2>2, <3>1 DEF Lean
  <2>5. QED
    BY <2>3, <2>4
<1>8. ~RedIn(C2, L[p]) /\ ~RedIn(C2, R[p])
  BY <1>4 DEF RedIn
<1>9. QED
  <2> HIDE DEF B2
  <2> QED
    BY <1>6, <1>7, <1>8

\* The way down for the name m leads over the nodes P and ends below q.
WayDown(L, R, S, root, P, q, m) ==
    /\ P \subseteq S[root] /\ root \in P /\ q \in P /\ m \in Names /\ m \notin S[root]
    /\ \A n \in P : /\ m < n => R[n] \notin P /\ IF n = q THEN L[n] = Null ELSE L[n] \in P
                    /\ ~(m < n) => L[n] \notin P /\ IF n = q THEN R[n] = Null ELSE R[n] \in P
    /\ \A n \in Names \ P : L[n] \notin P /\ R[n] \notin P

\* A node m without links is added there.
Hung(L, R, q, m, L2, R2) ==
    /\ L2 = IF m < q THEN [L EXCEPT ![q] = m] ELSE L
    /\ R2 = IF m < q THEN R ELSE [R EXCEPT ![q] = m]

LEMMA Added ==
    ASSUME NEW L, NEW R, NEW S, NEW root, Rooted(L, R, S, root),
           NEW P, NEW q, NEW m, WayDown(L, R, S, root, P, q, m),
           NEW L2, NEW R2, Hung(L, R, q, m, L2, R2)
    PROVE  \E S2 : Rooted(L2, R2, S2, root) /\ S2[root] = S[root] \cup {m} /\ S2[m] = {m}
<1>0. P \subseteq S[root] /\ root \in P /\ q \in P /\ m \in Names /\ m \notin S[root]
  BY DEF WayDown
<1>1. /\ IsTree(L, R, S) /\ root \in NodeOrNull /\ S \in [NodeOrNull -> SUBSET Names]
      /\ L \in [Names -> NodeOrNull] /\ R \in [Names -> NodeOrNull]
      /\ S[Null] = {} /\ Names \subseteq NodeOrNull /\ Null \in NodeOrNull /\ Null \notin Names
      /\ L[m] = Null /\ R[m] = Null /\ m \notin P /\ m \in Int
      /\ P \subseteq Names
  <2>1. IsTree(L, R, S) /\ root \in NodeOrNull /\ L[m] = Null /\ R[m] = Null
    BY <1>0 DEF Rooted
  <2>2. P \subseteq Names
    BY <1>0, <2>1, Down
  <2>3. QED
    BY <1>0, <2>1, <2>2, NamesAreNumbers DEF IsTree, NodeOrNull
<1>2. S[m] = {m}
  BY <1>0, <1>1 DEF IsTree, Joins
<1> DEFINE S2 == [n \in NodeOrNull |-> IF n \in P THEN S[n] \cup {m} ELSE S[n]]
<1>3. /\ S2 \in [NodeOrNull -> SUBSET Names] /\ S2[Null] = {}
      /\ \A n \in P : S2[n] = S[n] \cup {m}
      /\ \A n \in NodeOrNull : n \notin P => S2[n] = S[n]
  BY <1>0, <1>1
<1> HIDE DEF S2
<1>4. S2[root] = S[root] \cup {m} /\ S2[m] = {m}
  BY <1>0, <1>1, <1>2, <1>3
<1>5. /\ L2 \in [Names -> NodeOrNull] /\ R2 \in [Names -> NodeOrNull]
      /\ \A n \in Names : L2[n] = IF n = q /\ m < q THEN m ELSE L[n]
      /\ \A n \in Names : R2[n] = IF n = q /\ ~(m < q) THEN m ELSE R[n]
  BY <1>0, <1>1 DEF Hung
<1>6. ASSUME NEW n \in Names PROVE Joins(L2, R2, S2, n)
  <2>1. /\ Joins(L, R, S, n) /\ L[n] \in NodeOrNull /\ R[n] \in NodeOrNull /\ n \in Int
    BY <1>1, NamesAreNumbers DEF IsTree
  <2>2. CASE n \notin P
    <3>1. L2[n] = L[n] /\ R2[n] = R[n] /\ L[n] \notin P /\ R[n] \notin P
      BY <1>5, <2>2 DEF WayDown
    <3>2. S2[L2[n]] = S[L[n]] /\ S2[R2[n]] = S[R[n]] /\ S2[n] = S[n]
      <4>1. n \in NodeOrNull
        BY <1>1
      <4> PICK l, r : l = L[n] /\ r = R[n]
        OBVIOUS
      <4>2. l \in NodeOrNull /\ l \notin P /\ r \in NodeOrNull /\ r \notin P
        BY <2>1, <3>1
      <4>3. S2[n] = S[n]
        BY <1>3, <2>2, <4>1
      <4>4. S2[l] = S[l]
        BY <1>3, <4>2
      <4>5. S2[r] = S[r]
        BY <1>3, <4>2
      <4>6. QED
        BY <3>1, <4>3, <4>4, <4>5
    <3>3. QED
      BY <2>1, <3>2 DEF Joins
  <2>3. CASE n \in P /\ m < n
    <3>0. R[n] \notin P /\ R2[n] = R[n]
          /\ IF n = q THEN L[n] = Null /\ L2[n] = m ELSE L[n] \in P /\ L2[n] = L[n]
      BY <1>1, <1>5, <2>3 DEF WayDown
    <3>1. S2[L2[n]] = S[L[n]] \cup {m}
      BY <1>1, <1>3, <1>4, <3>0
    <3>2. S2[R2[n]] = S[R[n]]
      BY <1>3, <2>1, <3>0
    <3>3. S2[n] = S[n] \cup {m}
      BY <1>3, <2>3
    <3>4. QED
      BY <2>1, <2>3, <3>1, <3>2, <3>3 DEF Joins
  <2>4. CASE n \in P /\ ~(m < n)
    <3>0. L[n] \notin P /\ L2[n] = L[n]
          /\ IF n = q THEN R[n] = Null /\ R2[n] = m ELSE R[n] \in P /\ R2[n] = R[n]
      BY <1>1, <1>5, <2>4 DEF WayDown
    <3>1. S2[R2[n]] = S[R[n]] \cup {m}
      BY <1>1, <1>3, <1>4, <3>0
    <3>2. S2[L2[n]] = S[L[n]]
      BY <1>3, <2>1, <3>0
    <3>3. S2[n] = S[n] \cup {m}
      BY <1>3, <2>4
    <3>4. n < m
      BY <1>1, <2>1, <2>4
    <3>5. QED
      BY <2>1, <3>1, <3>2, <3>3, <3>4 DEF Joins
  <2>5. QED
    BY <2>2, <2>3, <2>4
<1>7. IsTree(L2, R2, S2)
  BY <1>3, <1>5, <1>6 DEF IsTree
<1>8. ASSUME NEW n \in Names \ S2[root] PROVE L2[n] = Null /\ R2[n] = Null
  <2>1. n \notin S[root] /\ n # q
    BY <1>0, <1>4, <1>8
  <2>2. QED
    BY <1>5, <2>1 DEF Rooted
<1>9. QED
  BY <1>1, <1>4, <1>7, <1>8 DEF Rooted

-----------------------------------------------------------------------------
(* Insertion.  R is the function right, without the threads of a traversal. *)

Resting(R, S, B, N) ==
    /\ Rooted(left, R, S, label_list) /\ S[label_list] = N
    /\ EvenTree(left, R, red, B)
    /\ \A n \in Names : Lean(left, R, red, n)
    /\ ~RedIn(red, label_list)

\* The path from the root on the way down, which is at most twice as long as there
\* are black nodes.
Descending(B) ==
    /\ path[1].label = label_list
    /\ \A j, k \in 1..Len(path) : j < k => path[j].label # path[k].label
    /\ \A k \in 1..Len(path) - 1 :
          /\ path[k].label \in nodes \ {name}
          /\ path[k].less <=> name < path[k].label
          /\ path[k + 1].label = IF path[k].less THEN left[path[k].label] ELSE right[path[k].label]
    /\ \A k \in 1..Len(path) :
          k - 1 + (IF RedIn(red, path[k].label) THEN 1 ELSE 0)
             <= 2 * (B[label_list] - B[path[k].label])
    /\ red[name]

LEMMA RestingStart ==
    ASSUME Typed, NEW S, NEW B, Resting(right, S, B, nodes), StartDefine
    PROVE  \E S2, B2 : /\ Resting(right, S2, B2, nodes \ {name})'
                       /\ Descending(B2)'
<1>1. TypeOK /\ Linked /\ Control
  BY DEF Typed
<1>2. PICK n \in usedNames \ nodes, k \in Kinds :
         /\ name' = n
         /\ nodes' = nodes \cup {n}
         /\ red' = [red EXCEPT ![n] = TRUE]
         /\ left' = [left EXCEPT ![n] = Null]
         /\ right' = [right EXCEPT ![n] = Null]
  BY DEF StartDefine
<1>3. n \in Names
  <2>1. use.labels \subseteq Labels /\ use.macros \subseteq MacroLabels
    BY <1>1, UsesAssumption DEF TypeOK
  <2>2. QED
    BY <1>2, <2>1 DEF usedNames, Names, Macros
<1>4. label_list' = label_list /\ path' = <<[label |-> label_list, less |-> FALSE]>>
  BY DEF StartDefine
<1>5. path'[1].label = label_list /\ Len(path') = 1
  <2> DEFINE e == [label |-> label_list, less |-> FALSE]
  <2>1. e.label = label_list /\ path' = <<e>>
    BY <1>4
  <2> HIDE DEF e
  <2>2. QED
    BY <2>1
<1>6. left' = left /\ right' = right
  <2>1. left[n] = Null /\ right[n] = Null
    BY <1>1, <1>2, <1>3 DEF Linked
  <2>2. left \in [Names -> NodeOrNull] /\ right \in [Names -> NodeOrNull]
    BY <1>1 DEF TypeOK
  <2>3. QED
    BY <1>2, <1>3, <2>1, <2>2
<1> DEFINE B2 == [B EXCEPT ![n] = 0]
<1>7. /\ B \in [NodeOrNull -> Nat] /\ B[Null] = 0 /\ red \in [Names -> BOOLEAN]
      /\ n \in NodeOrNull /\ Null \in NodeOrNull /\ Null # n
      /\ label_list \in NodeOrNull /\ label_list # n
  BY <1>1, <1>2, <1>3, NamesAreNumbers DEF Resting, EvenTree, NodeOrNull, TypeOK, Linked, Known
<1>8. /\ B2 \in [NodeOrNull -> Nat] /\ B2[Null] = 0 /\ B2[n] = 0
      /\ \A m \in NodeOrNull : m # n => B2[m] = B[m]
      /\ red' \in [Names -> BOOLEAN] /\ red'[n]
      /\ \A m \in Names : m # n => red'[m] = red[m]
  BY <1>2, <1>3, <1>7
<1> HIDE DEF B2
<1>9. ASSUME NEW m \in Names
      PROVE  left[m] \in NodeOrNull /\ right[m] \in NodeOrNull /\ left[m] # n /\ right[m] # n
  <2>1. left[m] \in Known /\ right[m] \in Known /\ Known \subseteq NodeOrNull
    BY <1>1 DEF Linked, Known, NodeOrNull, TypeOK
  <2>2. n \notin Known
    BY <1>2, <1>7 DEF Known
  <2>3. QED
    BY <2>1, <2>2
<1>10. Rooted(left, right, S, label_list) /\ S[label_list] = nodes' \ {name'}
  BY <1>2 DEF Resting
<1>11. EvenTree(left, right, red', B2)
  <2>1. ASSUME NEW m \in Names, m # n PROVE Even(left, right, red', B2, m)
    <3>1. Even(left, right, red, B, m)
      BY DEF Resting, EvenTree
    <3>2. B2[left[m]] = B[left[m]] /\ B2[right[m]] = B[right[m]] /\ B2[m] = B[m] /\ red'[m] = red[m]
      BY <1>7, <1>8, <1>9, <2>1 DEF NodeOrNull
    <3>3. QED
      BY <3>1, <3>2 DEF Even
  <2>2. Even(left, right, red', B2, n)
    <3>1. left[n] = Null /\ right[n] = Null
      BY <1>1, <1>2, <1>3 DEF Linked
    <3>2. QED
      BY <1>8, <3>1 DEF Even
  <2>3. QED
    BY <1>8, <2>1, <2>2 DEF EvenTree
<1>12. ASSUME NEW m \in Names PROVE Lean(left, right, red', m)
  <2>1. RedIn(red', left[m]) <=> RedIn(red, left[m])
    BY <1>8, <1>9 DEF RedIn, NodeOrNull
  <2>2. RedIn(red', right[m]) <=> RedIn(red, right[m])
    BY <1>8, <1>9 DEF RedIn, NodeOrNull
  <2>3. Lean(left, right, red, m)
    BY DEF Resting
  <2>4. CASE m # n
    BY <1>8, <2>1, <2>2, <2>3, <2>4 DEF Lean
  <2>5. CASE m = n
    <3>1. left[n] = Null
      BY <1>1, <1>2, <1>3 DEF Linked
    <3>2. QED
      BY <2>1, <2>2, <2>3, <2>5, <3>1 DEF Lean, RedIn
  <2>6. QED
    BY <2>4, <2>5
<1>13. ~RedIn(red', label_list)
  BY <1>7, <1>8 DEF RedIn, Resting, NodeOrNull
<1>14. Resting(right, S, B2, nodes \ {name})'
  BY <1>4, <1>6, <1>10, <1>11, <1>12, <1>13 DEF Resting
<1>15. Descending(B2)'
  <2>1. \A i \in 1..Len(path') - 1 : FALSE
    BY <1>5
  <2>2. ASSUME NEW i \in 1..Len(path')
        PROVE  i - 1 + (IF RedIn(red', path'[i].label) THEN 1 ELSE 0)
                  <= 2 * (B2[label_list'] - B2[path'[i].label])
    <3>1. i = 1 /\ path'[i].label = label_list /\ B2[label_list] \in Nat
      BY <1>5, <1>7, <1>8, <2>2
    <3>2. QED
      BY <1>4, <1>13, <3>1
  <2>3. red'[name']
    BY <1>2, <1>8
  <2>4. path'[1].label = label_list'
    BY <1>4, <1>5
  <2>5. \A i, j \in 1..Len(path') : ~(i < j)
    BY <1>5
  <2>6. QED
    BY <2>1, <2>2, <2>3, <2>4, <2>5 DEF Descending
<1>16. QED
  BY <1>14, <1>15

LEMMA ChildInside ==
    ASSUME NEW L, NEW R, NEW S, NEW root, Rooted(L, R, S, root), NEW n \in Names,
           NEW c \in {L[n], R[n]}, c # Null
    PROVE  c \in Names /\ c \in S[root] /\ c # root /\ n \in S[root] /\ c # n /\ n \notin S[c]
<1>1. IsTree(L, R, S) /\ root \in NodeOrNull
  BY DEF Rooted
<1>2. c \in Names /\ c \in S[n] /\ c # n
  BY <1>1, TreeSteps
<1>3. c \in S[root] /\ n \in S[root]
  BY <1>2, OnlyParent
<1>4. n \in S[c] => c = n
  BY <1>1, <1>2, NoCircle
<1>5. QED
  BY <1>2, <1>3, <1>4

\* A step down.
LEMMA RestingGoesDown ==
    ASSUME Typed, NEW S, NEW B, Resting(right, S, B, nodes \ {name}), Descending(B), Descend,
           path[Len(path)].label # Null
    PROVE  pc' = "descend" /\ Resting(right, S, B, nodes \ {name})' /\ Descending(B)'
<1>1. TypeOK /\ Linked /\ Control
  BY DEF Typed
<1>2. PICK i, at : i = Len(path) /\ at = path[i].label
  OBVIOUS
<1>3. /\ i \in Nat /\ i > 0 /\ at \in Known /\ Known \subseteq NodeOrNull
      /\ \A k \in 1..i : path[k].label \in Known /\ (k < i => path[k].label # Null)
      /\ \A k \in 1..i : k < i => path'[k] = path[k]
      /\ at \in nodes /\ Len(path') = i + 1
      /\ path'[i].label = at /\ path'[i].less = (name < at)
      /\ path'[i + 1].label = IF name < at THEN left[at] ELSE right[at]
      /\ pc' = "descend"
  BY <1>2, DescendPath DEF Descend
<1>4. UNCHANGED <<label_list, nodes, left, right, red, name>>
  BY DEF Descend, treeVars, searchVars
<1>5. Resting(right, S, B, nodes \ {name})'
  BY <1>4 DEF Resting
<1>6. /\ IsTree(left, right, S) /\ label_list \in NodeOrNull /\ at \in Names /\ i - 1 \in Int
      /\ Rooted(left, right, S, label_list) /\ S[label_list] = nodes \ {name}
      /\ nodes \subseteq Names
  BY <1>1, <1>3 DEF Resting, Rooted, TypeOK
<1>7. at \in nodes \ {name}
  <2>1. CASE i = 1
    <3>1. at = label_list
      BY <1>2, <2>1 DEF Descending
    <3>2. at \in S[at]
      BY <1>6, TreeSteps
    <3>3. QED
      BY <1>6, <3>1, <3>2
  <2>2. CASE i # 1
    <3>1. i - 1 \in 1..i - 1 /\ i - 1 + 1 = i
      BY <1>3, <2>2
    <3>2. PICK p : p = path[i - 1].label
      OBVIOUS
    <3>3. p \in Names /\ at \in {left[p], right[p]}
      BY <1>2, <1>6, <3>1, <3>2 DEF Descending
    <3>4. QED
      BY <1>6, <1>2, <3>3, ChildInside
  <2>3. QED
    BY <2>1, <2>2
<1>8. PICK x : x = path'[i + 1].label
  OBVIOUS
<1>9. ASSUME NEW k \in 1..i
      PROVE  /\ path'[k].label \in nodes \ {name}
             /\ path'[k].less <=> name < path'[k].label
             /\ path'[k + 1].label = IF path'[k].less THEN left[path'[k].label] ELSE right[path'[k].label]
  <2>1. CASE k < i
    <3>1. k \in 1..i - 1 /\ k + 1 \in 1..i /\ (k + 1 < i \/ k + 1 = i)
      BY <1>3, <2>1
    <3>2. path'[k] = path[k] /\ path'[k + 1].label = path[k + 1].label
      BY <1>2, <1>3, <2>1, <3>1
    <3>3. QED
      BY <1>2, <3>1, <3>2 DEF Descending
  <2>2. CASE k = i
    BY <1>3, <1>7, <2>2
  <2>3. QED
    BY <1>3, <2>1, <2>2
<1>10. ASSUME NEW k \in 1..i + 1
       PROVE  k - 1 + (IF RedIn(red, path'[k].label) THEN 1 ELSE 0)
                <= 2 * (B[label_list] - B[path'[k].label])
  <2>1. CASE k \in 1..i
    <3>1. path'[k].label = path[k].label
      BY <1>2, <1>3, <2>1
    <3>2. QED
      BY <1>2, <2>1, <3>1 DEF Descending
  <2>2. CASE k = i + 1
    <3>1. i \in 1..Len(path)
      BY <1>2, <1>3
    <3>2. i - 1 + (IF red[at] THEN 1 ELSE 0) <= 2 * (B[label_list] - B[at])
      BY <1>2, <1>6, <3>1, NamesAreNumbers DEF Descending, RedIn
    <3>3. x \in {left[at], right[at]} /\ x \in NodeOrNull
      BY <1>3, <1>6, <1>8, TreeSteps
    <3>4. Even(left, right, red, B, at) /\ Lean(left, right, red, at) /\ B \in [NodeOrNull -> Nat]
      BY <1>6 DEF Resting, EvenTree
    <3>5. B[at] = B[x] + (IF red[at] THEN 0 ELSE 1)
      BY <3>3, <3>4 DEF Even
    <3>6. red[at] => ~RedIn(red, x)
      BY <3>3, <3>4 DEF Lean
    <3>7. B[at] \in Nat /\ B[x] \in Nat /\ B[label_list] \in Nat
      BY <1>3, <1>6, <3>3, <3>4
    <3>8. i + (IF RedIn(red, x) THEN 1 ELSE 0) <= 2 * (B[label_list] - B[x])
      BY <1>3, <3>2, <3>5, <3>6, <3>7
    <3>9. k - 1 = i
      BY <1>3, <2>2
    <3>10. QED
      BY <1>8, <2>2, <3>8, <3>9
  <2>3. k \in 1..i \/ k = i + 1
    BY <1>3
  <2>4. QED
    BY <2>1, <2>2, <2>3
<1>11. path'[1].label = label_list
  <2>1. 1 \in 1..i /\ (1 < i \/ i = 1)
    BY <1>3
  <2>2. path'[1].label = path[1].label
    BY <1>2, <1>3, <2>1
  <2>3. QED
    BY <2>2 DEF Descending
<1>12. Len(path') - 1 = i /\ red[name]
  BY <1>3 DEF Descending
<1>13. ASSUME NEW j \in 1..i + 1, NEW k \in 1..i + 1, j < k
       PROVE  path'[j].label # path'[k].label
  <2>1. /\ j \in 1..i /\ (j < i \/ j = i)
        /\ path'[j].label = path[j].label /\ path[j].label # Null
    <3>1. j \in 1..i /\ (j < i \/ j = i)
      BY <1>3, <1>13
    <3>2. QED
      BY <1>2, <1>3, <3>1, NamesAreNumbers DEF Descending
  <2>2. CASE k \in 1..i
    <3>1. path'[k].label = path[k].label
      BY <1>2, <1>3, <2>2
    <3>2. QED
      BY <1>2, <1>13, <2>1, <2>2, <3>1 DEF Descending
  <2>3. CASE k = i + 1
    <3>1. SUFFICES ASSUME path[j].label = x PROVE FALSE
      BY <1>8, <2>1, <2>3
    <3>2. x \in {left[at], right[at]} /\ x # Null
      BY <1>3, <1>8, <2>1, <3>1
    <3>3. x \in Names /\ x # label_list
      BY <1>6, <3>2, ChildInside
    <3>4. j - 1 \in 1..i - 1 /\ j - 1 + 1 = j /\ j - 1 \in 1..i /\ j - 1 < i /\ i \in 1..i
      <4>1. j # 1
        BY <3>1, <3>3 DEF Descending
      <4>2. QED
        BY <1>3, <2>1, <4>1
    <3>5. PICK b : b = path[j - 1].label
      OBVIOUS
    <3>6. b \in Names /\ x \in {left[b], right[b]}
      BY <1>2, <1>6, <3>1, <3>4, <3>5 DEF Descending
    <3>7. b = at
      BY <1>6, <3>2, <3>3, <3>6, OnlyParent
    <3>8. QED
      BY ZenonT(60), <1>2, <3>4, <3>5, <3>7 DEF Descending
  <2>4. QED
    BY <1>3, <2>2, <2>3
<1>15. Descending(B)'
  BY <1>3, <1>4, <1>9, <1>10, <1>11, <1>12, <1>13 DEF Descending
<1>16. QED
  BY <1>3, <1>5, <1>15

\* On the way up, L and R are the links as they will be when the node c at
\* path[q + 1] is linked to path[q].  Only there may two red nodes be in a row.
Climbing(q, c, L, R, S, B) ==
    /\ q = pathp /\ c = path[q + 1].label
    /\ \A j, k \in 1..q + 1 : j < k => path[j].label # path[k].label
    /\ L = IF q > 0 /\ path[q].less THEN [left EXCEPT ![path[q].label] = c] ELSE left
    /\ R = IF q > 0 /\ ~path[q].less THEN [right EXCEPT ![path[q].label] = c] ELSE right
    /\ Rooted(L, R, S, path[1].label) /\ S[path[1].label] = nodes
    /\ EvenTree(L, R, red, B)
    /\ \A k \in 1..q :
          path[k + 1].label = IF path[k].less THEN L[path[k].label] ELSE R[path[k].label]
    /\ \A n \in Names \ {c} : (q > 0 /\ n = path[q].label) \/ Lean(L, R, red, n)
    /\ ~RedIn(red, R[c])
    /\ red[c] /\ RedIn(red, L[c]) => q > 0 /\ path[q].less /\ ~red[path[q].label]
    /\ q > 0 =>
          /\ path[1].label = label_list /\ ~red[label_list]
          /\ path[q].less => ~RedIn(red, R[path[q].label])
          /\ ~path[q].less => ~(red[path[q].label] /\ RedIn(red, L[path[q].label]))

LEMMA ClimbingStart ==
    ASSUME Typed, NEW S, NEW B, Resting(right, S, B, nodes \ {name}), Descending(B), Descend,
           path[Len(path)].label = Null
    PROVE  pc' = "ascend" /\ \E q, c, L, R, S2 : Climbing(q, c, L, R, S2, B)'
<1>1. TypeOK /\ Linked /\ Control
  BY DEF Typed
<1>2. PICK i, at, q, m : i = Len(path) /\ at = path[i].label /\ q = i - 1 /\ m = name
  OBVIOUS
<1>3. /\ i \in Nat /\ i > 0 /\ Known \subseteq NodeOrNull
      /\ \A k \in 1..i : path[k].label \in Known /\ (k < i => path[k].label # Null)
      /\ \A k \in 1..i : k < i => path'[k] = path[k]
      /\ path'[i].label = m /\ m \in nodes /\ pathp' = q
      /\ pc' = "ascend"
  BY <1>2, DescendPath DEF Descend
<1>4. UNCHANGED <<label_list, nodes, left, right, red, name>>
  BY DEF Descend, treeVars, searchVars
<1>5. /\ IsTree(left, right, S) /\ label_list \in NodeOrNull
      /\ Rooted(left, right, S, label_list) /\ S[label_list] = nodes \ {m}
      /\ nodes \subseteq Names /\ m \in Names
      /\ EvenTree(left, right, red, B) /\ \A n \in Names : Lean(left, right, red, n)
      /\ S[Null] = {} /\ left \in [Names -> NodeOrNull] /\ right \in [Names -> NodeOrNull]
      /\ ~RedIn(red, label_list)
      /\ red[m] /\ Null \notin Names
  BY <1>1, <1>2, <1>3, NamesAreNumbers DEF Resting, Rooted, TypeOK, IsTree, Descending
<1>6. left[m] = Null /\ right[m] = Null /\ B[m] = 0 /\ B[Null] = 0
  <2>1. left[m] = Null /\ right[m] = Null
    BY <1>5 DEF Rooted
  <2>2. B[m] = B[left[m]] + 0 /\ B[Null] = 0
    BY <1>5 DEF EvenTree, Even
  <2>3. QED
    BY <2>1, <2>2
<1>7. path[1].label = label_list /\ at = Null
  BY <1>2 DEF Descending
<1>8. CASE q = 0
  <2>1. i = 1 /\ label_list = Null /\ nodes \ {m} = {}
    <3>1. i = 1
      BY <1>2, <1>3, <1>8
    <3>2. label_list = Null
      BY <1>2, <1>7, <3>1
    <3>3. QED
      BY <1>5, <3>1, <3>2
  <2>2. path'[1].label = m
    BY <1>3, <2>1
  <2>3. S[m] = {m}
    BY <1>5, <1>6 DEF IsTree, Joins
  <2>4. nodes = {m}
    BY <1>3, <2>1
  <2>5. Rooted(left, right, S, m)
    <3>1. m \in NodeOrNull
      BY <1>5 DEF NodeOrNull
    <3>2. ASSUME NEW n \in Names PROVE left[n] = Null /\ right[n] = Null
      <4>1. n \notin S[label_list]
        BY <1>5, <2>1
      <4>2. QED
        BY <1>5, <4>1 DEF Rooted
    <3>3. QED
      BY <1>5, <3>1, <3>2 DEF Rooted
  <2>6. Climbing(0, m, left, right, S, B)'
    <3>1. pathp' = 0 /\ path'[0 + 1].label = m
      BY <1>3, <1>8, <2>2
    <3>2. ~RedIn(red, right[m]) /\ ~RedIn(red, left[m])
      BY <1>6 DEF RedIn
    <3>3. \A k \in 1..0 : FALSE
      OBVIOUS
    <3>4. ~(0 > 0) /\ \A j, k \in 1..0+1 : ~(j < k)
      OBVIOUS
    <3>5. QED
      BY <1>4, <1>5, <2>2, <2>3, <2>4, <2>5, <3>1, <3>2, <3>3, <3>4 DEF Climbing
  <2>7. QED
    BY <1>3, <2>6
<1>9. CASE q # 0
  <2>1. q \in Nat /\ q > 0 /\ i = q + 1 /\ q \in 1..q
    BY <1>2, <1>3, <1>9
  <2>2. ASSUME NEW k \in 1..q
        PROVE  /\ k \in 1..i /\ k < i /\ path'[k] = path[k]
               /\ path[k].label \in S[label_list] /\ path[k].label \in Names
               /\ path[k].less <=> m < path[k].label
               /\ path[k + 1].label = IF path[k].less THEN left[path[k].label] ELSE right[path[k].label]
    <3>1. k \in 1..Len(path) - 1 /\ k \in 1..i /\ k < i
      BY <1>2, <2>1
    <3>2. QED
      BY SMTT(30), <1>2, <1>3, <1>5, <3>1 DEF Descending
  <2>3. PICK e : e = path[q].label
    OBVIOUS
  <2> DEFINE P == {path[k].label : k \in 1..q}
  <2>4. /\ P \subseteq S[label_list] /\ label_list \in P /\ e \in P /\ e \in Names
        /\ P \subseteq Names
    <3>1. 1 \in 1..q
      BY <2>1
    <3>2. QED
      BY <1>7, <2>1, <2>2, <2>3, <3>1
  <2>5. (IF m < e THEN left[e] ELSE right[e]) = Null
    BY <1>2, <1>7, <2>1, <2>2, <2>3
  <2>6. ASSUME NEW n \in Names, NEW x \in P, x \in {left[n], right[n]}
        PROVE  n \in P /\ (IF m < n THEN left[n] ELSE right[n]) = x
               /\ (IF m < n THEN right[n] ELSE left[n]) # x
    <3>1. PICK k \in 1..q : x = path[k].label
      BY <2>6
    <3>2. x # Null /\ x \in Names
      BY <1>5, <2>2, <3>1
    <3>3. x # label_list
      BY <1>5, <2>6, <3>2, ChildInside
    <3>4. k # 1
      BY <1>7, <3>1, <3>3
    <3>5. k - 1 \in 1..q /\ k - 1 + 1 = k
      BY <2>1, <3>4
    <3>6. PICK p : p = path[k - 1].label
      OBVIOUS
    <3>7. p \in P /\ p \in Names /\ (IF m < p THEN left[p] ELSE right[p]) = x
      BY <2>2, <3>1, <3>5, <3>6
    <3>8. p = n /\ ~(x = left[p] /\ x = right[p])
      BY <1>5, <2>6, <3>2, <3>7, OnlyParent
    <3>9. QED
      BY <3>7, <3>8
  <2>7. ASSUME NEW k \in 1..q, k # q
        PROVE  path[k].label # e /\ path[k + 1].label \in P
    <3>1. k + 1 \in 1..q
      BY <2>1, <2>7
    <3>2. path[k + 1].label \in P /\ path[k + 1].label # Null
      BY <1>5, <2>2, <3>1
    <3>3. QED
      BY <2>2, <2>5, <3>2
  <2>8. ASSUME NEW n \in P
        PROVE  /\ m < n => right[n] \notin P /\ IF n = e THEN left[n] = Null ELSE left[n] \in P
               /\ ~(m < n) => left[n] \notin P /\ IF n = e THEN right[n] = Null ELSE right[n] \in P
    <3>1. PICK k \in 1..q : n = path[k].label
      BY <2>8
    <3>2. n # e => k # q
      BY <2>3, <3>1
    <3>3. n # e => (IF m < n THEN left[n] ELSE right[n]) \in P
      BY <2>2, <2>7, <3>1, <3>2
    <3>4. m < n => right[n] \notin P
      BY <2>4, <2>6
    <3>5. ~(m < n) => left[n] \notin P
      BY <2>4, <2>6
    <3>6. QED
      BY <2>5, <3>3, <3>4, <3>5
  <2>9. \A n \in Names \ P : left[n] \notin P /\ right[n] \notin P
    BY <2>6
  <2>10. PICK L, R : /\ L = IF m < e THEN [left EXCEPT ![e] = m] ELSE left
                     /\ R = IF m < e THEN right ELSE [right EXCEPT ![e] = m]
    OBVIOUS
  <2>11. PICK S2 : Rooted(L, R, S2, label_list) /\ S2[label_list] = S[label_list] \cup {m} /\ S2[m] = {m}
    <3>1. PICK Q : Q = P
      OBVIOUS
    <3>2. PICK l, r, root : l = left /\ r = right /\ root = label_list
      OBVIOUS
    <3> HIDE DEF P
    <3>3. Rooted(l, r, S, root)
      BY <1>5, <3>2
    <3>4. WayDown(l, r, S, root, Q, e, m)
      BY <1>5, <2>4, <2>8, <2>9, <3>1, <3>2 DEF WayDown
    <3>6. Hung(l, r, e, m, L, R)
      BY <2>10, <3>2 DEF Hung
    <3>8. \E S2 : Rooted(L, R, S2, root) /\ S2[root] = S[root] \cup {m} /\ S2[m] = {m}
      BY ONLY <3>3, <3>4, <3>6, Added
    <3>9. QED
      BY <3>2, <3>8
  <2> HIDE DEF P
  <2>12. m # e
    BY <1>5, <2>4
  <2>13. /\ path'[q + 1].label = m /\ path'[q].label = e /\ (path'[q].less <=> m < e)
         /\ path'[1].label = label_list
    <3>1. 1 \in 1..q
      BY <2>1
    <3>2. QED
      BY <1>3, <1>7, <2>1, <2>2, <2>3, <3>1
  <2>14. /\ \A n \in Names : L[n] = IF n = e /\ m < e THEN m ELSE left[n]
         /\ \A n \in Names : R[n] = IF n = e /\ ~(m < e) THEN m ELSE right[n]
    BY <1>5, <2>10
  <2>15. EvenTree(L, R, red, B)
    <3>1. ASSUME NEW n \in Names PROVE Even(L, R, red, B, n)
      <4>1. B[L[n]] = B[left[n]] /\ B[R[n]] = B[right[n]]
        BY <1>6, <2>5, <2>14
      <4>2. Even(left, right, red, B, n)
        BY <1>5 DEF EvenTree
      <4>3. QED
        BY <4>1, <4>2 DEF Even
    <3>2. QED
      BY <1>5, <3>1 DEF EvenTree
  <2>16. ASSUME NEW n \in Names, n # e PROVE Lean(L, R, red, n) /\ L[n] = left[n] /\ R[n] = right[n]
    BY <1>5, <2>14, <2>16 DEF Lean
  <2>17. ASSUME NEW k \in 1..q
         PROVE  path'[k + 1].label = IF path'[k].less THEN L[path'[k].label] ELSE R[path'[k].label]
    <3>1. CASE k = q
      BY <2>4, <2>13, <2>14, <3>1
    <3>2. CASE k # q
      <4>1. k + 1 \in 1..q /\ path[k].label # e /\ path[k].label \in Names
        BY <2>1, <2>2, <2>7, <3>2
      <4>2. path'[k + 1] = path[k + 1] /\ path'[k] = path[k]
        BY <2>2, <4>1
      <4>3. L[path[k].label] = left[path[k].label] /\ R[path[k].label] = right[path[k].label]
        BY <2>16, <4>1
      <4>4. QED
        BY <2>2, <4>2, <4>3
    <3>3. QED
      BY <3>1, <3>2
  <2>18. ~RedIn(red, R[m]) /\ ~RedIn(red, L[m])
    BY <1>5, <1>6, <2>12, <2>16 DEF RedIn
  <2>19. /\ m < e => ~RedIn(red, R[e])
         /\ ~(m < e) => ~(red[e] /\ RedIn(red, L[e]))
    BY <1>5, <2>4, <2>14 DEF Lean
  <2>20. ~red[label_list]
    BY <1>5, <2>4 DEF RedIn
  <2>21. S2[label_list] = nodes
    BY <1>3, <1>5, <2>11
  <2>22. /\ L = IF q > 0 /\ path'[q].less THEN [left EXCEPT ![e] = m] ELSE left
         /\ R = IF q > 0 /\ ~path'[q].less THEN [right EXCEPT ![e] = m] ELSE right
    BY <2>1, <2>10, <2>13
  <2>25. ASSUME NEW j \in 1..q + 1, NEW k \in 1..q + 1, j < k
         PROVE  path'[j].label # path'[k].label
    <3>1. j \in 1..q /\ (k \in 1..q \/ k = q + 1)
      BY <2>1, <2>25
    <3>2. path'[j].label = path[j].label /\ path[j].label # m
      BY <1>5, <2>2, <3>1
    <3>3. CASE k \in 1..q
      BY <1>2, <2>1, <2>2, <2>25, <3>1, <3>2, <3>3 DEF Descending
    <3>4. CASE k = q + 1
      BY <2>13, <3>2, <3>4
    <3>5. QED
      BY <3>1, <3>3, <3>4
  <2>23. Climbing(q, m, L, R, S2, B)'
    BY <2>25, <1>3, <1>4, <2>1, <2>11, <2>13, <2>15, <2>16, <2>17, <2>18, <2>19, <2>20, <2>21, <2>22 DEF Climbing
  <2>24. QED
    BY <1>3, <2>23
<1>10. QED
  BY <1>8, <1>9

\* A new root is black.
LEMMA ClimbingNewRoot ==
    ASSUME Typed, NEW q, NEW c, NEW L, NEW R, NEW S, NEW B, Climbing(q, c, L, R, S, B), NewRoot
    PROVE  \E B2 : Resting(right, S, B2, nodes)'
<1>1. TypeOK /\ Linked /\ Control
  BY DEF Typed
<1>2. /\ q = 0 /\ c = path[1].label /\ L = left /\ R = right
      /\ Rooted(left, right, S, c) /\ S[c] = nodes /\ EvenTree(left, right, red, B)
      /\ \A n \in Names \ {c} : Lean(left, right, red, n)
      /\ ~RedIn(red, right[c]) /\ ~(red[c] /\ RedIn(red, left[c]))
  BY DEF Climbing, NewRoot
<1>3. c \in Names /\ c \in NodeOrNull /\ Null \notin Names /\ c # Null
  <2>1. 1 \in DOMAIN path /\ path[1].label # Null /\ path \in Seq(Entries)
    BY <1>1 DEF Control, NewRoot, TypeOK, Entries
  <2>2. path[1] \in Entries
    BY <2>1
  <2>3. QED
    BY <1>2, <2>1, <2>2, NamesAreNumbers DEF Entries, NodeOrNull
<1>4. /\ label_list' = c /\ left' = left /\ right' = right /\ nodes' = nodes
      /\ red' = [red EXCEPT ![c] = FALSE]
  BY <1>2 DEF NewRoot
<1> DEFINE B2 == [B EXCEPT ![c] = B[c] + (IF red[c] THEN 1 ELSE 0)]
<1>5. /\ B \in [NodeOrNull -> Nat] /\ B[Null] = 0 /\ red \in [Names -> BOOLEAN]
      /\ B2 \in [NodeOrNull -> Nat] /\ B2[Null] = 0 /\ B2[c] = B[c] + (IF red[c] THEN 1 ELSE 0)
      /\ \A n \in NodeOrNull : n # c => B2[n] = B[n]
      /\ red' \in [Names -> BOOLEAN] /\ ~red'[c]
      /\ \A n \in Names : n # c => red'[n] = red[n]
  BY SMTT(30), <1>1, <1>2, <1>3, <1>4 DEF EvenTree, TypeOK
<1> HIDE DEF B2
<1>6. ASSUME NEW n \in Names
      PROVE  /\ left[n] \in NodeOrNull /\ right[n] \in NodeOrNull /\ left[n] # c /\ right[n] # c
             /\ Even(left, right, red, B, n) /\ Lean(left, right, red, n)
  <2>1. left[n] # c /\ right[n] # c
    BY <1>2, <1>3, ChildInside
  <2>2. QED
    BY <1>1, <1>2, <2>1 DEF TypeOK, EvenTree, Lean
<1>7. EvenTree(left, right, red', B2)
  <2>1. ASSUME NEW n \in Names PROVE Even(left, right, red', B2, n)
    <3>1. B2[left[n]] = B[left[n]] /\ B2[right[n]] = B[right[n]] /\ B[left[n]] \in Nat
      BY <1>5, <1>6
    <3>2. CASE n = c
      BY <1>5, <1>6, <3>1, <3>2 DEF Even
    <3>3. CASE n # c
      BY <1>5, <1>6, <3>1, <3>3 DEF Even, NodeOrNull
    <3>4. QED
      BY <3>2, <3>3
  <2>2. QED
    BY <1>5, <2>1 DEF EvenTree
<1>8. \A n \in Names : Lean(left, right, red', n)
  <2>1. \A n \in Names : red'[n] => red[n]
    BY <1>5
  <2>2. QED
    BY <1>6, <2>1 DEF Lean, RedIn, NodeOrNull
<1>9. ~RedIn(red', c)
  BY <1>5 DEF RedIn
<1>10. QED
  BY <1>2, <1>4, <1>7, <1>8, <1>9 DEF Resting

\* The only link to p is the one from g, if p is not the root.
LEMMA ParentLinks ==
    ASSUME NEW L, NEW R, NEW S, NEW root, Rooted(L, R, S, root), NEW p \in Names,
           NEW up \in BOOLEAN, NEW less \in BOOLEAN, NEW g,
           up => g \in Names /\ p = IF less THEN L[g] ELSE R[g],
           ~up => p = root
    PROVE  \A n \in Names : /\ L[n] = p <=> up /\ n = g /\ less
                            /\ R[n] = p <=> up /\ n = g /\ ~less
<1>1. p # Null
  BY NamesAreNumbers
<1>2. CASE up
  <2>1. g \in Names /\ p \in {L[g], R[g]} /\ p = IF less THEN L[g] ELSE R[g]
    BY <1>2
  <2>2. ASSUME NEW n \in Names, p \in {L[n], R[n]} PROVE n = g /\ ~(p = L[g] /\ p = R[g])
    BY <1>1, <2>1, <2>2, OnlyParent
  <2>3. QED
    BY <1>2, <2>1, <2>2
<1>3. CASE ~up
  <2>1. ASSUME NEW n \in Names, p \in {L[n], R[n]} PROVE FALSE
    BY <1>1, <1>3, <2>1, ChildInside
  <2>2. QED
    BY <1>3, <2>1
<1>4. QED
  BY <1>2, <1>3

\* The node p has a child x, and it is a child of g, if it is not the root.
Place(L, R, S, root, p, x, up, less, g) ==
    /\ Rooted(L, R, S, root) /\ p \in Names /\ x \in Names /\ x \in {L[p], R[p]}
    /\ up \in BOOLEAN /\ less \in BOOLEAN
    /\ up => g \in Names /\ p = IF less THEN L[g] ELSE R[g]
    /\ ~up => p = root

\* The links L1 and R1 differ from L and R at p and x, where y is to take the place of p.
Moved(L, R, p, x, y, L1, R1) ==
    /\ L1 \in [Names -> NodeOrNull] /\ R1 \in [Names -> NodeOrNull]
    /\ \A n \in Names \ {p, x} : L1[n] = L[n] /\ R1[n] = R[n]
    /\ y \in {p, x} /\ (y = p => L1 = L /\ R1 = R)

\* The links L2 and R2, where g leads to y.
LinkedTo(up, less, g, y, L1, R1, L2, R2) ==
    /\ L2 = IF up /\ less THEN [L1 EXCEPT ![g] = y] ELSE L1
    /\ R2 = IF up /\ ~less THEN [R1 EXCEPT ![g] = y] ELSE R1

Relink(L, R, p, x, y, L1, R1, L2, R2) ==
    /\ L2 \in [Names -> NodeOrNull] /\ R2 \in [Names -> NodeOrNull]
    /\ Replaced(L, L2, p, y) /\ Replaced(R, R2, p, y)
    /\ L2[p] = L1[p] /\ R2[p] = R1[p] /\ L2[x] = L1[x] /\ R2[x] = R1[x]
    /\ y = p => L2 = L /\ R2 = R

Aside(L, R, p, x, y, up, less, g, L2, R2) ==
    up => /\ g \notin {p, x}
          /\ L2[g] = (IF less THEN y ELSE L[g]) /\ R2[g] = (IF less THEN R[g] ELSE y)
          /\ less => R[g] \notin {p, x}
          /\ ~less => L[g] \notin {p, x}

LEMMA Relinked ==
    ASSUME NEW L, NEW R, NEW S, NEW root, NEW p, NEW x, NEW up, NEW less, NEW g,
           Place(L, R, S, root, p, x, up, less, g),
           NEW y, NEW L1, NEW R1, Moved(L, R, p, x, y, L1, R1),
           NEW L2, NEW R2, LinkedTo(up, less, g, y, L1, R1, L2, R2)
    PROVE  /\ Relink(L, R, p, x, y, L1, R1, L2, R2)
           /\ Aside(L, R, p, x, y, up, less, g, L2, R2)
           /\ \A n \in Names : p \in {L[n], R[n]} => up /\ n = g
<1>0. /\ Rooted(L, R, S, root) /\ p \in Names /\ x \in Names /\ x \in {L[p], R[p]}
      /\ up \in BOOLEAN /\ less \in BOOLEAN
      /\ up => g \in Names /\ p = IF less THEN L[g] ELSE R[g]
      /\ ~up => p = root
      /\ L1 \in [Names -> NodeOrNull] /\ R1 \in [Names -> NodeOrNull]
      /\ \A n \in Names \ {p, x} : L1[n] = L[n] /\ R1[n] = R[n]
      /\ y \in {p, x} /\ (y = p => L1 = L /\ R1 = R)
      /\ L2 = IF up /\ less THEN [L1 EXCEPT ![g] = y] ELSE L1
      /\ R2 = IF up /\ ~less THEN [R1 EXCEPT ![g] = y] ELSE R1
  BY DEF Place, Moved, LinkedTo
<1>1. p # Null /\ x # Null /\ p \in NodeOrNull /\ x \in NodeOrNull /\ y \in NodeOrNull
  BY <1>0, NamesAreNumbers DEF NodeOrNull
<1>2. p # x /\ p \notin S[x] /\ IsTree(L, R, S)
  <2>1. IsTree(L, R, S)
    BY <1>0 DEF Rooted
  <2>2. p # x /\ p \notin S[x]
    BY <1>0, <1>1, ChildInside
  <2>3. QED
    BY <2>1, <2>2
<1>3. \A n \in Names : /\ L[n] = p <=> up /\ n = g /\ less
                       /\ R[n] = p <=> up /\ n = g /\ ~less
  BY <1>0, ParentLinks
<1>4. up => g \in Names /\ g # p /\ g # x
  <2>1. SUFFICES ASSUME up PROVE g \in Names /\ g # p /\ g # x
    OBVIOUS
  <2>2. p \in {L[g], R[g]} /\ g \in Names
    BY <1>0, <2>1
  <2>3. g # p
    BY <1>0, <1>1, <2>2, ChildInside
  <2>4. p \in S[g]
    BY <1>0, <1>1, <1>2, <2>2, TreeSteps
  <2>5. QED
    BY <1>0, <1>2, <2>2, <2>3, <2>4
<1>5. L2 \in [Names -> NodeOrNull] /\ R2 \in [Names -> NodeOrNull]
  BY <1>0, <1>1
<1>6. \A n \in Names : /\ L2[n] = IF up /\ less /\ n = g THEN y ELSE L1[n]
                       /\ R2[n] = IF up /\ ~less /\ n = g THEN y ELSE R1[n]
  BY <1>0, <1>4
<1>7. Replaced(L, L2, p, y) /\ Replaced(R, R2, p, y)
  <2>1. ASSUME NEW n \in Names \ {p, y}
        PROVE  L1[n] = L[n] /\ R1[n] = R[n]
    BY <1>0, <2>1
  <2>2. QED
    BY <1>0, <1>3, <1>6, <2>1 DEF Replaced
<1>8. L2[p] = L1[p] /\ R2[p] = R1[p] /\ L2[x] = L1[x] /\ R2[x] = R1[x]
  BY <1>0, <1>4, <1>6
<1>9. ASSUME y = p PROVE L2 = L /\ R2 = R
  <2>1. L \in [Names -> NodeOrNull] /\ R \in [Names -> NodeOrNull]
    BY <1>2 DEF IsTree
  <2>2. \A n \in Names : L2[n] = L[n] /\ R2[n] = R[n]
    BY <1>0, <1>3, <1>6, <1>9
  <2>3. QED
    BY <1>5, <2>1, <2>2
<1>10. ASSUME up
       PROVE  /\ L2[g] = (IF less THEN y ELSE L[g]) /\ R2[g] = (IF less THEN R[g] ELSE y)
              /\ less => R[g] \notin {p, x}
              /\ ~less => L[g] \notin {p, x}
  <2>1. g \in Names \ {p, x}
    BY <1>4, <1>10
  <2>2. L1[g] = L[g] /\ R1[g] = R[g]
    BY <1>0, <2>1
  <2>3. L[g] # x /\ R[g] # x
    BY <1>0, <1>1, <2>1, OnlyParent
  <2>4. QED
    BY <1>0, <1>3, <1>6, <1>10, <2>1, <2>2, <2>3
<1>11. QED
  BY <1>3, <1>4, <1>5, <1>7, <1>8, <1>9, <1>10 DEF Relink, Aside

\* What Ascend does at the node p with the child x.
AscendsAt(q, p, x, less) ==
    q = pathp /\ p = path[q].label /\ x = path[q + 1].label /\ less = path[q].less

\* FixLeft and FixRight, when x is red.
Fixes(q, p, x, less) ==
    /\ less /\ ~RedIn(red, left[x]) =>
          /\ path'[q].label = p
          /\ left' = [left EXCEPT ![p] = x] /\ right' = right /\ red' = red
    /\ less /\ RedIn(red, left[x]) =>
          /\ path'[q].label = x
          /\ left' = [left EXCEPT ![p] = right[x]] /\ right' = [right EXCEPT ![x] = p]
          /\ red' = [red EXCEPT ![left[x]] = FALSE]
    /\ ~less /\ RedIn(red, left[p]) =>
          /\ path'[q].label = p
          /\ left' = left /\ right' = [right EXCEPT ![p] = x]
          /\ red' = [red EXCEPT ![left[p]] = FALSE, ![x] = FALSE, ![p] = TRUE]
    /\ ~less /\ ~RedIn(red, left[p]) =>
          /\ path'[q].label = x
          /\ left' = [left EXCEPT ![x] = p] /\ right' = [right EXCEPT ![p] = left[x]]
          /\ red' = [red EXCEPT ![x] = red[p], ![p] = TRUE]

LEMMA AscendStep ==
    ASSUME Typed, Ascend, NEW q, NEW p, NEW x, NEW less, AscendsAt(q, p, x, less)
    PROVE  /\ q \in Nat /\ q > 0 /\ p \in Names /\ x \in Names /\ less \in BOOLEAN
           /\ \A k \in 1..q : path[k].label \in Names /\ path[k].less \in BOOLEAN
           /\ label_list' = label_list /\ nodes' = nodes
           /\ ~red[x] =>
                /\ left' = IF less THEN [left EXCEPT ![p] = x] ELSE left
                /\ right' = IF less THEN right ELSE [right EXCEPT ![p] = x]
                /\ red' = red
           /\ red[x] =>
                /\ pc' = "ascend" /\ pathp' = q - 1
                /\ \A k \in 1..q - 1 : path'[k] = path[k]
                /\ Fixes(q, p, x, less)
<1>0. q = pathp /\ p = path[q].label /\ x = path[q + 1].label /\ less = path[q].less
  BY DEF AscendsAt
<1>1. TypeOK /\ Control
  BY DEF Typed
<1>2. path \in Seq(Entries) /\ q \in Nat /\ q > 0 /\ q < Len(path)
  BY <1>0, <1>1 DEF Ascend, TypeOK, Entries, Control
<1>3. ASSUME NEW k \in 1..q + 1
      PROVE  k \in DOMAIN path /\ path[k] \in Entries /\ path[k].label \in Names /\ path[k].less \in BOOLEAN
  <2>1. k \in DOMAIN path
    BY <1>2
  <2>2. path[k] \in Entries
    BY <1>2, <2>1, SequenceElements
  <2>3. path[k].label # Null
    BY <1>0, <1>1 DEF Ascend, Control
  <2>4. QED
    BY <2>1, <2>2, <2>3, EntryChanged DEF Entries, NodeOrNull
<1>4. /\ q \in 1..q + 1 /\ q + 1 \in 1..q + 1 /\ q \in DOMAIN path
      /\ p \in Names /\ x \in Names /\ less \in BOOLEAN
      /\ \A k \in 1..q : path[k].label \in Names /\ path[k].less \in BOOLEAN
  <2>1. q \in 1..q + 1 /\ q + 1 \in 1..q + 1 /\ \A k \in 1..q : k \in 1..q + 1
    BY <1>2
  <2>2. QED
    BY <1>0, <1>3, <2>1
<1>5. label_list' = label_list /\ nodes' = nodes
  BY DEF Ascend
<1>6. IF less THEN FixLeft(p, x) ELSE FixRight(p, x)
  BY <1>0 DEF Ascend
<1>7. ASSUME ~red[x]
      PROVE  /\ left' = IF less THEN [left EXCEPT ![p] = x] ELSE left
             /\ right' = IF less THEN right ELSE [right EXCEPT ![p] = x]
             /\ red' = red
  BY <1>4, <1>6, <1>7 DEF FixLeft, FixRight
<1>8. ASSUME red[x]
      PROVE  /\ pc' = "ascend" /\ pathp' = q - 1
             /\ \A k \in 1..q - 1 : path'[k] = path[k]
             /\ Fixes(q, p, x, less)
  <2>1. pc' = "ascend" /\ pathp' = q - 1
    BY <1>0, <1>8 DEF Ascend
  <2>2. PICK d : d = [path[q] EXCEPT !.label = x]
    OBVIOUS
  <2>3. d.label = x
    BY <1>3, <1>4, <2>2, EntryChanged DEF Entries
  <2>4. [path EXCEPT ![pathp].label = x] = [path EXCEPT ![q] = d]
    BY <1>0, <2>2
  <2>5. \A k \in 1..q - 1 : k \in DOMAIN path /\ k # q
    BY <1>2
  <2>6. ASSUME path' = [path EXCEPT ![pathp].label = x]
        PROVE  path'[q].label = x /\ \A k \in 1..q - 1 : path'[k] = path[k]
    BY <1>2, <1>4, <2>3, <2>4, <2>5, <2>6
  <2>7. CASE less
    <3>1. PICK l : l = left[x]
      OBVIOUS
    <3>2. FixLeft(p, x)
      BY <1>6, <2>7
    <3>3. CASE RedIn(red, l)
      <4>1. /\ path' = [path EXCEPT ![pathp].label = x]
            /\ left' = [left EXCEPT ![p] = right[x]] /\ right' = [right EXCEPT ![x] = p]
            /\ red' = [red EXCEPT ![l] = FALSE]
        BY <1>8, <3>1, <3>2, <3>3 DEF FixLeft, RedIn
      <4>2. QED
        BY <2>1, <2>6, <2>7, <3>1, <3>3, <4>1 DEF Fixes
    <3>4. CASE ~RedIn(red, l)
      <4>1. path' = path /\ left' = [left EXCEPT ![p] = x] /\ right' = right /\ red' = red
        BY <1>8, <3>1, <3>2, <3>4 DEF FixLeft, RedIn
      <4>2. QED
        BY <1>0, <2>1, <2>7, <3>1, <3>4, <4>1 DEF Fixes
    <3>5. QED
      BY <3>3, <3>4
  <2>8. CASE ~less
    <3>1. PICK l : l = left[p]
      OBVIOUS
    <3>2. FixRight(p, x)
      BY <1>6, <2>8
    <3>3. CASE RedIn(red, l)
      <4>1. /\ path' = path /\ left' = left /\ right' = [right EXCEPT ![p] = x]
            /\ red' = [red EXCEPT ![l] = FALSE, ![x] = FALSE, ![p] = TRUE]
        BY <1>8, <3>1, <3>2, <3>3 DEF FixRight, RedIn
      <4>2. QED
        BY <1>0, <2>1, <2>8, <3>1, <3>3, <4>1 DEF Fixes
    <3>4. CASE ~RedIn(red, l)
      <4>1. /\ path' = [path EXCEPT ![pathp].label = x]
            /\ left' = [left EXCEPT ![x] = p] /\ right' = [right EXCEPT ![p] = left[x]]
            /\ red' = [red EXCEPT ![x] = red[p], ![p] = TRUE]
        BY <1>8, <3>1, <3>2, <3>4 DEF FixRight, RedIn
      <4>2. QED
        BY <2>1, <2>6, <2>8, <3>1, <3>4, <4>1 DEF Fixes
    <3>5. QED
      BY <3>3, <3>4
  <2>9. QED
    BY <1>4, <2>7, <2>8
<1>9. QED
  BY <1>2, <1>4, <1>5, <1>7, <1>8

LEMMA AscendPath ==
    ASSUME Typed, Ascend, NEW q, q = pathp
    PROVE  /\ q \in Nat /\ q > 0 /\ label_list' = label_list /\ nodes' = nodes
           /\ \A k \in 1..q + 1 : path[k].label \in Names
           /\ \A k \in 1..q : path[k].label \in Names /\ path[k].less \in BOOLEAN
           /\ red[path[q + 1].label] => /\ pathp' = q - 1
                                        /\ \A k \in 1..q - 1 : path'[k] = path[k]
<1>1. PICK p, x, less : p = path[q].label /\ x = path[q + 1].label /\ less = path[q].less
  OBVIOUS
<1>2. /\ q \in Nat /\ q > 0 /\ label_list' = label_list /\ nodes' = nodes /\ x \in Names
      /\ \A k \in 1..q : path[k].label \in Names /\ path[k].less \in BOOLEAN
      /\ red[x] => pathp' = q - 1 /\ \A k \in 1..q - 1 : path'[k] = path[k]
  <2>1. AscendsAt(q, p, x, less)
    BY <1>1 DEF AscendsAt
  <2>2. QED
    BY <2>1, AscendStep
<1>3. ASSUME NEW k \in 1..q + 1 PROVE path[k].label \in Names
  <2>1. k = q + 1 \/ k \in 1..q
    BY <1>2
  <2>2. QED
    BY <1>1, <1>2, <2>1
<1>4. QED
  BY <1>1, <1>2, <1>3

\* What a round of the ascent makes of the tree below p and its red child x.
Raised(L, R, C, root, p, x, y, L2, R2, C2, S2, B2, N) ==
    /\ Rooted(L2, R2, S2, IF root = p THEN y ELSE root) /\ S2[IF root = p THEN y ELSE root] = N
    /\ EvenTree(L2, R2, C2, B2)
    /\ \A n \in Names \ {y} : p \notin {L[n], R[n]} => Lean(L2, R2, C2, n)
    /\ ~RedIn(C2, R2[y])
    /\ C2[y] /\ RedIn(C2, L2[y]) => C[p]
    /\ \A n \in Names \ {p, x} : C2[n] => C[n]

LEMMA ClimbingUp ==
    ASSUME Typed, Ascend, NEW q, NEW x, NEW L, NEW R, NEW S, NEW B, Climbing(q, x, L, R, S, B), red[x],
           NEW p, p = path[q].label, NEW g, g = path[q - 1].label, NEW up, up <=> q > 1,
           NEW less, less = (up /\ path[q - 1].less),
           NEW root, root = path[1].label, Place(L, R, S, root, p, x, up, less, g),
           NEW y, path'[q].label = y, Moved(L, R, p, x, y, left', right'),
           NEW L2, NEW R2, LinkedTo(up, less, g, y, left', right', L2, R2),
           NEW S2, NEW B2,
           Raised(L, R, red, root, p, x, y, L2, R2, red', S2, B2, nodes)
    PROVE  Climbing(q - 1, y, L2, R2, S2, B2)'
<1>0. /\ y \in {p, x}
      /\ L2 = IF up /\ less THEN [left' EXCEPT ![g] = y] ELSE left'
      /\ R2 = IF up /\ ~less THEN [right' EXCEPT ![g] = y] ELSE right'
      /\ Replaced(L, L2, p, y) /\ Replaced(R, R2, p, y) /\ (y = p => L2 = L /\ R2 = R)
      /\ up => /\ g \in Names /\ g \notin {p, x} /\ p = IF less THEN L[g] ELSE R[g]
               /\ L2[g] = (IF less THEN y ELSE L[g]) /\ R2[g] = (IF less THEN R[g] ELSE y)
               /\ less => R[g] \notin {p, x}
               /\ ~less => L[g] \notin {p, x}
      /\ \A n \in Names : p \in {L[n], R[n]} => up /\ n = g
  <2>1. PICK L1, R1 : L1 = left' /\ R1 = right'
    OBVIOUS
  <2>2. /\ Relink(L, R, p, x, y, L1, R1, L2, R2)
        /\ Aside(L, R, p, x, y, up, less, g, L2, R2)
        /\ \A n \in Names : p \in {L[n], R[n]} => up /\ n = g
    BY <2>1, Relinked
  <2>3. L2 = (IF up /\ less THEN [left' EXCEPT ![g] = y] ELSE left')
    BY DEF LinkedTo
  <2>4. R2 = (IF up /\ ~less THEN [right' EXCEPT ![g] = y] ELSE right')
    BY DEF LinkedTo
  <2>5. y \in {p, x} /\ (up => g \in Names /\ p = IF less THEN L[g] ELSE R[g])
    BY DEF Moved, Place
  <2>6. QED
    BY <2>2, <2>3, <2>4, <2>5 DEF Relink, Aside
<1>1. /\ q \in Nat /\ q > 0 /\ p \in Names /\ x \in Names
      /\ \A k \in 1..q : path[k].label \in Names /\ path[k].less \in BOOLEAN
      /\ label_list' = label_list /\ nodes' = nodes
      /\ pathp' = q - 1 /\ \A k \in 1..q - 1 : path'[k] = path[k]
  <2>1. q = pathp /\ x = path[q + 1].label
    BY DEF Climbing
  <2>2. /\ q \in Nat /\ q > 0 /\ label_list' = label_list /\ nodes' = nodes
        /\ \A k \in 1..q + 1 : path[k].label \in Names
        /\ \A k \in 1..q : path[k].label \in Names /\ path[k].less \in BOOLEAN
        /\ red[x] => pathp' = q - 1 /\ \A k \in 1..q - 1 : path'[k] = path[k]
    BY <2>1, AscendPath
  <2>3. q \in 1..q + 1 /\ q + 1 \in 1..q + 1
    BY <2>2
  <2>4. QED
    BY <2>1, <2>2, <2>3
<1>2. /\ \A j, k \in 1..q + 1 : j < k => path[j].label # path[k].label
      /\ path[q + 1].label = x /\ IsTree(L, R, S)
      /\ Null \notin Names
  BY NamesAreNumbers DEF Climbing, Rooted
<1>3. ASSUME NEW k \in 1..q - 1
      PROVE  /\ path'[k] = path[k] /\ path[k].label \in Names /\ path[k].label \notin {p, x}
             /\ k \in 1..q /\ k + 1 \in 1..q
             /\ path[k + 1].label = IF path[k].less THEN L[path[k].label] ELSE R[path[k].label]
             /\ k # q - 1 => path[k].label # g
             /\ k # q - 1 => k + 1 \in 1..q - 1
  <2>1. k \in 1..q /\ k + 1 \in 1..q /\ k \in 1..q + 1 /\ q \in 1..q + 1 /\ q + 1 \in 1..q + 1 /\ k < q /\ k < q + 1
        /\ q - 1 \in 1..q + 1
    BY <1>1
  <2>2. path[k].label \notin {p, x} /\ (k < q - 1 => path[k].label # g)
    BY <1>2, <2>1
  <2>3. path[k + 1].label = IF path[k].less THEN L[path[k].label] ELSE R[path[k].label]
    BY <2>1 DEF Climbing
  <2>4. k # q - 1 => k < q - 1 /\ k + 1 \in 1..q - 1
    BY <1>1
  <2>5. QED
    BY <1>1, <2>1, <2>2, <2>3, <2>4
<1>4. ASSUME NEW j \in 1..q, NEW k \in 1..q, j < k
      PROVE  path'[j].label # path'[k].label
  <2>1. j \in 1..q - 1 /\ j \in 1..q + 1 /\ k \in 1..q + 1 /\ (k = q \/ k \in 1..q - 1)
    BY <1>1, <1>4
  <2>2. path'[j].label = path[j].label /\ path[j].label \notin {p, x} /\ path[j].label # path[k].label
    BY <1>2, <1>3, <1>4, <2>1
  <2>3. CASE k = q
    BY <1>0, <2>2, <2>3
  <2>4. CASE k \in 1..q - 1
    BY <1>3, <2>2, <2>4
  <2>5. QED
    BY <2>1, <2>3, <2>4
<1>5. up => /\ q - 1 \in 1..q - 1 /\ 1 \in 1..q - 1 /\ path'[q - 1] = path[q - 1] /\ path'[1] = path[1]
            /\ root # p
  <2>1. up => q - 1 \in 1..q - 1 /\ 1 \in 1..q - 1
    BY <1>1
  <2>2. QED
    BY <1>3, <2>1
<1>6. ~up => q = 1 /\ root = p
  BY <1>1
<1>7. path'[1].label = IF root = p THEN y ELSE root
  BY <1>0, <1>5, <1>6
<1>8. ASSUME NEW k \in 1..q - 1
      PROVE  path'[k + 1].label = IF path'[k].less THEN L2[path'[k].label] ELSE R2[path'[k].label]
  <2>0. up
    BY <1>1
  <2>1. CASE k = q - 1
    <3>1. path'[k + 1].label = y /\ path'[k] = path[k] /\ path[k].label = g /\ path[k].less = less
      <4>1. k + 1 = q
        BY <1>1, <2>1
      <4>2. path[q - 1].less \in BOOLEAN
        BY <1>1, <1>3, <2>1
      <4>3. QED
        BY <1>3, <2>0, <2>1, <4>1, <4>2
    <3>2. QED
      BY <1>0, <2>0, <3>1
  <2>2. CASE k # q - 1
    <3>1. PICK n : n = path[k].label
      OBVIOUS
    <3>2. n \in Names /\ n \notin {p, x, g}
      BY <1>3, <2>2, <3>1
    <3>3. L[n] # p /\ R[n] # p
      BY <1>0, <3>2
    <3>4. L2[n] = L[n] /\ R2[n] = R[n]
      BY <1>0, <3>2, <3>3 DEF Replaced
    <3>5. path'[k + 1] = path[k + 1] /\ path'[k] = path[k]
      BY <1>3, <2>2
    <3>6. QED
      BY <1>3, <3>1, <3>4, <3>5
  <2>3. QED
    BY <2>1, <2>2
<1>9. ASSUME NEW n \in Names \ {y}
      PROVE  (up /\ n = g) \/ Lean(L2, R2, red', n)
  BY <1>0, <1>9 DEF Raised
<1>10. ASSUME up
       PROVE  /\ root = label_list /\ ~red[label_list] /\ ~red'[label_list]
              /\ Lean(L, R, red, g) /\ g \in Names /\ g \notin {p, x} /\ (red'[g] => red[g])
              /\ \A n \in NodeOrNull \ {p, x} : RedIn(red', n) => RedIn(red, n)
              /\ L[g] \in NodeOrNull /\ R[g] \in NodeOrNull
  <2>1. root = label_list /\ ~red[label_list]
    BY <1>1 DEF Climbing
  <2>2. root \in Names /\ root \notin {p, x}
    BY <1>3, <1>5, <1>10
  <2>3. \A n \in Names \ {p, x} : red'[n] => red[n]
    BY DEF Raised
  <2>4. g \in Names /\ g \notin {p, x}
    BY <1>0, <1>10
  <2>5. Lean(L, R, red, g)
    BY <2>4 DEF Climbing
  <2>6. L[g] \in NodeOrNull /\ R[g] \in NodeOrNull
    BY <1>2, <2>4 DEF IsTree
  <2>7. QED
    BY <2>1, <2>2, <2>3, <2>4, <2>5, <2>6 DEF RedIn, NodeOrNull
<1>11. ASSUME red'[y], RedIn(red', L2[y])
       PROVE  up /\ less /\ ~red'[g]
  <2>1. red[p]
    BY <1>11 DEF Raised
  <2>2. up
    <3>1. SUFFICES ASSUME ~up PROVE FALSE
      OBVIOUS
    <3>2. q = 1 /\ path[1].label = p /\ path[1].label = label_list /\ ~red[label_list]
      BY <1>1, <1>6, <3>1 DEF Climbing
    <3>3. QED
      BY <2>1, <3>2
  <2>3. /\ Lean(L, R, red, g) /\ p \in Names /\ Null \notin Names /\ (red'[g] => red[g])
        /\ p = IF less THEN L[g] ELSE R[g]
    BY <1>0, <1>1, <1>2, <1>10, <2>2
  <2>4. less
    BY <2>1, <2>3 DEF Lean, RedIn
  <2>5. ~red'[g]
    BY <2>1, <2>3, <2>4 DEF Lean, RedIn
  <2>6. QED
    BY <2>2, <2>4, <2>5
<1>12. ASSUME up
       PROVE  /\ less => ~RedIn(red', R2[g])
              /\ ~less => ~(red'[g] /\ RedIn(red', L2[g]))
  BY <1>0, <1>10, <1>12 DEF Lean
<1>13. (q - 1 > 0 <=> up) /\ q - 1 + 1 = q
  BY <1>1
<1>14. up => path'[q - 1].less = less /\ path'[q - 1].label = g
  <2>1. up => path[q - 1].less \in BOOLEAN
    BY <1>1, <1>3, <1>5
  <2>2. QED
    BY <1>5, <2>1
<1>15. q = pathp /\ x = path[q + 1].label
  BY DEF Climbing
<1>16. \A j, k \in 1..q - 1 + 1 : j < k => path'[j].label # path'[k].label
  BY <1>4, <1>13
<1>17. /\ L2 = IF q - 1 > 0 /\ path'[q - 1].less THEN [left' EXCEPT ![path'[q - 1].label] = y] ELSE left'
       /\ R2 = IF q - 1 > 0 /\ ~path'[q - 1].less THEN [right' EXCEPT ![path'[q - 1].label] = y] ELSE right'
  BY <1>0, <1>13, <1>14
<1>18. /\ Rooted(L2, R2, S2, path'[1].label) /\ S2[path'[1].label] = nodes'
       /\ EvenTree(L2, R2, red', B2) /\ ~RedIn(red', R2[y])
  BY <1>1, <1>7 DEF Raised
<1>19. \A n \in Names \ {y} : (q - 1 > 0 /\ n = path'[q - 1].label) \/ Lean(L2, R2, red', n)
  BY <1>9, <1>13, <1>14
<1>20. red'[y] /\ RedIn(red', L2[y]) => q - 1 > 0 /\ path'[q - 1].less /\ ~red'[path'[q - 1].label]
  BY <1>11, <1>13, <1>14
<1>21. q - 1 > 0 =>
          /\ path'[1].label = label_list' /\ ~red'[label_list']
          /\ path'[q - 1].less => ~RedIn(red', R2[path'[q - 1].label])
          /\ ~path'[q - 1].less => ~(red'[path'[q - 1].label] /\ RedIn(red', L2[path'[q - 1].label]))
  BY <1>1, <1>5, <1>10, <1>12, <1>13, <1>14
<1>22. q - 1 = pathp' /\ y = path'[q - 1 + 1].label
  BY <1>1, <1>13
<1>23. QED
  BY <1>8, <1>16, <1>17, <1>18, <1>19, <1>20, <1>21, <1>22 DEF Climbing

LEMMA ClimbingRound ==
    ASSUME Typed, Ascend, NEW q, NEW x, NEW L, NEW R, NEW S, NEW B, Climbing(q, x, L, R, S, B), red[x],
           NEW p, p = path[q].label, NEW y, path'[q].label = y,
           NEW root, root = path[1].label,
           Moved(L, R, p, x, y, left', right'),
           \A L2, R2 : Relink(L, R, p, x, y, left', right', L2, R2)
                          => \E S2, B2 : Raised(L, R, red, root, p, x, y, L2, R2, red', S2, B2, nodes)
    PROVE  \E L2, R2, S2, B2 : Climbing(q - 1, y, L2, R2, S2, B2)'
<1>1. /\ q \in Nat /\ q > 0 /\ p \in Names /\ x \in Names
      /\ \A k \in 1..q : path[k].label \in Names /\ path[k].less \in BOOLEAN
  <2>1. q = pathp /\ x = path[q + 1].label
    BY DEF Climbing
  <2>2. /\ q \in Nat /\ q > 0 /\ label_list' = label_list /\ nodes' = nodes
        /\ \A k \in 1..q + 1 : path[k].label \in Names
        /\ \A k \in 1..q : path[k].label \in Names /\ path[k].less \in BOOLEAN
        /\ red[x] => pathp' = q - 1 /\ \A k \in 1..q - 1 : path'[k] = path[k]
    BY <2>1, AscendPath
  <2>3. q \in 1..q + 1 /\ q + 1 \in 1..q + 1
    BY <2>2
  <2>4. QED
    BY <2>1, <2>2, <2>3
<1>2. PICK g, up, less, L1, R1 :
         /\ g = path[q - 1].label /\ up \in BOOLEAN /\ (up <=> q > 1)
         /\ less = (up /\ path[q - 1].less) /\ L1 = left' /\ R1 = right'
  <2>1. \E up \in BOOLEAN : up <=> q > 1
    BY Zenon
  <2>2. QED
    BY <2>1
<1>3. up \in BOOLEAN /\ less \in BOOLEAN /\ Rooted(L, R, S, root)
  BY <1>2 DEF Climbing
<1>4. ASSUME up
      PROVE  g \in Names /\ p = IF less THEN L[g] ELSE R[g]
  <2>1. q - 1 \in 1..q /\ q - 1 + 1 = q
    BY <1>1, <1>2, <1>4
  <2>2. g \in Names /\ less = path[q - 1].less
    BY <1>1, <1>2, <1>4, <2>1
  <2>3. path[q].label = IF path[q - 1].less THEN L[g] ELSE R[g]
    BY <1>2, <2>1 DEF Climbing
  <2>4. QED
    BY <2>2, <2>3
<1>5. ~up => p = root
  BY <1>1, <1>2
<1>6. x \in {L[p], R[p]}
  <2>1. q \in 1..q /\ x = path[q + 1].label
    BY <1>1 DEF Climbing
  <2>2. path[q + 1].label = IF path[q].less THEN L[p] ELSE R[p]
    BY <2>1 DEF Climbing
  <2>3. QED
    BY <2>1, <2>2
<1>7. Place(L, R, S, root, p, x, up, less, g)
  BY <1>1, <1>3, <1>4, <1>5, <1>6 DEF Place
<1>8. PICK L2, R2 : LinkedTo(up, less, g, y, L1, R1, L2, R2)
  BY DEF LinkedTo
<1>9. Moved(L, R, p, x, y, L1, R1)
  BY <1>2
<1>10. Relink(L, R, p, x, y, L1, R1, L2, R2)
  BY <1>7, <1>8, <1>9, Relinked
<1>11. PICK S2, B2 : Raised(L, R, red, root, p, x, y, L2, R2, red', S2, B2, nodes)
  BY <1>2, <1>10
<1>12. LinkedTo(up, less, g, y, left', right', L2, R2)
  BY <1>2, <1>8
<1>13. Climbing(q - 1, y, L2, R2, S2, B2)'
  BY <1>2, <1>7, <1>11, <1>12, ClimbingUp
<1>14. QED
  BY <1>13

\* What holds when Ascend begins.
Ascends(p, x, less, L, R, S, B, root) ==
    /\ p \in Names /\ x \in Names /\ p # x /\ less \in BOOLEAN
    /\ Rooted(L, R, S, root) /\ S[root] = nodes /\ EvenTree(L, R, red, B)
    /\ L \in [Names -> NodeOrNull] /\ R \in [Names -> NodeOrNull]
    /\ left \in [Names -> NodeOrNull] /\ right \in [Names -> NodeOrNull]
    /\ red \in [Names -> BOOLEAN]
    /\ less => L = [left EXCEPT ![p] = x] /\ R = right
    /\ ~less => L = left /\ R = [right EXCEPT ![p] = x]
    /\ \A n \in Names \ {p} : L[n] = left[n] /\ R[n] = right[n]
    /\ IF less THEN L[p] = x /\ R[p] = right[p] ELSE L[p] = left[p] /\ R[p] = x
    /\ \A n \in Names \ {x, p} : Lean(L, R, red, n)
    /\ ~RedIn(red, R[x])
    /\ red[x] /\ RedIn(red, L[x]) => less /\ ~red[p]
    /\ IF less THEN ~RedIn(red, R[p]) ELSE ~(red[p] /\ RedIn(red, L[p]))
    /\ root = label_list /\ ~red[label_list] /\ label_list \in Names
    /\ label_list' = label_list /\ nodes' = nodes

LEMMA ClimbingAscends ==
    ASSUME Typed, Ascend, NEW q, NEW x, NEW L, NEW R, NEW S, NEW B, Climbing(q, x, L, R, S, B),
           NEW p, NEW less, AscendsAt(q, p, x, less), NEW root, root = path[1].label
    PROVE  Ascends(p, x, less, L, R, S, B, root)
<1>1. /\ q \in Nat /\ q > 0 /\ p \in Names /\ x \in Names /\ less \in BOOLEAN
      /\ label_list' = label_list /\ nodes' = nodes
      /\ \A k \in 1..q : path[k].label \in Names
  BY AscendStep
<1>2. q \in 1..q /\ 1 \in 1..q /\ q \in 1..q + 1 /\ q + 1 \in 1..q + 1 /\ q < q + 1
  BY <1>1
<1>3. p = path[q].label /\ x = path[q + 1].label /\ less = path[q].less
  BY DEF AscendsAt
<1>4. p # x
  BY <1>2, <1>3 DEF Climbing
<1>5. /\ left \in [Names -> NodeOrNull] /\ right \in [Names -> NodeOrNull]
      /\ red \in [Names -> BOOLEAN]
  BY DEF Typed, TypeOK
<1>6. x \in NodeOrNull
  BY <1>1 DEF NodeOrNull
<1>7. L = (IF less THEN [left EXCEPT ![p] = x] ELSE left)
  BY <1>1, <1>3 DEF Climbing
<1>8. R = (IF ~less THEN [right EXCEPT ![p] = x] ELSE right)
  BY <1>1, <1>3 DEF Climbing
<1>9. L \in [Names -> NodeOrNull] /\ R \in [Names -> NodeOrNull]
  BY <1>5, <1>6, <1>7, <1>8
<1>10. \A n \in Names \ {p} : L[n] = left[n] /\ R[n] = right[n]
  BY <1>5, <1>7, <1>8
<1>11. IF less THEN L[p] = x /\ R[p] = right[p] ELSE L[p] = left[p] /\ R[p] = x
  BY <1>1, <1>5, <1>7, <1>8
<1>12. /\ Rooted(L, R, S, root) /\ S[root] = nodes /\ EvenTree(L, R, red, B)
       /\ \A n \in Names \ {x, p} : Lean(L, R, red, n)
       /\ ~RedIn(red, R[x])
       /\ red[x] /\ RedIn(red, L[x]) => less /\ ~red[p]
       /\ root = label_list /\ ~red[label_list]
  BY <1>1, <1>3 DEF Climbing
<1>13. IF less THEN ~RedIn(red, R[p]) ELSE ~(red[p] /\ RedIn(red, L[p]))
  BY <1>1, <1>3 DEF Climbing
<1>14. label_list \in Names
  BY <1>1, <1>2, <1>12
<1>15. QED
  BY <1>1, <1>4, <1>5, <1>7, <1>8, <1>9, <1>10, <1>11, <1>12, <1>13, <1>14 DEF Ascends

\* The ascent ends at a black node.
LEMMA ClimbingEnd ==
    ASSUME Typed, Ascend, NEW q, NEW x, NEW L, NEW R, NEW S, NEW B, Climbing(q, x, L, R, S, B),
           ~red[x]
    PROVE  pc' = "idle" /\ \E S2, B2 : Resting(right, S2, B2, nodes)'
<1>1. PICK p, less : AscendsAt(q, p, x, less)
  BY DEF AscendsAt, Climbing
<1>2. PICK root : root = path[1].label
  OBVIOUS
<1>3. Ascends(p, x, less, L, R, S, B, root)
  BY <1>1, <1>2, ClimbingAscends
<1>4. left' = L /\ right' = R /\ red' = red
  <2>1. /\ left' = IF less THEN [left EXCEPT ![p] = x] ELSE left
        /\ right' = IF less THEN right ELSE [right EXCEPT ![p] = x]
        /\ red' = red
    BY <1>1, AscendStep
  <2>2. QED
    BY <1>3, <2>1 DEF Ascends
<1>5. Lean(L, R, red, x)
  BY <1>3 DEF Ascends, Lean
<1>6. Lean(L, R, red, p)
  BY <1>3 DEF Ascends, Lean, RedIn
<1>7. \A n \in Names : Lean(L, R, red, n)
  BY <1>3, <1>5, <1>6 DEF Ascends
<1>8. ~RedIn(red, label_list)
  BY <1>3 DEF Ascends, RedIn
<1>9. Resting(right, S, B, nodes)'
  BY <1>3, <1>4, <1>7, <1>8 DEF Ascends, Resting
<1>10. pc' = "idle"
  <2>1. ~red[path[pathp + 1].label]
    BY DEF Climbing
  <2>2. QED
    BY <2>1 DEF Ascend, EndInsertion
<1>11. QED
  BY <1>9, <1>10

\* A red left child of p without a red left child.
LEMMA ClimbingStraight ==
    ASSUME Typed, Ascend, NEW q, NEW x, NEW L, NEW R, NEW S, NEW B, Climbing(q, x, L, R, S, B), red[x],
           NEW p, NEW less, AscendsAt(q, p, x, less), less, ~RedIn(red, left[x])
    PROVE  \E y, L2, R2, S2, B2 : Climbing(q - 1, y, L2, R2, S2, B2)'
<1>1. PICK root : root = path[1].label
  OBVIOUS
<1>2. Ascends(p, x, less, L, R, S, B, root)
  BY <1>1, ClimbingAscends
<1>3. path'[q].label = p /\ left' = L /\ right' = R /\ red' = red
  <2>0. Fixes(q, p, x, less)
    BY AscendStep
  <2>1. path'[q].label = p /\ left' = [left EXCEPT ![p] = x] /\ right' = right /\ red' = red
    BY <2>0 DEF Fixes
  <2>2. QED
    BY <1>2, <2>1 DEF Ascends
<1>4. Moved(L, R, p, x, p, left', right')
  BY <1>2, <1>3 DEF Ascends, Moved
<1>5. ASSUME NEW L2, NEW R2, Relink(L, R, p, x, p, left', right', L2, R2)
      PROVE  Raised(L, R, red, root, p, x, p, L2, R2, red', S, B, nodes)
  <2>1. L2 = L /\ R2 = R
    BY <1>5 DEF Relink
  <2>2. Lean(L, R, red, x)
    BY <1>2 DEF Ascends, Lean
  <2>3. \A n \in Names \ {p} : Lean(L, R, red, n)
    BY <1>2, <2>2 DEF Ascends
  <2>4. ~RedIn(red, R[p])
    BY <1>2 DEF Ascends
  <2>5. Rooted(L, R, S, IF root = p THEN p ELSE root) /\ S[IF root = p THEN p ELSE root] = nodes
    BY <1>2 DEF Ascends
  <2>6. EvenTree(L, R, red, B)
    BY <1>2 DEF Ascends
  <2>7. QED
    BY <1>3, <2>1, <2>3, <2>4, <2>5, <2>6 DEF Raised
<1>6. \E L2, R2, S2, B2 : Climbing(q - 1, p, L2, R2, S2, B2)'
  <2>1. p = path[q].label
    BY DEF AscendsAt
  <2>2. QED
    BY <1>1, <1>3, <1>4, <1>5, <2>1, ClimbingRound
<1>7. QED
  BY <1>6

\* Two red children.
LEMMA ClimbingSplit ==
    ASSUME Typed, Ascend, NEW q, NEW x, NEW L, NEW R, NEW S, NEW B, Climbing(q, x, L, R, S, B), red[x],
           NEW p, NEW less, AscendsAt(q, p, x, less), ~less, RedIn(red, left[p])
    PROVE  \E y, L2, R2, S2, B2 : Climbing(q - 1, y, L2, R2, S2, B2)'
<1>1. PICK root, s : root = path[1].label /\ s = left[p]
  OBVIOUS
<1>2. Ascends(p, x, less, L, R, S, B, root)
  BY <1>1, ClimbingAscends
<1>3. /\ path'[q].label = p /\ left' = L /\ right' = R
      /\ red' = [red EXCEPT ![s] = FALSE, ![x] = FALSE, ![p] = TRUE]
  <2>0. Fixes(q, p, x, less)
    BY AscendStep
  <2>1. /\ path'[q].label = p /\ left' = left /\ right' = [right EXCEPT ![p] = x]
        /\ red' = [red EXCEPT ![left[p]] = FALSE, ![x] = FALSE, ![p] = TRUE]
    BY <2>0 DEF Fixes
  <2>2. QED
    BY <1>1, <1>2, <2>1 DEF Ascends
<1>4. Moved(L, R, p, x, p, left', right')
  BY <1>2, <1>3 DEF Ascends, Moved
<1>5. /\ Rooted(L, R, S, root) /\ EvenTree(L, R, red, B) /\ p \in Names /\ x \in Names /\ s \in Names
      /\ R[p] = x /\ L[p] = s /\ red[s] /\ ~red[p] /\ ~RedIn(red, R[x])
      /\ \A n \in Names \ {x, p} : Lean(L, R, red, n)
      /\ red \in [Names -> BOOLEAN]
  <2>1. s \in Names
    BY <1>1, <1>2 DEF Ascends, RedIn, NodeOrNull
  <2>2. QED
    BY <1>1, <1>2, <2>1 DEF Ascends, RedIn
<1>6. PICK C, C2 : C = red /\ C2 = red'
  OBVIOUS
<1>7. PICK B2 : /\ EvenTree(L, R, C2, B2)
                /\ ~RedIn(C2, L[p]) /\ ~RedIn(C2, R[p])
                /\ \A n \in Names \ {p} : p \notin {L[n], R[n]} => Lean(L, R, C2, n)
  <2>1. C2 = [C EXCEPT ![s] = FALSE, ![x] = FALSE, ![p] = TRUE] /\ C[x]
    BY <1>3, <1>6
  <2>2. /\ EvenTree(L, R, C, B) /\ C[s] /\ ~C[p] /\ ~RedIn(C, R[x])
        /\ \A n \in Names \ {x, p} : Lean(L, R, C, n)
    BY <1>5, <1>6
  <2>3. QED
    <3>1. Splits(L, R, S, root, C, B, p, x, s, C2)
      BY <1>5, <2>1, <2>2 DEF Splits
    <3>2. QED
      BY <3>1, Split
<1>8. ASSUME NEW L2, NEW R2, Relink(L, R, p, x, p, left', right', L2, R2)
      PROVE  Raised(L, R, red, root, p, x, p, L2, R2, red', S, B2, nodes)
  <2>1. L2 = L /\ R2 = R
    BY <1>8 DEF Relink
  <2>2. \A n \in Names \ {p, x} : red'[n] => red[n]
    BY <1>3, <1>5
  <2>3. Rooted(L, R, S, IF root = p THEN p ELSE root) /\ S[IF root = p THEN p ELSE root] = nodes
    BY <1>2 DEF Ascends
  <2>4. QED
    BY <1>6, <1>7, <2>1, <2>2, <2>3 DEF Raised
<1>9. \E L2, R2, S2, b2 : Climbing(q - 1, p, L2, R2, S2, b2)'
  <2>1. p = path[q].label
    BY DEF AscendsAt
  <2>2. QED
    BY <1>1, <1>3, <1>4, <1>8, <2>1, ClimbingRound
<1>10. QED
  BY <1>9

\* A red left child of p with a red left child.
LEMMA ClimbingRight ==
    ASSUME Typed, Ascend, NEW q, NEW x, NEW L, NEW R, NEW S, NEW B, Climbing(q, x, L, R, S, B), red[x],
           NEW p, NEW less, AscendsAt(q, p, x, less), less, RedIn(red, left[x])
    PROVE  \E y, L2, R2, S2, B2 : Climbing(q - 1, y, L2, R2, S2, B2)'
<1>1. PICK root, s : root = path[1].label /\ s = left[x]
  OBVIOUS
<1>2. Ascends(p, x, less, L, R, S, B, root)
  BY <1>1, ClimbingAscends
<1>3. /\ path'[q].label = x
      /\ left' = [left EXCEPT ![p] = right[x]] /\ right' = [right EXCEPT ![x] = p]
      /\ red' = [red EXCEPT ![s] = FALSE]
  <2>1. Fixes(q, p, x, less)
    BY AscendStep
  <2>2. QED
    BY <1>1, <2>1 DEF Fixes
<1>4. /\ Rooted(L, R, S, root) /\ EvenTree(L, R, red, B) /\ p \in Names /\ x \in Names /\ s \in Names
      /\ L[p] = x /\ L[x] = s /\ red[s] /\ ~red[p] /\ ~RedIn(red, R[x]) /\ ~RedIn(red, R[p])
      /\ \A n \in Names \ {x, p} : Lean(L, R, red, n)
      /\ red \in [Names -> BOOLEAN] /\ p # x
  <2>1. s = L[x]
    BY <1>1, <1>2 DEF Ascends
  <2>2. s \in Names
    BY <1>1, <1>2 DEF Ascends, RedIn, NodeOrNull
  <2>3. QED
    BY <1>1, <1>2, <2>1, <2>2 DEF Ascends, RedIn
<1>5. /\ left' \in [Names -> NodeOrNull] /\ right' \in [Names -> NodeOrNull]
      /\ \A n \in Names \ {p, x} : left'[n] = L[n] /\ right'[n] = R[n]
      /\ left'[p] = R[x] /\ right'[p] = R[p] /\ left'[x] = s /\ right'[x] = p
  <2>1. p \in NodeOrNull /\ right[x] \in NodeOrNull /\ right[x] = R[x]
    BY <1>2, <1>4 DEF Ascends, NodeOrNull
  <2>2. QED
    BY <1>1, <1>2, <1>3, <1>4, <2>1 DEF Ascends
<1>6. Moved(L, R, p, x, x, left', right')
  BY <1>4, <1>5 DEF Moved
<1>7. PICK C, C2, L1, R1 : C = red /\ C2 = red' /\ L1 = left' /\ R1 = right'
  OBVIOUS
<1>8. ASSUME NEW L2, NEW R2, Relink(L, R, p, x, x, left', right', L2, R2)
      PROVE  \E S2, B2 : Raised(L, R, red, root, p, x, x, L2, R2, red', S2, B2, nodes)
  <2>1. /\ L2 \in [Names -> NodeOrNull] /\ R2 \in [Names -> NodeOrNull]
        /\ Replaced(L, L2, p, x) /\ Replaced(R, R2, p, x)
        /\ L2[p] = R[x] /\ R2[p] = R[p] /\ L2[x] = s /\ R2[x] = p
    BY <1>5, <1>8 DEF Relink
  <2>2. C2 = [C EXCEPT ![s] = FALSE] /\ C[x]
    BY <1>3, <1>7
  <2>3. /\ EvenTree(L, R, C, B) /\ C[s] /\ ~C[p] /\ ~RedIn(C, R[x]) /\ ~RedIn(C, R[p])
        /\ \A n \in Names \ {x, p} : Lean(L, R, C, n)
    BY <1>4, <1>7
  <2>4. PICK top : top = IF root = p THEN x ELSE root
    OBVIOUS
  <2>5. PICK S2, B2 : /\ Rooted(L2, R2, S2, top) /\ S2[top] = S[root]
                      /\ EvenTree(L2, R2, C2, B2)
                      /\ \A n \in Names : p \notin {L[n], R[n]} => Lean(L2, R2, C2, n)
    <3>1. TurnsRight(L, R, S, root, C, B, p, x, s, L2, R2, C2, top)
      BY <1>4, <2>1, <2>2, <2>3, <2>4 DEF TurnsRight
    <3>2. QED
      BY <3>1, TurnRight
  <2>6. /\ ~C2[s] /\ (C2[p] => C[p]) /\ \A n \in Names \ {p, x} : C2[n] => C[n]
    BY <1>4, <1>7, <2>2
  <2>7. ~RedIn(C2, R2[x]) /\ ~RedIn(C2, L2[x])
    BY <2>1, <2>3, <2>6 DEF RedIn
  <2>8. S[root] = nodes
    BY <1>2 DEF Ascends
  <2>9. Raised(L, R, C, root, p, x, x, L2, R2, C2, S2, B2, nodes)
    BY <2>4, <2>5, <2>6, <2>7, <2>8 DEF Raised
  <2>10. QED
    BY <1>7, <2>9
<1>9. \E L2, R2, S2, B2 : Climbing(q - 1, x, L2, R2, S2, B2)'
  <2>1. p = path[q].label
    BY DEF AscendsAt
  <2>2. QED
    BY <1>1, <1>3, <1>6, <1>8, <2>1, ClimbingRound
<1>10. QED
  BY <1>9

\* A red right child of p, and no red left child.
LEMMA ClimbingLeft ==
    ASSUME Typed, Ascend, NEW q, NEW x, NEW L, NEW R, NEW S, NEW B, Climbing(q, x, L, R, S, B), red[x],
           NEW p, NEW less, AscendsAt(q, p, x, less), ~less, ~RedIn(red, left[p])
    PROVE  \E y, L2, R2, S2, B2 : Climbing(q - 1, y, L2, R2, S2, B2)'
<1>1. PICK root : root = path[1].label
  OBVIOUS
<1>2. Ascends(p, x, less, L, R, S, B, root)
  BY <1>1, ClimbingAscends
<1>3. /\ path'[q].label = x
      /\ left' = [left EXCEPT ![x] = p] /\ right' = [right EXCEPT ![p] = left[x]]
      /\ red' = [red EXCEPT ![x] = red[p], ![p] = TRUE]
  <2>1. Fixes(q, p, x, less)
    BY AscendStep
  <2>2. QED
    BY <2>1 DEF Fixes
<1>4. /\ Rooted(L, R, S, root) /\ EvenTree(L, R, red, B) /\ p \in Names /\ x \in Names
      /\ R[p] = x /\ ~RedIn(red, L[p]) /\ ~RedIn(red, L[x]) /\ ~RedIn(red, R[x])
      /\ \A n \in Names \ {x, p} : Lean(L, R, red, n)
      /\ red \in [Names -> BOOLEAN] /\ p # x
  <2>1. L[p] = left[p]
    BY <1>2 DEF Ascends
  <2>2. QED
    BY <1>1, <1>2, <2>1 DEF Ascends
<1>5. /\ left' \in [Names -> NodeOrNull] /\ right' \in [Names -> NodeOrNull]
      /\ \A n \in Names \ {p, x} : left'[n] = L[n] /\ right'[n] = R[n]
      /\ left'[p] = L[p] /\ right'[p] = L[x] /\ left'[x] = p /\ right'[x] = R[x]
  <2>1. p \in NodeOrNull /\ left[x] \in NodeOrNull /\ left[x] = L[x]
    BY <1>2, <1>4 DEF Ascends, NodeOrNull
  <2>2. QED
    BY <1>1, <1>2, <1>3, <1>4, <2>1 DEF Ascends
<1>6. Moved(L, R, p, x, x, left', right')
  BY <1>4, <1>5 DEF Moved
<1>7. PICK C, C2 : C = red /\ C2 = red'
  OBVIOUS
<1>8. ASSUME NEW L2, NEW R2, Relink(L, R, p, x, x, left', right', L2, R2)
      PROVE  \E S2, B2 : Raised(L, R, red, root, p, x, x, L2, R2, red', S2, B2, nodes)
  <2>1. /\ L2 \in [Names -> NodeOrNull] /\ R2 \in [Names -> NodeOrNull]
        /\ Replaced(L, L2, p, x) /\ Replaced(R, R2, p, x)
        /\ L2[p] = L[p] /\ R2[p] = L[x] /\ L2[x] = p /\ R2[x] = R[x]
    BY <1>5, <1>8 DEF Relink
  <2>2. C2 = [C EXCEPT ![x] = C[p], ![p] = TRUE] /\ C[x]
    BY <1>3, <1>7
  <2>3. /\ EvenTree(L, R, C, B) /\ ~RedIn(C, L[p]) /\ ~RedIn(C, L[x]) /\ ~RedIn(C, R[x])
        /\ \A n \in Names \ {x, p} : Lean(L, R, C, n)
    BY <1>4, <1>7
  <2>4. PICK top : top = IF root = p THEN x ELSE root
    OBVIOUS
  <2>5. PICK S2, B2 : /\ Rooted(L2, R2, S2, top) /\ S2[top] = S[root]
                      /\ EvenTree(L2, R2, C2, B2)
                      /\ ~RedIn(C2, R2[x])
                      /\ \A n \in Names \ {x} : p \notin {L[n], R[n]} => Lean(L2, R2, C2, n)
    <3>1. TurnsLeft(L, R, S, root, C, B, p, x, L2, R2, C2, top)
      BY <1>4, <2>1, <2>2, <2>3, <2>4 DEF TurnsLeft
    <3>2. QED
      BY <3>1, TurnLeft
  <2>6. /\ (C2[x] <=> C[p]) /\ \A n \in Names \ {p, x} : C2[n] => C[n]
    BY <1>4, <1>7, <2>2
  <2>7. S[root] = nodes
    BY <1>2 DEF Ascends
  <2>8. Raised(L, R, C, root, p, x, x, L2, R2, C2, S2, B2, nodes)
    BY <2>4, <2>5, <2>6, <2>7 DEF Raised
  <2>9. QED
    BY <1>7, <2>8
<1>9. \E L2, R2, S2, B2 : Climbing(q - 1, x, L2, R2, S2, B2)'
  <2>1. p = path[q].label
    BY DEF AscendsAt
  <2>2. QED
    BY <1>1, <1>3, <1>6, <1>8, <2>1, ClimbingRound
<1>10. QED
  BY <1>9

LEMMA ClimbingAscend ==
    ASSUME Typed, Ascend, NEW q, NEW x, NEW L, NEW R, NEW S, NEW B, Climbing(q, x, L, R, S, B)
    PROVE  \/ pc' = "idle" /\ \E S2, B2 : Resting(right, S2, B2, nodes)'
           \/ pc' = "ascend" /\ \E y, L2, R2, S2, B2 : Climbing(q - 1, y, L2, R2, S2, B2)'
<1>1. PICK p, less : AscendsAt(q, p, x, less)
  BY DEF AscendsAt, Climbing
<1>2. CASE ~red[x]
  BY <1>2, ClimbingEnd
<1>3. CASE red[x]
  <2>1. less \in BOOLEAN /\ pc' = "ascend"
    BY <1>1, <1>3, AscendStep
  <2>2. CASE less /\ ~RedIn(red, left[x])
    BY <1>1, <1>3, <2>1, <2>2, ClimbingStraight
  <2>3. CASE less /\ RedIn(red, left[x])
    BY <1>1, <1>3, <2>1, <2>3, ClimbingRight
  <2>4. CASE ~less /\ RedIn(red, left[p])
    BY <1>1, <1>3, <2>1, <2>4, ClimbingSplit
  <2>5. CASE ~less /\ ~RedIn(red, left[p])
    BY <1>1, <1>3, <2>1, <2>5, ClimbingLeft
  <2>6. QED
    BY <2>2, <2>3, <2>4, <2>5
<1>4. QED
  BY <1>2, <1>3

-----------------------------------------------------------------------------
(* Threads.  The last name in the left subtree of a leads back to a, for all a *)
(* in A; all other links are those of the tree.                                *)

Last(L, S, a, n) == n \in S[L[a]] /\ \A m \in S[L[a]] : m <= n

Threaded(R, L, br, S, A) ==
    /\ R \in [Names -> NodeOrNull] /\ A \subseteq Names
    /\ \A a \in A : \A n \in S[L[a]] : Last(L, S, a, n) => R[n] = a
    /\ \A n \in Names : R[n] = br[n] \/ (R[n] \in A /\ Last(L, S, R[n], n))

LEMMA LastEnds ==
    ASSUME NEW L, NEW R, NEW S, NEW root, Rooted(L, R, S, root), NEW a \in Names, NEW n, Last(L, S, a, n)
    PROVE  /\ R[n] = Null /\ n \in Names /\ n \in S[root] /\ a \in Above(L, S, n) /\ a \in S[root]
           /\ \A b \in Names : Last(L, S, b, n) => b = a
<1>1. a \in Above(L, S, n) /\ \A m \in S[L[a]] : m <= n
  BY DEF Last, Above
<1>2. /\ n \in Names /\ n \in S[root] /\ a \in S[root] /\ n \in S[L[a]]
      /\ IsTree(L, R, S) /\ L[a] \in NodeOrNull /\ n \in Int
  <2>1. n \in Names /\ n \in S[root] /\ a \in S[root] /\ n \in S[L[a]]
    BY <1>1, AboveIsInside
  <2>2. IsTree(L, R, S)
    BY DEF Rooted
  <2>3. QED
    BY <2>1, <2>2, TreeSteps
<1>3. R[n] = Null
  <2>1. SUFFICES ASSUME R[n] # Null PROVE FALSE
    OBVIOUS
  <2>2. PICK r : r = R[n]
    OBVIOUS
  <2>3. r \in S[r] /\ n < r /\ r \in Int /\ r \in S[n]
    BY <1>2, <2>1, <2>2, TreeSteps
  <2>4. r \in S[L[a]]
    BY <1>2, <2>3, Down
  <2>5. QED
    BY <1>1, <1>2, <2>3, <2>4
<1>4. ASSUME NEW b \in Names, Last(L, S, b, n) PROVE b = a
  <2>1. b \in Above(L, S, n) /\ \A m \in S[L[b]] : m <= n
    BY <1>4 DEF Last, Above
  <2>2. a <= b
    BY <1>1, <2>1, AboveLast
  <2>3. b <= a
    BY <1>1, <2>1, AboveLast
  <2>4. QED
    BY <2>2, <2>3, NamesAreNumbers
<1>5. QED
  BY <1>1, <1>2, <1>3, <1>4

LEMMA ThreadAdded ==
    ASSUME NEW L, NEW br, NEW S, NEW root, Rooted(L, br, S, root), NEW R, NEW A, Threaded(R, L, br, S, A),
           NEW a \in Names, NEW n, Last(L, S, a, n)
    PROVE  Threaded([R EXCEPT ![n] = a], L, br, S, A \cup {a})
<1>1. n \in Names /\ a \in NodeOrNull /\ \A b \in Names : Last(L, S, b, n) => b = a
  BY LastEnds DEF NodeOrNull
<1> DEFINE R2 == [R EXCEPT ![n] = a]
<1>2. /\ R2 \in [Names -> NodeOrNull] /\ R2[n] = a /\ \A m \in Names : m # n => R2[m] = R[m]
      /\ A \subseteq Names
  BY <1>1 DEF Threaded
<1> HIDE DEF R2
<1>3. ASSUME NEW b \in A \cup {a}, NEW m \in S[L[b]], Last(L, S, b, m)
      PROVE  R2[m] = b
  <2>1. CASE m = n
    BY <1>1, <1>2, <1>3, <2>1
  <2>2. CASE m # n
    <3>1. b \in Names /\ m \in Names
      BY <1>2, <1>3, LastEnds
    <3>2. b # a
      <4>1. SUFFICES ASSUME b = a PROVE FALSE
        OBVIOUS
      <4>2. m <= n /\ n <= m
        BY <1>3, <4>1 DEF Last
      <4>3. QED
        BY <1>1, <2>2, <3>1, <4>2, NamesAreNumbers
    <3>3. R[m] = b
      BY <1>3, <3>2 DEF Threaded
    <3>4. QED
      BY <1>2, <2>2, <3>1, <3>3
  <2>3. QED
    BY <2>1, <2>2
<1>4. ASSUME NEW m \in Names
      PROVE  R2[m] = br[m] \/ (R2[m] \in A \cup {a} /\ Last(L, S, R2[m], m))
  <2>1. R[m] = br[m] \/ (R[m] \in A /\ Last(L, S, R[m], m))
    BY DEF Threaded
  <2>2. QED
    BY <1>2, <2>1
<1>5. Threaded(R2, L, br, S, A \cup {a})
  BY <1>2, <1>3, <1>4 DEF Threaded
<1>6. QED
  BY <1>5 DEF R2

LEMMA ThreadRemoved ==
    ASSUME NEW L, NEW br, NEW S, NEW root, Rooted(L, br, S, root), NEW R, NEW A, Threaded(R, L, br, S, A),
           NEW a \in A, NEW n, Last(L, S, a, n)
    PROVE  Threaded([R EXCEPT ![n] = Null], L, br, S, A \ {a})
<1>1. a \in Names /\ A \subseteq Names
  BY DEF Threaded
<1>2. n \in Names /\ br[n] = Null /\ \A b \in Names : Last(L, S, b, n) => b = a
  BY <1>1, LastEnds
<1> DEFINE R2 == [R EXCEPT ![n] = Null]
<1>3. /\ R2 \in [Names -> NodeOrNull] /\ R2[n] = Null /\ \A m \in Names : m # n => R2[m] = R[m]
  BY <1>1, <1>2 DEF Threaded, NodeOrNull
<1> HIDE DEF R2
<1>4. ASSUME NEW b \in A \ {a}, NEW m \in S[L[b]], Last(L, S, b, m)
      PROVE  R2[m] = b
  <2>1. b \in Names
    BY <1>1
  <2>2. m # n /\ m \in Names
    BY <1>2, <1>4, <2>1, LastEnds
  <2>3. R[m] = b
    BY <1>4 DEF Threaded
  <2>4. QED
    BY <1>3, <2>2, <2>3
<1>5. ASSUME NEW m \in Names
      PROVE  R2[m] = br[m] \/ (R2[m] \in A \ {a} /\ Last(L, S, R2[m], m))
  <2>1. R[m] = br[m] \/ (R[m] \in A /\ Last(L, S, R[m], m))
    BY DEF Threaded
  <2>2. CASE m = n
    BY <1>2, <1>3, <2>2
  <2>3. CASE m # n
    <3>1. ASSUME R[m] \in A, Last(L, S, R[m], m) PROVE R[m] # a
      <4>1. SUFFICES ASSUME R[m] = a PROVE FALSE
        OBVIOUS
      <4>2. m \in S[L[a]] /\ n \in S[L[a]] /\ m <= n /\ n <= m
        BY <3>1, <4>1 DEF Last
      <4>3. QED
        BY <1>2, <2>3, <4>2, NamesAreNumbers
    <3>2. QED
      BY <1>3, <2>1, <2>3, <3>1
  <2>4. QED
    BY <2>2, <2>3
<1>6. Threaded(R2, L, br, S, A \ {a})
  BY <1>1, <1>3, <1>4, <1>5 DEF Threaded
<1>7. QED
  BY <1>6 DEF R2

\* The traversal has come to the node r, before or behind its left subtree, and has
\* visited the names in V.
Reached(L, S, N, r, A, V) ==
    IF r = Null THEN A = {} /\ V = N
    ELSE /\ r \in N
         /\ \/ A = Above(L, S, r) /\ V = {m \in N : \A k \in S[r] : m < k}
            \/ A = Above(L, S, r) \cup {r} /\ L[r] # Null /\ V = {m \in N : m < r}

\* The link to the right of a visited node leads onward.
LEMMA Onward ==
    ASSUME NEW L, NEW br, NEW S, NEW root, Rooted(L, br, S, root), NEW n \in S[root], NEW R,
           Threaded(R, L, br, S, Above(L, S, n))
    PROVE  Reached(L, S, S[root], R[n], Above(L, S, n), {m \in S[root] : m <= n})
<1>1. /\ IsTree(L, br, S) /\ root \in NodeOrNull /\ n \in Names /\ n \in Int /\ br[n] \in NodeOrNull
      /\ S[root] \subseteq Names
  <2>1. IsTree(L, br, S) /\ root \in NodeOrNull
    BY DEF Rooted
  <2>2. n \in Names /\ S[root] \subseteq Names
    BY <2>1, Down
  <2>3. QED
    BY <2>1, <2>2, TreeSteps
<1>2. CASE br[n] # Null
  <2>1. PICK r : r = br[n]
    OBVIOUS
  <2>2. /\ r \in Names /\ r \in S[r] /\ r \in S[n] /\ n < r /\ \A m \in S[r] : n < m /\ m \in Int
    BY <1>1, <1>2, <2>1, TreeSteps
  <2>3. r \in S[root]
    BY <1>1, <2>2, Down
  <2>4. Above(L, S, n) = Above(L, S, r)
    BY <1>1, <1>2, <2>1, AboveChild
  <2>5. R[n] = r
    <3>1. \A a \in Names : ~Last(L, S, a, n)
      BY <1>2, LastEnds
    <3>2. QED
      BY <1>1, <2>1, <3>1 DEF Threaded
  <2>6. ASSUME NEW m \in S[root]
        PROVE  m <= n <=> \A k \in S[r] : m < k
    <3>1. m \in Int
      BY <1>1, NamesAreNumbers
    <3>2. ASSUME m <= n PROVE \A k \in S[r] : m < k
      BY <1>1, <2>2, <3>1, <3>2
    <3>3. ASSUME \A k \in S[r] : m < k, n < m PROVE FALSE
      <4>1. m \in S[br[n]] \/ \A k \in S[n] : k < m
        BY <1>1, <3>3, Sides
      <4>2. QED
        BY <2>1, <2>2, <3>1, <3>3, <4>1
    <3>4. QED
      BY <1>1, <3>1, <3>2, <3>3
  <2>7. {m \in S[root] : m <= n} = {m \in S[root] : \A k \in S[r] : m < k}
    BY <2>6
  <2>8. QED
    BY <2>2, <2>3, <2>4, <2>5, <2>7, NamesAreNumbers DEF Reached
<1>3. CASE br[n] = Null /\ Above(L, S, n) = {}
  <2>1. R[n] = Null
    BY <1>1, <1>3 DEF Threaded
  <2>2. \A m \in S[root] : m <= n
    BY <1>3, Successor
  <2>3. QED
    BY <1>3, <2>1, <2>2 DEF Reached
<1>4. CASE br[n] = Null /\ Above(L, S, n) # {}
  <2>1. PICK a \in Above(L, S, n) : \A m \in S[L[a]] : m <= n
    BY <1>4, Successor
  <2>2. /\ a \in S[root] /\ a \in Names /\ n < a /\ n \in S[L[a]] /\ n \in S[a] /\ L[a] # Null
        /\ a \in Int
    BY ZenonT(60), <2>1, AboveIsInside, NamesAreNumbers
  <2>3. R[n] = a
    BY <2>1, <2>2 DEF Threaded, Last
  <2>4. Above(L, S, n) = Above(L, S, a) \cup {a}
    BY <2>1, AboveLast
  <2>5. ASSUME NEW m \in S[root]
        PROVE  m <= n <=> m < a
    <3>1. m \in Int
      BY <1>1, NamesAreNumbers
    <3>2. ASSUME m < a PROVE m <= n
      <4>1. m \in S[L[a]] \/ \A k \in S[a] : m < k
        BY <1>1, <2>2, <3>2, Sides
      <4>2. QED
        BY <1>1, <2>1, <2>2, <3>1, <4>1
    <3>3. QED
      BY <1>1, <2>2, <3>1, <3>2
  <2>6. {m \in S[root] : m <= n} = {m \in S[root] : m < a}
    BY <2>5
  <2>7. QED
    BY <2>2, <2>3, <2>4, <2>6, NamesAreNumbers DEF Reached
<1>5. QED
  BY <1>2, <1>3, <1>4

-----------------------------------------------------------------------------
(* The traversal.  br is right without the threads, V the visited names. *)

Walking(br, S, B, A, V) ==
    /\ pc = "walk"
    /\ Resting(br, S, B, nodes)
    /\ Threaded(right, left, br, S, A)
    /\ Reached(left, S, nodes, node, A, V)
    /\ pre # Null => pre \in S[left[node]] /\ \A k \in S[left[node]] : pre < k => k \in S[br[pre]]

\* The label of a visited macro is looked for.
Visiting(br, S, B, V) ==
    /\ pc = "search" /\ task # "none"
    /\ Resting(br, S, B, nodes)
    /\ node \in nodes /\ V = {m \in nodes : m <= node}
    /\ Threaded(right, left, br, S, Above(left, S, node))

LEMMA WalkingStart ==
    ASSUME Typed, NEW S, NEW B, Resting(right, S, B, nodes), StartTraversal
    PROVE  Walking(right, S, B, {}, {})'
<1>1. /\ label_list' = label_list /\ nodes' = nodes /\ left' = left /\ right' = right /\ red' = red
      /\ node' = label_list /\ pre' = Null /\ pc' = "walk"
  BY DEF StartTraversal, treeVars
<1>2. /\ Rooted(left, right, S, label_list) /\ S[label_list] = nodes
      /\ IsTree(left, right, S) /\ label_list \in NodeOrNull /\ right \in [Names -> NodeOrNull]
  BY DEF Resting, Rooted, IsTree
<1>3. Threaded(right, left, right, S, {})
  BY <1>2 DEF Threaded
<1>4. Reached(left, S, nodes, label_list, {}, {})
  <2>1. CASE label_list = Null
    <3>1. nodes = {}
      BY <1>2, <2>1 DEF IsTree
    <3>2. QED
      BY <2>1, <3>1 DEF Reached
  <2>2. CASE label_list # Null
    <3>1. label_list \in nodes
      BY <1>2, <2>2, TreeSteps DEF NodeOrNull
    <3>2. Above(left, S, label_list) = {}
      BY <1>2, AboveRoot
    <3>3. {m \in nodes : \A k \in S[label_list] : m < k} = {}
      <4>1. \A m \in nodes : m \in Int
        BY NamesAreNumbers DEF Typed, TypeOK
      <4>2. QED
        BY <1>2, <4>1
    <3>4. QED
      BY <2>2, <3>1, <3>2, <3>3 DEF Reached
  <2>3. QED
    BY <2>1, <2>2
<1>5. Resting(right, S, B, nodes)'
  BY <1>1 DEF Resting
<1>6. QED
  BY <1>1, <1>3, <1>4, <1>5 DEF Walking

LEMMA WalkingKeepsRight ==
    ASSUME NEW br, NEW S, NEW B, NEW A, NEW V, Walking(br, S, B, A, V),
           UNCHANGED <<treeVars, node, pc>>, pre' = Null \/ pre' \in S[left[node]],
           pre' # Null => \A k \in S[left[node]] : pre' < k => k \in S[br[pre']]
    PROVE  Walking(br, S, B, A, V)'
<1>1. /\ label_list' = label_list /\ nodes' = nodes /\ left' = left /\ right' = right /\ red' = red
      /\ node' = node /\ pc' = pc
  BY DEF treeVars
<1>2. Resting(br, S, B, nodes)'
  BY <1>1 DEF Walking, Resting
<1>3. QED
  BY <1>1, <1>2 DEF Walking

LEMMA WalkingStartPredecessor ==
    ASSUME Typed, NEW br, NEW S, NEW B, NEW A, NEW V, Walking(br, S, B, A, V), StartPredecessor
    PROVE  Walking(br, S, B, A, V)'
<1>1. /\ IsTree(left, br, S) /\ node \in nodes /\ node \in Names
  BY DEF Walking, Resting, Rooted, StartPredecessor, Reached, Typed, TypeOK
<1>2. PICK p : p = left[node]
  OBVIOUS
<1>3. p # Null /\ pre' = p /\ p \in Names /\ p \in S[left[node]]
  BY <1>1, <1>2, TreeSteps DEF StartPredecessor
<1>4. \A k \in S[left[node]] : p < k => k \in S[br[p]]
  <2>1. /\ S[p] = {p} \cup S[left[p]] \cup S[br[p]] /\ p \in Int
        /\ \A k \in S[left[p]] : k < p /\ k \in Int
    BY <1>1, <1>3, TreeSteps
  <2>2. QED
    BY <1>2, <2>1
<1>5. UNCHANGED <<treeVars, node, pc>>
  BY DEF StartPredecessor
<1>6. QED
  BY <1>3, <1>4, <1>5, WalkingKeepsRight

LEMMA WalkingPredecessor ==
    ASSUME Typed, NEW br, NEW S, NEW B, NEW A, NEW V, Walking(br, S, B, A, V), Predecessor
    PROVE  Walking(br, S, B, A, V)'
<1>1. /\ IsTree(left, br, S) /\ node \in nodes /\ node \in Names /\ Rooted(left, br, S, label_list)
      /\ node # Null /\ pre \in S[left[node]] /\ pre \in Names /\ left[node] \in NodeOrNull
      /\ \A k \in S[left[node]] : pre < k => k \in S[br[pre]]
      /\ A \subseteq Above(left, S, node) \cup {node}
  <2>1. /\ IsTree(left, br, S) /\ Rooted(left, br, S, label_list)
        /\ pre \in S[left[node]] /\ \A k \in S[left[node]] : pre < k => k \in S[br[pre]]
    BY DEF Walking, Resting, Rooted, Predecessor
  <2>2. node # Null
    BY DEF Typed, Control, Predecessor
  <2>3. node \in nodes /\ node \in Names /\ A \subseteq Above(left, S, node) \cup {node}
    BY <2>2 DEF Walking, Reached, Typed, TypeOK
  <2>4. left[node] \in NodeOrNull
    BY <2>1, <2>3, TreeSteps
  <2>5. pre \in Names
    BY <2>1, <2>4, Down
  <2>6. QED
    BY <2>1, <2>2, <2>3, <2>4, <2>5
<1>2. PICK p : p = right[pre]
  OBVIOUS
<1>3. p # Null /\ p # node /\ pre' = p
  BY <1>2 DEF Predecessor
<1>4. p = br[pre]
  <2>1. p = br[pre] \/ (p \in A /\ Last(left, S, p, pre))
    BY <1>1, <1>2 DEF Walking, Threaded
  <2>2. ASSUME p \in A, Last(left, S, p, pre) PROVE FALSE
    <3>1. p \in Above(left, S, node)
      BY <1>1, <1>3, <2>2
    <3>2. node \in S[left[p]]
      BY <3>1 DEF Above
    <3>3. node <= pre
      BY <2>2, <3>2 DEF Last
    <3>4. pre < node /\ pre \in Int /\ node \in Int
      BY <1>1, TreeSteps
    <3>5. QED
      BY <3>3, <3>4
  <2>3. QED
    BY <2>1, <2>2
<1>5. /\ p \in Names /\ p \in S[pre] /\ pre < p /\ pre \in Int /\ p \in Int
      /\ S[p] = {p} \cup S[left[p]] \cup S[br[p]]
      /\ \A k \in S[left[p]] : k < p /\ k \in Int
      /\ \A k \in S[p] : pre < k
  <2>1. p \in Names /\ p \in S[pre] /\ pre < p /\ pre \in Int /\ p \in Int /\ \A k \in S[p] : pre < k
    BY <1>1, <1>3, <1>4, TreeSteps
  <2>2. QED
    BY <1>1, <2>1, TreeSteps
<1>6. p \in S[left[node]]
  BY <1>1, <1>5, Down
<1>7. ASSUME NEW k \in S[left[node]], p < k PROVE k \in S[br[p]]
  <2>1. k \in Int
    BY <1>1, TreeSteps
  <2>2. k \in S[p]
    BY <1>1, <1>4, <1>5, <1>7, <2>1
  <2>3. QED
    BY <1>5, <1>7, <2>1, <2>2
<1>8. UNCHANGED <<treeVars, node, pc>>
  BY DEF Predecessor
<1>9. QED
  BY <1>3, <1>6, <1>7, <1>8, WalkingKeepsRight

LEMMA WalkingThread ==
    ASSUME Typed, NEW br, NEW S, NEW B, NEW A, NEW V, Walking(br, S, B, A, V), Thread
    PROVE  \E A2 : Walking(br, S, B, A2, V)'
<1>1. /\ IsTree(left, br, S) /\ Rooted(left, br, S, label_list) /\ label_list \in NodeOrNull
      /\ S[label_list] = nodes /\ nodes \subseteq Names
      /\ node # Null /\ node \in nodes /\ node \in Names
      /\ pre \in S[left[node]] /\ \A k \in S[left[node]] : pre < k => k \in S[br[pre]]
      /\ S[Null] = {} /\ right[pre] = Null
  <2>1. node # Null
    BY DEF Typed, Control, Thread
  <2>2. /\ IsTree(left, br, S) /\ Rooted(left, br, S, label_list) /\ S[label_list] = nodes
        /\ label_list \in NodeOrNull
        /\ pre \in S[left[node]] /\ \A k \in S[left[node]] : pre < k => k \in S[br[pre]]
        /\ right[pre] = Null
    BY DEF Walking, Resting, Rooted, Thread
  <2>3. node \in nodes /\ nodes \subseteq Names
    BY <2>1 DEF Walking, Reached, Typed, TypeOK
  <2>4. QED
    BY <2>1, <2>2, <2>3 DEF IsTree
<1>2. PICK l, A2 : l = left[node] /\ A2 = A \cup {node}
  OBVIOUS
<1>3. /\ l \in NodeOrNull /\ node \in Int /\ pre \in Names /\ pre \in Int
      /\ \A m \in S[l] : m < node /\ m \in Int
      /\ S[node] = {node} \cup S[l] \cup S[br[node]]
      /\ \A m \in S[br[node]] : node < m /\ m \in Int
      /\ l # Null /\ l \in Names /\ l \in S[l] /\ l < node
  <2>1. /\ l \in NodeOrNull /\ node \in Int
        /\ \A m \in S[l] : m < node /\ m \in Int
        /\ S[node] = {node} \cup S[l] \cup S[br[node]]
        /\ \A m \in S[br[node]] : node < m /\ m \in Int
    BY <1>1, <1>2, TreeSteps
  <2>2. l # Null /\ pre \in Names
    BY <1>1, <1>2, <2>1, Down
  <2>3. l \in Names /\ l \in S[l]
    BY <1>1, <1>2, <2>2, TreeSteps
  <2>4. QED
    BY <2>1, <2>2, <2>3, NamesAreNumbers
<1>4. br[pre] = Null /\ \A a \in A : ~Last(left, S, a, pre)
  <2>1. A \subseteq Names /\ (br[pre] = right[pre] \/ right[pre] \in A)
    BY <1>3 DEF Walking, Threaded
  <2>2. \A a \in A : Last(left, S, a, pre) => right[pre] = a
    <3>1. \A a \in A : Last(left, S, a, pre) => pre \in S[left[a]]
      BY DEF Last
    <3>2. QED
      BY <3>1 DEF Walking, Threaded
  <2>3. QED
    BY <1>1, <2>1, <2>2, NamesAreNumbers
<1>5. Last(left, S, node, pre)
  BY <1>1, <1>2, <1>3, <1>4 DEF Last
<1>6. A = Above(left, S, node) /\ V = {m \in nodes : \A k \in S[node] : m < k}
  <2>1. node \notin A
    BY <1>4, <1>5
  <2>2. QED
    BY <1>1, <2>1 DEF Walking, Reached
<1>7. Threaded([right EXCEPT ![pre] = node], left, br, S, A2)
  <2>1. PICK r, L, n, p : r = right /\ L = left /\ n = node /\ p = pre
    OBVIOUS
  <2>2. Threaded(r, L, br, S, A) /\ Rooted(L, br, S, label_list) /\ n \in Names /\ Last(L, S, n, p)
    BY <1>1, <1>5, <2>1 DEF Walking
  <2>3. Threaded([r EXCEPT ![p] = n], L, br, S, A \cup {n})
    BY <2>2, ThreadAdded
  <2>4. QED
    BY <1>2, <2>1, <2>3
<1>8. A2 = Above(left, S, l)
  <2>1. Above(left, S, l) = Above(left, S, node) \cup {node}
    BY <1>1, <1>2, <1>3, AboveChild
  <2>2. QED
    BY <1>2, <1>6, <2>1
<1>9. ASSUME NEW m \in nodes
      PROVE  (\A k \in S[node] : m < k) <=> (\A k \in S[l] : m < k)
  <2>1. m \in Int
    BY <1>1, NamesAreNumbers
  <2>2. ASSUME \A k \in S[l] : m < k PROVE \A k \in S[node] : m < k
    <3>1. m < node
      BY <1>3, <2>1, <2>2
    <3>2. m \in S[l] \/ \A k \in S[node] : m < k
      BY <1>1, <1>2, <3>1, Sides
    <3>3. QED
      BY <2>1, <2>2, <3>2
  <2>3. QED
    BY <1>3, <2>2
<1>10. l \in nodes
  <2>1. S[node] \subseteq nodes
    BY <1>1, Down
  <2>2. QED
    BY <1>3, <2>1
<1>11. Reached(left, S, nodes, l, A2, V)
  <2>1. V = {m \in nodes : \A k \in S[l] : m < k}
    BY <1>6, <1>9
  <2>2. QED
    BY <1>3, <1>8, <1>10, <2>1 DEF Reached
<1>12. /\ label_list' = label_list /\ nodes' = nodes /\ left' = left /\ red' = red
       /\ right' = [right EXCEPT ![pre] = node] /\ node' = l /\ pre' = Null /\ pc' = "walk"
  BY <1>2 DEF Thread
<1>13. Resting(br, S, B, nodes)'
  BY <1>12 DEF Walking, Resting
<1>14. Walking(br, S, B, A2, V)'
  BY <1>7, <1>11, <1>12, <1>13 DEF Walking
<1>15. QED
  BY <1>14

\* After a visit the traversal goes on, unless there is a label to be found.
LEMMA Visited ==
    ASSUME Typed, pc = "walk", node # Null, NEW br, NEW S, NEW B, Resting(br, S, B, nodes),
           UNCHANGED <<label_list, nodes, left, red, task>>, pre' = Null,
           Threaded(right', left, br, S, Above(left, S, node)), node \in nodes,
           Visit, NEW V, V = {m \in nodes : m <= node}
    PROVE  (\E A : Walking(br, S, B, A, V)') \/ Visiting(br, S, B, V)'
<1>1. /\ label_list' = label_list /\ nodes' = nodes /\ left' = left /\ red' = red /\ task' = task
      /\ task # "none"
  BY DEF Typed, Control
<1>2. Resting(br, S, B, nodes)'
  BY <1>1 DEF Resting
<1>3. PICK n, A : n = node /\ A = Above(left, S, node)
  OBVIOUS
<1>4. CASE node' = right'[node] /\ UNCHANGED <<pc, name, explore, milestone>>
  <2>1. Reached(left, S, nodes, right'[n], A, V)
    <3>1. PICK L, r, root : L = left /\ r = right' /\ root = label_list
      OBVIOUS
    <3>2. /\ Rooted(L, br, S, root) /\ S[root] = nodes /\ n \in S[root]
          /\ Threaded(r, L, br, S, Above(L, S, n))
      BY <1>3, <3>1 DEF Resting
    <3>3. Reached(L, S, S[root], r[n], Above(L, S, n), {m \in S[root] : m <= n})
      BY <3>2, Onward
    <3>4. QED
      BY <1>3, <3>1, <3>2, <3>3
  <2>2. Threaded(right', left', br, S, A)
    BY <1>1, <1>3
  <2>3. Reached(left', S, nodes', node', A, V)
    BY <1>1, <1>3, <1>4, <2>1
  <2>4. Walking(br, S, B, A, V)'
    BY <1>2, <1>4, <2>2, <2>3 DEF Walking
  <2>5. QED
    BY <2>4
<1>5. CASE UNCHANGED node /\ pc' = "search"
  <2>1. V = {m \in nodes' : m <= node'} /\ node' \in nodes'
    BY <1>1, <1>3, <1>5
  <2>2. Threaded(right', left', br, S, Above(left', S, node'))
    BY <1>1, <1>5
  <2>3. Visiting(br, S, B, V)'
    BY <1>1, <1>2, <1>5, <2>1, <2>2 DEF Visiting
  <2>4. QED
    BY <2>3
<1>6. QED
  BY <1>4, <1>5 DEF Visit, BeginSearch

LEMMA AndItself ==
    ASSUME NEW N, N \subseteq Int, NEW n \in N
    PROVE  {m \in N : m < n} \cup {n} = {m \in N : m <= n}
<1>1. ASSUME NEW m \in N PROVE m <= n <=> m < n \/ m = n
  BY <1>1
<1>2. QED
  BY <1>1, Zenon

LEMMA WalkingVisitLeftmost ==
    ASSUME Typed, NEW br, NEW S, NEW B, NEW A, NEW V, Walking(br, S, B, A, V), VisitLeftmost,
           NEW V2, V2 = V \cup {node}
    PROVE  /\ node \in nodes /\ node \notin V /\ \A m \in V : m < node
           /\ (\E A2 : Walking(br, S, B, A2, V2)') \/ Visiting(br, S, B, V2)'
<1>1. /\ IsTree(left, br, S) /\ Rooted(left, br, S, label_list) /\ label_list \in NodeOrNull
      /\ S[label_list] = nodes /\ nodes \subseteq Names
      /\ node # Null /\ node \in nodes /\ node \in Names /\ left[node] = Null
      /\ S[Null] = {} /\ Resting(br, S, B, nodes)
      /\ A = Above(left, S, node) /\ V = {m \in nodes : \A k \in S[node] : m < k}
      /\ Threaded(right, left, br, S, A) /\ pc = "walk"
  BY DEF Walking, Resting, Rooted, Reached, VisitLeftmost, Typed, TypeOK, IsTree
<1>2. /\ S[node] = {node} \cup S[br[node]] /\ node \in Int /\ \A m \in S[br[node]] : node < m /\ m \in Int
      /\ node \in S[node]
  BY <1>1, TreeSteps
<1>3. ASSUME NEW m \in nodes
      PROVE  (\A k \in S[node] : m < k) <=> m < node
  <2>1. m \in Int
    BY <1>1, NamesAreNumbers
  <2>2. QED
    BY <1>2, <2>1
<1>4. V2 = {m \in nodes : m <= node}
  <2>1. nodes \subseteq Int
    BY <1>1, NamesAreNumbers
  <2>2. V = {m \in nodes : m < node}
    BY <1>1, <1>3
  <2>3. PICK N, n : N = nodes /\ n = node
    OBVIOUS
  <2>4. n \in N /\ N \subseteq Int
    BY <1>1, <2>1, <2>3
  <2>6. {m \in N : m < n} \cup {n} = {m \in N : m <= n}
    BY <2>4, AndItself, Zenon
  <2>5. QED
    BY <2>2, <2>3, <2>6
<1>5. /\ label_list' = label_list /\ nodes' = nodes /\ left' = left /\ red' = red
      /\ right' = right /\ pre' = Null /\ task' = task /\ Visit
  BY DEF VisitLeftmost, treeVars
<1>6. Threaded(right', left, br, S, Above(left, S, node))
  BY <1>1, <1>5
<1>7. (\E A2 : Walking(br, S, B, A2, V2)') \/ Visiting(br, S, B, V2)'
  BY <1>1, <1>4, <1>5, <1>6, Visited
<1>8. node \notin V /\ \A m \in V : m < node
  BY <1>1, <1>2, <1>3
<1>9. QED
  BY <1>1, <1>7, <1>8

LEMMA WalkingVisitBehindThread ==
    ASSUME Typed, NEW br, NEW S, NEW B, NEW A, NEW V, Walking(br, S, B, A, V), VisitBehindThread,
           NEW V2, V2 = V \cup {node}
    PROVE  /\ node \in nodes /\ node \notin V /\ \A m \in V : m < node
           /\ (\E A2 : Walking(br, S, B, A2, V2)') \/ Visiting(br, S, B, V2)'
<1>1. /\ IsTree(left, br, S) /\ Rooted(left, br, S, label_list) /\ label_list \in NodeOrNull
      /\ S[label_list] = nodes /\ nodes \subseteq Names
      /\ node # Null /\ node \in nodes /\ node \in Names /\ node \in Int
      /\ pre \in S[left[node]] /\ pre \in Names /\ right[pre] = node
      /\ S[Null] = {} /\ Resting(br, S, B, nodes)
      /\ Threaded(right, left, br, S, A) /\ pc = "walk"
  <2>1. node # Null
    BY DEF Typed, Control, VisitBehindThread
  <2>2. /\ IsTree(left, br, S) /\ Rooted(left, br, S, label_list) /\ label_list \in NodeOrNull
        /\ S[label_list] = nodes /\ pre \in S[left[node]] /\ right[pre] = node
        /\ Resting(br, S, B, nodes) /\ Threaded(right, left, br, S, A) /\ pc = "walk"
    BY DEF Walking, Resting, Rooted, VisitBehindThread
  <2>3. node \in nodes /\ nodes \subseteq Names
    BY <2>1 DEF Walking, Reached, Typed, TypeOK
  <2>4. left[node] \in NodeOrNull /\ node \in Int
    BY <2>2, <2>3, TreeSteps
  <2>5. pre \in Names /\ S[Null] = {}
    BY <2>2, <2>4, Down DEF IsTree
  <2>6. QED
    BY <2>1, <2>2, <2>3, <2>4, <2>5
<1>2. node \in A /\ Last(left, S, node, pre)
  <2>1. br[pre] # node
    <3>1. SUFFICES ASSUME br[pre] = node PROVE FALSE
      OBVIOUS
    <3>2. pre \notin S[node]
      BY <1>1, <3>1, ChildInside
    <3>3. pre \in S[node]
      BY <1>1, TreeSteps
    <3>4. QED
      BY <3>2, <3>3
  <2>2. QED
    BY <1>1, <2>1 DEF Threaded
<1>3. A = Above(left, S, node) \cup {node} /\ V = {m \in nodes : m < node}
  <2>1. node \notin Above(left, S, node)
    <3>1. node \in Above(left, S, node) => node < node
      BY <1>1, AboveIsInside
    <3>2. QED
      BY <1>1, <3>1
  <2>2. QED
    BY <1>1, <1>2, <2>1 DEF Walking, Reached
<1>4. /\ label_list' = label_list /\ nodes' = nodes /\ left' = left /\ red' = red
      /\ right' = [right EXCEPT ![pre] = Null] /\ pre' = Null /\ task' = task /\ Visit
  BY DEF VisitBehindThread, RemoveThread
<1>5. Threaded(right', left, br, S, Above(left, S, node))
  <2>1. PICK r, L, n, p : r = right /\ L = left /\ n = node /\ p = pre
    OBVIOUS
  <2>2. Threaded(r, L, br, S, A) /\ Rooted(L, br, S, label_list) /\ n \in A /\ Last(L, S, n, p)
    BY <1>1, <1>2, <2>1
  <2>3. Threaded([r EXCEPT ![p] = Null], L, br, S, A \ {n})
    BY <2>2, ThreadRemoved
  <2>4. n \notin Above(L, S, n)
    <3>1. n \in Above(L, S, n) => n < n
      BY <2>2, AboveIsInside
    <3>2. QED
      BY <1>1, <2>1, <3>1
  <2>5. A \ {n} = Above(L, S, n)
    BY <1>3, <2>1, <2>4
  <2>6. QED
    BY <1>4, <2>1, <2>3, <2>5
<1>6. V2 = {m \in nodes : m <= node}
  <2>1. nodes \subseteq Int
    BY <1>1, NamesAreNumbers
  <2>3. PICK N, n : N = nodes /\ n = node
    OBVIOUS
  <2>4. n \in N /\ N \subseteq Int
    BY <1>1, <2>1, <2>3
  <2>6. {m \in N : m < n} \cup {n} = {m \in N : m <= n}
    BY <2>4, AndItself, Zenon
  <2>5. QED
    BY <1>3, <2>3, <2>6
<1>7. (\E A2 : Walking(br, S, B, A2, V2)') \/ Visiting(br, S, B, V2)'
  BY <1>1, <1>4, <1>5, <1>6, Visited
<1>8. node \notin V /\ \A m \in V : m < node
  BY <1>1, <1>3
<1>9. QED
  BY <1>1, <1>7, <1>8

LEMMA WalkingFoundLabel ==
    ASSUME Typed, NEW br, NEW S, NEW B, NEW V, Visiting(br, S, B, V), FoundLabel
    PROVE  \E A : Walking(br, S, B, A, V)'
<1>1. /\ label_list' = label_list /\ nodes' = nodes /\ left' = left /\ red' = red /\ right' = right
      /\ node' = right[node] /\ pc' = "walk" /\ pre' = Null
  <2>1. pre = Null
    BY DEF Typed, Control, FoundLabel
  <2>2. QED
    BY <2>1 DEF FoundLabel, treeVars
<1>2. Resting(br, S, B, nodes)'
  BY <1>1 DEF Visiting, Resting
<1>3. PICK n, A : n = node /\ A = Above(left, S, node)
  OBVIOUS
<1>4. Reached(left, S, nodes, right[n], A, V)
  <2>1. PICK L, r, root : L = left /\ r = right /\ root = label_list
    OBVIOUS
  <2>2. /\ Rooted(L, br, S, root) /\ S[root] = nodes /\ n \in S[root]
        /\ Threaded(r, L, br, S, Above(L, S, n))
    BY <1>3, <2>1 DEF Visiting, Resting
  <2>3. Reached(L, S, S[root], r[n], Above(L, S, n), {m \in S[root] : m <= n})
    BY <2>2, Onward
  <2>4. V = {m \in nodes : m <= n}
    BY <1>3 DEF Visiting
  <2>5. QED
    BY <1>3, <2>1, <2>2, <2>3, <2>4
<1>5. Threaded(right', left', br, S, A)
  BY <1>1, <1>3 DEF Visiting
<1>6. Reached(left', S, nodes', node', A, V)
  BY <1>1, <1>3, <1>4
<1>7. Walking(br, S, B, A, V)'
  BY <1>1, <1>2, <1>5, <1>6 DEF Walking
<1>8. QED
  BY <1>7

LEMMA WalkingEnd ==
    ASSUME Typed, NEW br, NEW S, NEW B, NEW A, NEW V, Walking(br, S, B, A, V), EndTraversal
    PROVE  V = nodes /\ Resting(right, S, B, nodes)'
<1>1. /\ label_list' = label_list /\ nodes' = nodes /\ left' = left /\ red' = red /\ right' = right
      /\ node = Null
  BY DEF EndTraversal, treeVars
<1>2. A = {} /\ V = nodes
  BY <1>1 DEF Walking, Reached
<1>3. right = br
  <2>1. right \in [Names -> NodeOrNull] /\ \A n \in Names : right[n] = br[n]
    BY <1>2 DEF Walking, Threaded
  <2>2. br \in [Names -> NodeOrNull]
    BY DEF Walking, Resting, Rooted, IsTree
  <2>3. QED
    BY <2>1, <2>2
<1>4. Resting(right, S, B, nodes)'
  BY <1>1, <1>3 DEF Walking, Resting
<1>5. QED
  BY <1>2, <1>4

-----------------------------------------------------------------------------
(* The search: the milestone is the last node where it went to the left.   *)

Seeking(S) ==
    /\ name \in nodes => name \in S[explore]
    /\ explore # Null =>
          /\ explore \in nodes
          /\ Above(left, S, explore) = {} => milestone = Null
          /\ Above(left, S, explore) # {} =>
                milestone \in Above(left, S, explore) /\ \A b \in Above(left, S, explore) : milestone <= b

LEMMA SeekingStart ==
    ASSUME NEW br, NEW S, NEW B, Resting(br, S, B, nodes)', nodes' \subseteq Names,
           explore' = label_list', milestone' = Null
    PROVE  Seeking(S)'
<1>1. PICK L, root, N : L = left' /\ root = label_list' /\ N = nodes'
  OBVIOUS
<1>2. Rooted(L, br, S, root) /\ S[root] = N /\ IsTree(L, br, S) /\ root \in NodeOrNull
  BY <1>1 DEF Resting, Rooted
<1>3. Above(L, S, root) = {}
  BY <1>2, AboveRoot
<1>4. root # Null => root \in N
  BY <1>2, TreeSteps DEF NodeOrNull
<1>5. QED
  BY <1>1, <1>2, <1>3, <1>4 DEF Seeking

LEMMA SeekingSearch ==
    ASSUME Typed, NEW br, NEW S, NEW B, NEW A, Resting(br, S, B, nodes), Threaded(right, left, br, S, A),
           Seeking(S), Search
    PROVE  Seeking(S)'
<1>1. /\ IsTree(left, br, S) /\ Rooted(left, br, S, label_list) /\ label_list \in NodeOrNull
      /\ S[label_list] = nodes /\ nodes \subseteq Names /\ S[Null] = {}
      /\ explore \in nodes /\ explore \in Names /\ explore # name /\ name \in Names /\ explore # Null
      /\ nodes' = nodes /\ left' = left /\ name' = name
  BY DEF Resting, Rooted, IsTree, Search, Seeking, Typed, TypeOK, Control, treeVars
<1>2. PICK e, L, N, x, ms : e = explore /\ L = left /\ N = nodes /\ x = name /\ ms = milestone
  OBVIOUS
<1>3. /\ IsTree(L, br, S) /\ Rooted(L, br, S, label_list) /\ e \in N /\ e \in Names /\ e # x /\ e # Null
      /\ x \in N => x \in S[e]
      /\ x \in Int /\ e \in Int /\ N \subseteq Names
  BY <1>1, <1>2, NamesAreNumbers DEF Seeking
<1>4. /\ S[e] = {e} \cup S[L[e]] \cup S[br[e]] /\ L[e] \in NodeOrNull /\ br[e] \in NodeOrNull
      /\ \A m \in S[L[e]] : m < e /\ m \in Int
      /\ \A m \in S[br[e]] : e < m /\ m \in Int
      /\ L[e] # Null => L[e] \in S[e] /\ L[e] \in Names
      /\ br[e] # Null => br[e] \in S[e] /\ br[e] \in Names
  BY <1>3, TreeSteps
<1>5. S[e] \subseteq N
  BY <1>1, <1>2, <1>3, Down
<1>6. /\ Above(L, S, e) = {} => ms = Null
      /\ Above(L, S, e) # {} => ms \in Above(L, S, e) /\ \A b \in Above(L, S, e) : ms <= b
  BY <1>1, <1>2 DEF Seeking
<1>7. CASE x < e
  <2>1. explore' = L[e] /\ milestone' = e
    BY <1>2, <1>7 DEF Search
  <2>2. x \in N => x \in S[L[e]]
    BY <1>3, <1>4, <1>7
  <2>3. ASSUME L[e] # Null
        PROVE  /\ L[e] \in N /\ Above(L, S, L[e]) # {} /\ e \in Above(L, S, L[e])
               /\ \A b \in Above(L, S, L[e]) : e <= b
    <3>1. Above(L, S, L[e]) = Above(L, S, e) \cup {e}
      BY <1>3, <2>3, AboveChild
    <3>2. \A b \in Above(L, S, e) : e < b /\ b \in Int
      BY <1>3, AboveIsInside, NamesAreNumbers
    <3>3. QED
      BY <1>3, <1>4, <1>5, <2>3, <3>1, <3>2
  <2>4. QED
    BY <1>1, <1>2, <2>1, <2>2, <2>3 DEF Seeking
<1>8. CASE ~(x < e)
  <2>1. FollowRight(e) = br[e]
    <3>1. right[e] = br[e] \/ (right[e] \in A /\ Last(L, S, right[e], e))
      BY <1>2, <1>3 DEF Threaded
    <3>2. ASSUME right[e] \in A, Last(L, S, right[e], e)
          PROVE  right[e] = ms /\ br[e] = Null
      <4>1. PICK a : a = right[e]
        OBVIOUS
      <4>2. a \in Names
        BY <3>2, <4>1 DEF Threaded
      <4>3. br[e] = Null /\ a \in Above(L, S, e) /\ \A m \in S[L[a]] : m <= e
        <5>1. Last(L, S, a, e)
          BY <3>2, <4>1
        <5>2. br[e] = Null /\ a \in Above(L, S, e)
          BY <1>3, <4>2, <5>1, LastEnds
        <5>3. QED
          BY <5>1, <5>2 DEF Last
      <4>4. \A b \in Above(L, S, e) : a <= b
        BY <1>3, <4>3, AboveLast
      <4>5. ms \in Names /\ ms <= a /\ a <= ms
        BY <1>6, <4>3, <4>4 DEF Above
      <4>6. QED
        BY <4>1, <4>2, <4>3, <4>5, NamesAreNumbers
    <3>3. ASSUME right[e] = br[e], right[e] = ms, ms # Null PROVE FALSE
      <4>1. ms \in Above(L, S, e) /\ ms \in {L[e], br[e]}
        BY <1>6, <3>3
      <4>2. e \in S[ms]
        BY <1>3, <4>1, AboveIsInside
      <4>3. e \notin S[ms]
        BY <1>3, <3>3, <4>1, ChildInside
      <4>4. QED
        BY <4>2, <4>3
    <3>4. QED
      BY <1>2, <3>1, <3>2, <3>3 DEF FollowRight
  <2>2. explore' = br[e] /\ milestone' = ms
    BY <1>2, <1>8, <2>1 DEF Search
  <2>3. x \in N => x \in S[br[e]]
    BY <1>3, <1>4, <1>8
  <2>4. ASSUME br[e] # Null
        PROVE  br[e] \in N /\ Above(L, S, br[e]) = Above(L, S, e)
    <3>1. Above(L, S, br[e]) = Above(L, S, e)
      BY <1>3, <2>4, AboveChild
    <3>2. QED
      BY <1>4, <1>5, <2>4, <3>1
  <2>5. QED
    BY <1>1, <1>2, <1>6, <2>2, <2>3, <2>4 DEF Seeking
<1>9. QED
  BY <1>7, <1>8

\* A search that is over has found the name, if it is there.
LEMMA SeekingEnd ==
    ASSUME Typed, NEW br, NEW S, NEW B, Resting(br, S, B, nodes), Seeking(S), pc = "search",
           explore \in {Null, name}
    PROVE  explore = IF name \in nodes THEN name ELSE Null
<1>1. S[Null] = {} /\ name \in Names /\ name # Null
  BY NamesAreNumbers DEF Resting, Rooted, IsTree, Typed, Control
<1>2. QED
  BY <1>1 DEF Seeking

-----------------------------------------------------------------------------
(* What a traversal has done, when it has visited the names in V and looked for  *)
(* the labels of the macros in W.                                                *)

Enumerates(s, T) ==
    /\ s \in Seq(T)
    /\ \A m \in T : \E i \in 1..Len(s) : s[i] = m
    /\ \A i, j \in 1..Len(s) : i < j => s[i] < s[j]

LEMMA EnumerateAppend ==
    ASSUME NEW T, NEW s, Enumerates(s, T), NEW n, \A m \in T : m < n
    PROVE  Enumerates(Append(s, n), T \cup {n})
<1>1. s \in Seq(T) /\ Len(s) \in Nat /\ \A i \in 1..Len(s) : s[i] \in T
  BY DEF Enumerates
<1> DEFINE t == Append(s, n)
<1>2. /\ t \in Seq(T \cup {n}) /\ Len(t) = Len(s) + 1 /\ t[Len(s) + 1] = n
      /\ \A i \in 1..Len(s) : t[i] = s[i]
  BY <1>1
<1> HIDE DEF t
<1>3. ASSUME NEW m \in T \cup {n} PROVE \E i \in 1..Len(t) : t[i] = m
  <2>1. CASE m = n
    <3>1. Len(s) + 1 \in 1..Len(t)
      BY <1>1, <1>2
    <3>2. QED
      BY <1>2, <2>1, <3>1
  <2>2. CASE m \in T
    <3>1. PICK i \in 1..Len(s) : s[i] = m
      BY <2>2 DEF Enumerates
    <3>2. i \in 1..Len(t)
      BY <1>1, <1>2
    <3>3. QED
      BY <1>2, <3>1, <3>2
  <2>3. QED
    BY <2>1, <2>2
<1>4. ASSUME NEW i \in 1..Len(t), NEW j \in 1..Len(t), i < j PROVE t[i] < t[j]
  <2>1. i \in 1..Len(s) /\ (j \in 1..Len(s) \/ j = Len(s) + 1)
    BY <1>1, <1>2, <1>4
  <2>2. CASE j = Len(s) + 1
    BY <1>1, <1>2, <2>1, <2>2
  <2>3. CASE j \in 1..Len(s)
    BY <1>2, <1>4, <2>1, <2>3 DEF Enumerates
  <2>4. QED
    BY <2>1, <2>2, <2>3
<1>5. Enumerates(t, T \cup {n})
  BY <1>2, <1>3, <1>4 DEF Enumerates
<1>6. QED
  BY <1>5 DEF t

FindsLabel ==
    /\ node \in Macros
    /\ \/ task = "reset" /\ kind[node] = "value"
       \/ task = "special" /\ kind[node] = "cmdline"

\* The labels of the macros in W of the kind k.
Holds(W, k, l) == \E m \in W : m \in Macros /\ kind[m] = k /\ LabelOf(m) = l

Books(V, W) ==
    /\ ValuesDefined
    /\ task = "print" => Enumerates(listing, V \ Macros)
    /\ task # "print" => listing = <<>>
    /\ task = "reset" =>
          \A l \in Names : l \in deleted <=>
             \/ l \in deleted_before
             \/ l \in V \cap Macros /\ kind[l] # "cmdline"
             \/ Holds(W, "value", l)
    /\ task = "special" =>
          \A l \in Names : l \in deleted <=>
             /\ \/ l \in deleted_before
                \/ l \in V \cap Macros /\ kind[l] # "cmdline"
                \/ l \in V \ Macros
             /\ ~Holds(W, "cmdline", l)

LEMMA BooksStart ==
    ASSUME Typed, StartTraversal, listing' = <<>>
    PROVE  Books({}, {})'
<1>1. /\ nodes' = nodes /\ kind' = kind /\ deleted' = deleted /\ deleted_before' = deleted
      /\ ValuesDefined
  BY DEF StartTraversal, treeVars, bitVars
<1>2. ValuesDefined'
  BY <1>1 DEF ValuesDefined
<1>3. Enumerates(<<>>, {} \ Macros)
  BY DEF Enumerates
<1>4. \A k, l : ~Holds({}, k, l)' /\ l \notin {} \cap Macros /\ l \notin {} \ Macros
  BY DEF Holds
<1>5. QED
  BY <1>1, <1>2, <1>3, <1>4 DEF Books

LEMMA BooksVisit ==
    ASSUME Typed, NEW V, V \subseteq nodes, node \in nodes, \A m \in V : m < node, Books(V, V), Visit,
           task # "none", UNCHANGED <<nodes, kind, task, deleted_before>>, NEW V2, V2 = V \cup {node}
    PROVE  /\ FindsLabel => /\ pc' = "search" /\ node' = node /\ Books(V2, V)'
                            /\ BeginSearch(LabelOf(node))
           /\ ~FindsLabel => pc' = pc /\ Books(V2, V2)'
<1>1. /\ nodes' = nodes /\ kind' = kind /\ task' = task /\ deleted_before' = deleted_before
      /\ nodes \subseteq Names /\ node \in Names /\ node \in Int /\ V \subseteq Names
      /\ \A m \in Names : m \in Int
  BY NamesAreNumbers DEF Typed, TypeOK
<1>2. FindsLabel => pc' = "search" /\ node' = node /\ BeginSearch(LabelOf(node))
  BY DEF Visit, FindsLabel, BeginSearch
<1>3. ~FindsLabel => pc' = pc
  BY DEF Visit, FindsLabel
<1>4. ValuesDefined'
  BY <1>1 DEF Books, ValuesDefined
<1>5. /\ listing' = IF task = "print" /\ node \notin Macros THEN Append(listing, node) ELSE listing
      /\ deleted' = IF \/ task # "print" /\ node \in Macros /\ kind[node] # "cmdline"
                       \/ task = "special" /\ node \notin Macros
                    THEN deleted \cup {node} ELSE deleted
  BY DEF Visit, Listed
<1>6. ASSUME task = "print" PROVE Enumerates(listing', V2 \ Macros)
  <2>1. PICK s, n, T : s = listing /\ n = node /\ T = V \ Macros
    OBVIOUS
  <2>2. Enumerates(s, T)
    BY <1>6, <2>1 DEF Books
  <2>3. CASE n \in Macros
    <3>1. V2 \ Macros = T /\ listing' = s
      BY <1>5, <2>1, <2>3
    <3>2. QED
      BY <2>2, <3>1
  <2>4. CASE n \notin Macros
    <3>1. V2 \ Macros = T \cup {n} /\ listing' = Append(s, n)
      BY <1>5, <1>6, <2>1, <2>4
    <3>2. \A m \in T : m < n
      BY <2>1
    <3>3. Enumerates(Append(s, n), T \cup {n})
      BY <2>2, <3>2, EnumerateAppend
    <3>4. QED
      BY <3>1, <3>3
  <2>5. QED
    BY <2>3, <2>4
<1>7. task # "print" => listing' = <<>>
  BY <1>5 DEF Books
<1>8. ASSUME NEW W \in {V, V2}, FindsLabel => W = V
      PROVE  /\ task = "reset" => \A l : Holds(W, "value", l)' <=> Holds(V, "value", l)
             /\ task = "special" => \A l : Holds(W, "cmdline", l)' <=> Holds(V, "cmdline", l)
  <2>1. \A m \in W : m \in V \/ m = node
    BY <1>8
  <2>2. \A m \in V : m \in W
    BY <1>8
  <2>3. ASSUME task = "reset", NEW l PROVE Holds(W, "value", l)' <=> Holds(V, "value", l)
    <3>1. CASE FindsLabel
      BY <1>1, <1>8, <3>1 DEF Holds
    <3>2. CASE ~FindsLabel
      <4>1. ~(node \in Macros /\ kind[node] = "value")
        BY <2>3, <3>2 DEF FindsLabel
      <4>2. QED
        BY <1>1, <2>1, <2>2, <4>1 DEF Holds
    <3>3. QED
      BY <3>1, <3>2
  <2>4. ASSUME task = "special", NEW l PROVE Holds(W, "cmdline", l)' <=> Holds(V, "cmdline", l)
    <3>1. CASE FindsLabel
      BY <1>1, <1>8, <3>1 DEF Holds
    <3>2. CASE ~FindsLabel
      <4>1. ~(node \in Macros /\ kind[node] = "cmdline")
        BY <2>4, <3>2 DEF FindsLabel
      <4>2. QED
        BY <1>1, <2>1, <2>2, <4>1 DEF Holds
    <3>3. QED
      BY <3>1, <3>2
  <2>5. QED
    BY <2>3, <2>4
<1>9. \A k : ~Holds(V, k, node)
  <2>1. SUFFICES ASSUME NEW k, NEW m \in V, m \in Macros, LabelOf(m) = node PROVE FALSE
    BY DEF Holds
  <2>2. node \in Labels /\ node < m
    BY <2>1, NamesAreNumbers
  <2>3. m < node /\ m \in Int
    BY <1>1, <2>1
  <2>4. QED
    BY <1>1, <2>2, <2>3
<1>10. ASSUME NEW W \in {V, V2}, FindsLabel => W = V PROVE Books(V2, W)'
  <2>1. ASSUME task = "reset", NEW l \in Names
        PROVE  l \in deleted' <=>
                  \/ l \in deleted_before
                  \/ l \in V2 \cap Macros /\ kind[l] # "cmdline"
                  \/ Holds(W, "value", l)'
    <3>1. Holds(W, "value", l)' <=> Holds(V, "value", l)
      BY <1>8, <1>10, <2>1
    <3>2. l \in deleted <=>
             \/ l \in deleted_before
             \/ l \in V \cap Macros /\ kind[l] # "cmdline"
             \/ Holds(V, "value", l)
      BY <2>1 DEF Books
    <3>3. QED
      BY <1>5, <2>1, <3>1, <3>2
  <2>2. ASSUME task = "special", NEW l \in Names
        PROVE  l \in deleted' <=>
                  /\ \/ l \in deleted_before
                     \/ l \in V2 \cap Macros /\ kind[l] # "cmdline"
                     \/ l \in V2 \ Macros
                  /\ ~Holds(W, "cmdline", l)'
    <3>1. Holds(W, "cmdline", l)' <=> Holds(V, "cmdline", l)
      BY <1>8, <1>10, <2>2
    <3>2. l \in deleted <=>
             /\ \/ l \in deleted_before
                \/ l \in V \cap Macros /\ kind[l] # "cmdline"
                \/ l \in V \ Macros
             /\ ~Holds(V, "cmdline", l)
      BY <2>2 DEF Books
    <3>3. l = node => ~Holds(V, "cmdline", l)
      BY <1>9
    <3>4. CASE l = node
      BY <1>5, <2>2, <3>1, <3>2, <3>3, <3>4
    <3>5. CASE l # node
      BY <1>5, <2>2, <3>1, <3>2, <3>5
    <3>6. QED
      BY <3>4, <3>5
  <2>3. QED
    BY <1>1, <1>4, <1>6, <1>7, <2>1, <2>2 DEF Books
<1>11. QED
  BY <1>2, <1>3, <1>10

LEMMA BooksFoundLabel ==
    ASSUME Typed, NEW br, NEW S, NEW B, NEW V, Visiting(br, S, B, V), Seeking(S),
           Books(V, V \ {node}), FindsLabel, name = LabelOf(node), FoundLabel
    PROVE  Books(V, V)'
<1>1. /\ nodes' = nodes /\ kind' = kind /\ task' = task /\ deleted_before' = deleted_before
      /\ listing' = listing /\ node \in nodes /\ node \in Macros /\ node \in V
      /\ pc = "search" /\ explore \in {Null, name}
  <2>1. node \in Int
    BY NamesAreNumbers DEF Visiting, Typed, TypeOK
  <2>2. QED
    BY <2>1 DEF FoundLabel, treeVars, Visiting, FindsLabel
<1>2. explore = name /\ name # Null
  <2>1. name \in nodes
    BY <1>1 DEF Books, ValuesDefined, FindsLabel
  <2>2. explore = IF name \in nodes THEN name ELSE Null
    BY <1>1, SeekingEnd DEF Visiting
  <2>3. name \in Names
    BY <2>1 DEF Typed, TypeOK
  <2>4. QED
    BY <2>1, <2>2, <2>3, NamesAreNumbers
<1>3. deleted' = IF task = "reset" THEN deleted \cup {name} ELSE deleted \ {name}
  BY <1>2 DEF FoundLabel
<1>4. ASSUME NEW k, kind[node] = k, NEW l
      PROVE  Holds(V, k, l)' <=> Holds(V \ {node}, k, l) \/ l = name
  <2>1. Holds(V, k, l)' <=> Holds(V, k, l)
    BY <1>1 DEF Holds
  <2>2. Holds(V, k, l) <=> Holds(V \ {node}, k, l) \/ l = name
    BY <1>1, <1>4 DEF Holds
  <2>3. QED
    BY <2>1, <2>2
<1>5. ValuesDefined'
  BY <1>1 DEF Books, ValuesDefined
<1>6. ASSUME task = "reset", NEW l \in Names
      PROVE  l \in deleted' <=>
                \/ l \in deleted_before
                \/ l \in V \cap Macros /\ kind[l] # "cmdline"
                \/ Holds(V, "value", l)'
  <2>1. kind[node] = "value"
    BY <1>6 DEF FindsLabel
  <2>2. Holds(V, "value", l)' <=> Holds(V \ {node}, "value", l) \/ l = name
    BY <1>4, <2>1
  <2>3. l \in deleted <=>
           \/ l \in deleted_before
           \/ l \in V \cap Macros /\ kind[l] # "cmdline"
           \/ Holds(V \ {node}, "value", l)
    BY <1>6 DEF Books
  <2>4. QED
    BY <1>3, <1>6, <2>2, <2>3
<1>7. ASSUME task = "special", NEW l \in Names
      PROVE  l \in deleted' <=>
                /\ \/ l \in deleted_before
                   \/ l \in V \cap Macros /\ kind[l] # "cmdline"
                   \/ l \in V \ Macros
                /\ ~Holds(V, "cmdline", l)'
  <2>1. kind[node] = "cmdline"
    BY <1>7 DEF FindsLabel
  <2>2. Holds(V, "cmdline", l)' <=> Holds(V \ {node}, "cmdline", l) \/ l = name
    BY <1>4, <2>1
  <2>3. l \in deleted <=>
           /\ \/ l \in deleted_before
              \/ l \in V \cap Macros /\ kind[l] # "cmdline"
              \/ l \in V \ Macros
           /\ ~Holds(V \ {node}, "cmdline", l)
    BY <1>7 DEF Books
  <2>4. QED
    BY <1>3, <1>7, <2>2, <2>3
<1>8. QED
  BY <1>1, <1>5, <1>6, <1>7 DEF Books

-----------------------------------------------------------------------------
(* The invariant. *)

Rests == \E S, B : Resting(right, S, B, nodes)
Descends == \E S, B : Resting(right, S, B, nodes \ {name}) /\ Descending(B)
Climbs == \E q, c, L, R, S, B : Climbing(q, c, L, R, S, B)
Walks == \E br, S, B, A, V : Walking(br, S, B, A, V) /\ Books(V, V)
Finds == \E S, B : Resting(right, S, B, nodes) /\ Seeking(S)
FindsForWalk ==
    /\ FindsLabel /\ name = LabelOf(node)
    /\ \E br, S, B, V : Visiting(br, S, B, V) /\ Seeking(S) /\ Books(V, V \ {node})

\* The node that is being inserted has its kind, and nothing is listed.
Inserts == kind[name] \in KindsOf(name) /\ listing = <<>>

TreeInv ==
    /\ Typed
    /\ pc = "idle" => Rests
    /\ pc = "descend" => Descends /\ Inserts
    /\ pc = "ascend" => Climbs /\ Inserts
    /\ pc = "walk" => Walks
    /\ pc = "search" => IF task = "none" THEN Finds ELSE FindsForWalk

LEMMA TreeInvInit == Init => TreeInv
<1> SUFFICES ASSUME Init PROVE TreeInv
  OBVIOUS
<1>1. Typed
  BY TypedInit
<1> DEFINE S == [n \in NodeOrNull |-> IF n = Null THEN {} ELSE {n}]
           B == [n \in NodeOrNull |-> IF n = Null THEN 0 ELSE 1]
<1>2. /\ label_list = Null /\ nodes = {} /\ pc = "idle"
      /\ left = [n \in Names |-> Null] /\ right = [n \in Names |-> Null]
      /\ red = [n \in Names |-> FALSE]
  BY DEF Init
<1>3. IsTree(left, right, S)
  BY <1>2, NamesAreNumbers DEF IsTree, Joins, NodeOrNull
<1>4. EvenTree(left, right, red, B)
  BY <1>2, NamesAreNumbers DEF EvenTree, Even, NodeOrNull
<1>5. Rooted(left, right, S, label_list) /\ S[label_list] = nodes
  BY <1>2, <1>3 DEF Rooted, NodeOrNull
<1>6. (\A n \in Names : Lean(left, right, red, n)) /\ ~RedIn(red, label_list)
  BY <1>2 DEF Lean, RedIn
<1>7. Resting(right, S, B, nodes)
  <2> HIDE DEF S, B
  <2> QED
    BY <1>4, <1>5, <1>6 DEF Resting
<1>8. Rests
  BY <1>7 DEF Rests
<1>9. QED
  BY <1>1, <1>2, <1>8 DEF TreeInv

LEMMA RestsKept == Rests /\ UNCHANGED treeVars => Rests'
<1> SUFFICES ASSUME Rests, UNCHANGED treeVars PROVE Rests'
  OBVIOUS
<1>1. PICK S, B : Resting(right, S, B, nodes)
  BY DEF Rests
<1>2. Resting(right, S, B, nodes)'
  BY <1>1 DEF Resting, treeVars
<1>3. QED
  BY <1>2 DEF Rests

LEMMA TreeInvInsertion ==
    ASSUME TreeInv, Typed', StartDefine \/ Descend \/ Ascend \/ NewRoot
    PROVE  TreeInv'
<1>1. Typed /\ (Typed => TypeOK)
  BY DEF TreeInv, Typed
<1>2. CASE StartDefine
  <2>1. pc = "idle" /\ pc' = "descend" /\ listing' = <<>>
    BY <1>2 DEF StartDefine
  <2>2. PICK S, B : Resting(right, S, B, nodes)
    BY <2>1 DEF TreeInv, Rests
  <2>3. Descends'
    BY <1>1, <1>2, <2>2, RestingStart DEF Descends
  <2>4. PICK n \in usedNames \ nodes, k \in Kinds :
           k \in KindsOf(n) /\ name' = n /\ kind' = [kind EXCEPT ![n] = k]
    BY <1>2 DEF StartDefine
  <2>5. kind'[n] = k
    <3>1. name' \in Names /\ kind \in [Names -> Kinds]
      <4>1. name' \in nodes' /\ nodes' \subseteq Names
        BY <2>1 DEF Typed, TypeOK, Control
      <4>2. QED
        BY <1>1, <4>1 DEF TypeOK
    <3>2. QED
      BY <2>4, <3>1
  <2>6. Inserts'
    BY <2>1, <2>4, <2>5 DEF Inserts
  <2>7. QED
    BY <2>1, <2>3, <2>6 DEF TreeInv
<1>3. CASE Descend
  <2>1. pc = "descend" /\ kind' = kind /\ name' = name /\ listing' = listing
    BY <1>3 DEF Descend, bitVars, searchVars
  <2>2. PICK S, B : Resting(right, S, B, nodes \ {name}) /\ Descending(B)
    BY <2>1 DEF TreeInv, Descends
  <2>3. Inserts'
    BY <2>1 DEF TreeInv, Inserts
  <2>4. CASE path[Len(path)].label = Null
    <3>1. pc' = "ascend" /\ \E q, c, L, R, S2 : Climbing(q, c, L, R, S2, B)'
      BY <1>1, <1>3, <2>2, <2>4, ClimbingStart
    <3>2. Climbs'
      BY <3>1 DEF Climbs
    <3>3. QED
      BY <2>3, <3>1, <3>2 DEF TreeInv
  <2>5. CASE path[Len(path)].label # Null
    <3>1. pc' = "descend" /\ Resting(right, S, B, nodes \ {name})' /\ Descending(B)'
      BY <1>1, <1>3, <2>2, <2>5, RestingGoesDown
    <3>2. Descends'
      BY <3>1 DEF Descends
    <3>3. QED
      BY <2>3, <3>1, <3>2 DEF TreeInv
  <2>6. QED
    BY <2>4, <2>5
<1>4. CASE Ascend
  <2>1. pc = "ascend" /\ kind' = kind /\ listing' = listing
    BY <1>4 DEF Ascend, bitVars
  <2>2. PICK q, c, L, R, S, B : Climbing(q, c, L, R, S, B)
    BY <2>1 DEF TreeInv, Climbs
  <2>3. \/ pc' = "idle" /\ \E S2, B2 : Resting(right, S2, B2, nodes)'
        \/ pc' = "ascend" /\ \E y, L2, R2, S2, B2 : Climbing(q - 1, y, L2, R2, S2, B2)'
    BY <1>1, <1>4, <2>2, ClimbingAscend
  <2>4. CASE pc' = "idle" /\ \E S2, B2 : Resting(right, S2, B2, nodes)'
    <3>1. Rests'
      BY <2>4 DEF Rests
    <3>2. QED
      BY <2>4, <3>1 DEF TreeInv
  <2>5. CASE pc' = "ascend" /\ \E y, L2, R2, S2, B2 : Climbing(q - 1, y, L2, R2, S2, B2)'
    <3>1. Climbs'
      BY <2>5 DEF Climbs
    <3>2. name' = name
      BY <1>4, <2>5 DEF Ascend, EndInsertion, searchVars
    <3>3. Inserts'
      BY <2>1, <3>2 DEF TreeInv, Inserts
    <3>4. QED
      BY <2>5, <3>1, <3>3 DEF TreeInv
  <2>6. QED
    BY <2>3, <2>4, <2>5
<1>5. CASE NewRoot
  <2>1. pc = "ascend" /\ pc' = "idle"
    BY <1>5 DEF NewRoot, EndInsertion
  <2>2. PICK q, c, L, R, S, B : Climbing(q, c, L, R, S, B)
    BY <2>1 DEF TreeInv, Climbs
  <2>3. \E B2 : Resting(right, S, B2, nodes)'
    BY <1>1, <1>5, <2>2, ClimbingNewRoot
  <2>4. Rests'
    BY <2>3 DEF Rests
  <2>5. QED
    BY <2>1, <2>4 DEF TreeInv
<1>6. QED
  BY <1>2, <1>3, <1>4, <1>5

LEMMA TreeInvSearch ==
    ASSUME TreeInv, Typed', Delete \/ Undelete \/ StartFind \/ Search \/ EndFind
    PROVE  TreeInv'
<1>1. Typed /\ nodes \subseteq Names
  BY DEF TreeInv, Typed, TypeOK
<1>2. CASE Delete \/ Undelete
  <2>1. pc = "idle" /\ pc' = "idle" /\ UNCHANGED treeVars
    BY <1>2 DEF Delete, Undelete
  <2>2. Rests'
    BY <2>1, RestsKept DEF TreeInv
  <2>3. QED
    BY <2>1, <2>2 DEF TreeInv
<1>3. CASE StartFind
  <2>1. pc = "idle" /\ pc' = "search" /\ task' = task /\ task = "none" /\ UNCHANGED treeVars
        /\ explore' = label_list /\ milestone' = Null
    BY <1>1, <1>3 DEF StartFind, BeginSearch, Typed, Control
  <2>2. PICK S, B : Resting(right, S, B, nodes)
    BY <2>1 DEF TreeInv, Rests
  <2>3. Resting(right, S, B, nodes)' /\ explore' = label_list' /\ nodes' \subseteq Names
    BY <1>1, <2>1, <2>2 DEF Resting, treeVars
  <2>4. PICK br : br = right'
    OBVIOUS
  <2>5. Resting(br, S, B, nodes)'
    BY <2>3, <2>4 DEF Resting
  <2>6. Seeking(S)'
    BY <2>1, <2>3, <2>5, SeekingStart
  <2>7. Finds'
    BY <2>3, <2>6 DEF Finds
  <2>8. QED
    BY <2>1, <2>7 DEF TreeInv
<1>4. CASE Search
  <2>1. /\ pc = "search" /\ pc' = "search" /\ task' = task /\ node' = node /\ UNCHANGED treeVars
        /\ listing' = listing /\ deleted' = deleted /\ kind' = kind /\ deleted_before' = deleted_before
        /\ name' = name
    BY <1>4 DEF Search, bitVars, walkVars
  <2>2. CASE task = "none"
    <3>1. PICK S, B : Resting(right, S, B, nodes) /\ Seeking(S)
      BY <2>1, <2>2 DEF TreeInv, Finds
    <3>2. Threaded(right, left, right, S, {})
      BY <1>1 DEF Threaded, Typed, TypeOK
    <3>3. PICK br : br = right
      OBVIOUS
    <3>4. Resting(br, S, B, nodes) /\ Threaded(right, left, br, S, {})
      BY <3>1, <3>2, <3>3
    <3>5. Seeking(S)'
      BY <1>1, <1>4, <3>1, <3>4, SeekingSearch
    <3>6. Resting(right, S, B, nodes)'
      BY <2>1, <3>1 DEF Resting, treeVars
    <3>7. Finds'
      BY <3>5, <3>6 DEF Finds
    <3>8. QED
      BY <2>1, <2>2, <3>7 DEF TreeInv
  <2>3. CASE task # "none"
    <3>1. FindsLabel /\ name = LabelOf(node)
      BY <2>1, <2>3 DEF TreeInv, FindsForWalk
    <3>2. PICK br, S, B, V : Visiting(br, S, B, V) /\ Seeking(S) /\ Books(V, V \ {node})
      BY <2>1, <2>3 DEF TreeInv, FindsForWalk
    <3>3. Resting(br, S, B, nodes) /\ Threaded(right, left, br, S, Above(left, S, node))
      BY <3>2 DEF Visiting
    <3>4. PICK A : A = Above(left, S, node)
      OBVIOUS
    <3>5. Threaded(right, left, br, S, A)
      BY <3>3, <3>4
    <3>6. Seeking(S)'
      BY <1>1, <1>4, <3>2, <3>3, <3>5, SeekingSearch
    <3>7. Visiting(br, S, B, V)'
      BY <2>1, <3>2 DEF Visiting, Resting, treeVars
    <3>8. Books(V, V \ {node})'
      <4>1. nodes' = nodes
        BY <2>1 DEF treeVars
      <4>2. QED
        BY <2>1, <3>2, <4>1 DEF Books, ValuesDefined, Holds
    <3>9. FindsLabel' /\ (name = LabelOf(node))'
      BY <2>1, <3>1 DEF FindsLabel
    <3>10. FindsForWalk'
      BY <3>6, <3>7, <3>8, <3>9 DEF FindsForWalk
    <3>11. QED
      BY <2>1, <2>3, <3>10 DEF TreeInv
  <2>4. QED
    BY <2>2, <2>3
<1>5. CASE EndFind
  <2>1. pc = "search" /\ task = "none" /\ pc' = "idle" /\ UNCHANGED treeVars
    BY <1>5 DEF EndFind
  <2>2. Rests
    BY <2>1 DEF TreeInv, Finds, Rests
  <2>3. Rests'
    BY <2>1, <2>2, RestsKept
  <2>4. QED
    BY <2>1, <2>3 DEF TreeInv
<1>6. QED
  BY <1>2, <1>3, <1>4, <1>5

LEMMA WalksKept ==
    ASSUME NEW br, NEW S, NEW B, NEW A, NEW V, Walking(br, S, B, A, V)', Books(V, V),
           UNCHANGED <<nodes, bitVars, task, deleted_before, listing>>
    PROVE  Walks'
<1>1. Books(V, V)'
  BY DEF Books, ValuesDefined, Holds, bitVars
<1>2. QED
  BY <1>1 DEF Walks

\* The end of a visit.
LEMMA WalksVisited ==
    ASSUME Typed, pc = "walk", node \in nodes, NEW V, V \subseteq nodes, \A m \in V : m < node,
           Books(V, V), Visit, UNCHANGED <<nodes, kind, task, deleted_before, label_list>>,
           NEW br, NEW S, NEW B, NEW V2, V2 = V \cup {node},
           (\E A : Walking(br, S, B, A, V2)') \/ Visiting(br, S, B, V2)',
           TypeOK'
    PROVE  (pc' = "walk" /\ Walks') \/ (pc' = "search" /\ task' # "none" /\ FindsForWalk')
<1>1. task # "none" /\ task' = task /\ kind' = kind /\ nodes' = nodes /\ label_list' = label_list
  BY DEF Typed, Control
<1>2. /\ FindsLabel => /\ pc' = "search" /\ node' = node /\ Books(V2, V)'
                       /\ BeginSearch(LabelOf(node))
      /\ ~FindsLabel => pc' = pc /\ Books(V2, V2)'
  BY <1>1, BooksVisit
<1>3. CASE FindsLabel
  <2>1. Visiting(br, S, B, V2)' /\ pc' = "search" /\ node' = node
    BY <1>2, <1>3 DEF Walking
  <2>2. FindsLabel' /\ (name = LabelOf(node))'
    BY <1>1, <1>2, <1>3, <2>1 DEF FindsLabel, BeginSearch
  <2>3. Seeking(S)'
    <3>1. explore' = label_list' /\ milestone' = Null
      BY <1>1, <1>2, <1>3 DEF BeginSearch
    <3>2. Resting(br, S, B, nodes)' /\ nodes' \subseteq Names
      BY <2>1 DEF Visiting, TypeOK
    <3>3. QED
      BY <3>1, <3>2, SeekingStart
  <2>4. V2 \ {node'} = V
    <3>1. node \notin V
      BY NamesAreNumbers DEF Typed, TypeOK
    <3>2. QED
      BY <2>1, <3>1
  <2>5. Books(V2, V2 \ {node})'
    BY <1>2, <1>3, <2>4
  <2>6. FindsForWalk'
    BY <2>1, <2>2, <2>3, <2>5 DEF FindsForWalk
  <2>7. QED
    BY <1>1, <2>1, <2>6
<1>4. CASE ~FindsLabel
  <2>1. pc' = "walk" /\ Books(V2, V2)'
    BY <1>2, <1>4
  <2>2. PICK A : Walking(br, S, B, A, V2)'
    BY <2>1 DEF Visiting
  <2>3. Walks'
    BY <2>1, <2>2 DEF Walks
  <2>4. QED
    BY <2>1, <2>3
<1>5. QED
  BY <1>3, <1>4

LEMMA TreeInvWalk ==
    ASSUME TreeInv, Typed',
           \/ StartTraversal \/ StartPredecessor \/ Predecessor \/ Thread
           \/ VisitLeftmost \/ VisitBehindThread \/ FoundLabel \/ EndTraversal
    PROVE  TreeInv'
<1>1. Typed /\ TypeOK' /\ nodes \subseteq Names
  BY DEF TreeInv, Typed, TypeOK
<1>2. CASE StartTraversal
  <2>1. pc = "idle" /\ pc' = "walk" /\ listing' = <<>>
    BY <1>2 DEF StartTraversal
  <2>2. PICK S, B : Resting(right, S, B, nodes)
    BY <2>1 DEF TreeInv, Rests
  <2>3. Walking(right, S, B, {}, {})'
    BY <1>1, <1>2, <2>2, WalkingStart
  <2>4. Books({}, {})'
    BY <1>1, <1>2, <2>1, BooksStart
  <2>5. Walks'
    BY <2>3, <2>4 DEF Walks
  <2>6. QED
    BY <2>1, <2>5 DEF TreeInv
<1>3. CASE StartPredecessor \/ Predecessor \/ Thread
  <2>1. pc = "walk" /\ pc' = "walk" /\ UNCHANGED <<nodes, bitVars, task, deleted_before, listing>>
    BY <1>3 DEF StartPredecessor, Predecessor, Thread, treeVars
  <2>2. PICK br, S, B, A, V : Walking(br, S, B, A, V) /\ Books(V, V)
    BY <2>1 DEF TreeInv, Walks
  <2>3. \E A2 : Walking(br, S, B, A2, V)'
    <3>1. CASE StartPredecessor
      BY <1>1, <2>2, <3>1, WalkingStartPredecessor
    <3>2. CASE Predecessor
      BY <1>1, <2>2, <3>2, WalkingPredecessor
    <3>3. CASE Thread
      BY <1>1, <2>2, <3>3, WalkingThread
    <3>4. QED
      BY <1>3, <3>1, <3>2, <3>3
  <2>4. Walks'
    BY <2>1, <2>2, <2>3, WalksKept
  <2>5. QED
    BY <2>1, <2>4 DEF TreeInv
<1>4. CASE VisitLeftmost \/ VisitBehindThread
  <2>1. /\ pc = "walk" /\ Visit
        /\ UNCHANGED <<nodes, kind, task, deleted_before, label_list>>
    BY <1>4 DEF VisitLeftmost, VisitBehindThread, treeVars
  <2>2. PICK br, S, B, A, V : Walking(br, S, B, A, V) /\ Books(V, V)
    BY <2>1 DEF TreeInv, Walks
  <2>3. PICK V2 : V2 = V \cup {node}
    OBVIOUS
  <2>4. /\ node \in nodes /\ node \notin V /\ \A m \in V : m < node
        /\ (\E A2 : Walking(br, S, B, A2, V2)') \/ Visiting(br, S, B, V2)'
    <3>1. CASE VisitLeftmost
      BY <1>1, <2>2, <2>3, <3>1, WalkingVisitLeftmost
    <3>2. CASE VisitBehindThread
      BY <1>1, <2>2, <2>3, <3>2, WalkingVisitBehindThread
    <3>3. QED
      BY <1>4, <3>1, <3>2
  <2>5. V \subseteq nodes
    BY <2>2 DEF Walking, Reached
  <2>6. (pc' = "walk" /\ Walks') \/ (pc' = "search" /\ task' # "none" /\ FindsForWalk')
    BY <1>1, <2>1, <2>2, <2>3, <2>4, <2>5, WalksVisited
  <2>7. QED
    BY <2>6 DEF TreeInv
<1>5. CASE FoundLabel
  <2>1. pc = "search" /\ task # "none" /\ pc' = "walk"
    BY <1>5 DEF FoundLabel
  <2>2. FindsLabel /\ name = LabelOf(node)
    BY <2>1 DEF TreeInv, FindsForWalk
  <2>3. PICK br, S, B, V : Visiting(br, S, B, V) /\ Seeking(S) /\ Books(V, V \ {node})
    BY <2>1 DEF TreeInv, FindsForWalk
  <2>4. \E A : Walking(br, S, B, A, V)'
    BY <1>1, <1>5, <2>3, WalkingFoundLabel
  <2>5. Books(V, V)'
    BY <1>1, <1>5, <2>2, <2>3, BooksFoundLabel
  <2>6. Walks'
    BY <2>4, <2>5 DEF Walks
  <2>7. QED
    BY <2>1, <2>6 DEF TreeInv
<1>6. CASE EndTraversal
  <2>1. pc = "walk" /\ pc' = "idle"
    BY <1>6 DEF EndTraversal
  <2>2. PICK br, S, B, A, V : Walking(br, S, B, A, V) /\ Books(V, V)
    BY <2>1 DEF TreeInv, Walks
  <2>3. Resting(right, S, B, nodes)'
    BY <1>1, <1>6, <2>2, WalkingEnd
  <2>4. Rests'
    BY <2>3 DEF Rests
  <2>5. QED
    BY <2>1, <2>4 DEF TreeInv
<1>7. QED
  BY <1>2, <1>3, <1>4, <1>5, <1>6

LEMMA TreeInvStutter == TreeInv /\ UNCHANGED vars /\ Typed' => TreeInv'
<1> SUFFICES ASSUME TreeInv, UNCHANGED vars, Typed' PROVE TreeInv'
  OBVIOUS
<1>1. UNCHANGED <<use, label_list, nodes, left, right, red, deleted, kind, pc, task, path, pathp,
                  node, pre, deleted_before, listing, name, explore, milestone>>
  BY DEF vars, treeVars, bitVars, pathVars, walkVars, searchVars
<1>2. Rests => Rests'
  BY <1>1 DEF Rests, Resting
<1>3. Descends => Descends'
  BY <1>1 DEF Descends, Descending, Resting
<1>4. Climbs => Climbs'
  <2>1. SUFFICES ASSUME NEW q, NEW c, NEW L, NEW R, NEW S, NEW B, Climbing(q, c, L, R, S, B)
                 PROVE  Climbing(q, c, L, R, S, B)'
    BY DEF Climbs
  <2>2. QED
    BY <1>1, <2>1, Zenon DEF Climbing
<1>5. Inserts => Inserts'
  BY <1>1 DEF Inserts
<1>6. \A V, W : Books(V, W) => Books(V, W)'
  BY <1>1 DEF Books, ValuesDefined, Holds
<1>7. Walks => Walks'
  BY <1>1, <1>6 DEF Walks, Walking, Resting
<1>8. Finds => Finds'
  BY <1>1 DEF Finds, Resting, Seeking
<1>9. FindsForWalk => FindsForWalk'
  <2>1. SUFFICES ASSUME FindsForWalk PROVE FindsForWalk'
    OBVIOUS
  <2>2. PICK br, S, B, V : Visiting(br, S, B, V) /\ Seeking(S) /\ Books(V, V \ {node})
    BY <2>1 DEF FindsForWalk
  <2>3. Visiting(br, S, B, V)' /\ Seeking(S)'
    BY <1>1, <2>2 DEF Visiting, Seeking, Resting
  <2>4. Books(V, V \ {node})'
    BY <1>1, <1>6, <2>2
  <2>5. FindsLabel' /\ (name = LabelOf(node))'
    BY <1>1, <2>1 DEF FindsForWalk, FindsLabel
  <2>6. QED
    BY <2>3, <2>4, <2>5 DEF FindsForWalk
<1>10. QED
  BY <1>1, <1>2, <1>3, <1>4, <1>5, <1>7, <1>8, <1>9 DEF TreeInv

LEMMA TreeInvNext == TreeInv /\ [Next]_vars => TreeInv'
<1> SUFFICES ASSUME TreeInv, [Next]_vars PROVE TreeInv'
  OBVIOUS
<1>1. Typed'
  BY TypedNext DEF TreeInv
<1>2. QED
  BY <1>1, TreeInvInsertion, TreeInvSearch, TreeInvWalk, TreeInvStutter DEF Next, Caller, Step

LEMMA TreeInvHolds == Spec => []TreeInv
  BY TreeInvInit, TreeInvNext, PTL DEF Spec

\* A search finds the name if and only if it is there: find_cat_label() takes the
\* thread that a traversal has left for what it is.
THEOREM TreeSearchFinds == Spec => []SearchFinds
<1>1. TreeInv => SearchFinds
  <2>1. SUFFICES ASSUME TreeInv, pc = "search", explore \in {Null, name}
                 PROVE  explore = IF name \in nodes THEN name ELSE Null
    BY DEF SearchFinds
  <2>2. PICK br, S, B : Resting(br, S, B, nodes) /\ Seeking(S)
    BY <2>1 DEF TreeInv, Finds, FindsForWalk, Visiting
  <2>3. QED
    BY <2>1, <2>2, SeekingEnd DEF TreeInv
<1>2. QED
  BY <1>1, TreeInvHolds, PTL

-----------------------------------------------------------------------------
(* Listings in order, and the operators that the properties compute with. *)

\* An increasing sequence of all members of a set has as many of them as the set.
LEMMA Counted ==
    ASSUME NEW U, U \subseteq Int, NEW f, Enumerates(f, U)
    PROVE  Cardinality(U) = Len(f)
<1> DEFINE k == Len(f)
<1>0. /\ k \in Nat /\ f \in [1..k -> U]
      /\ \A m \in U : \E i \in 1..k : f[i] = m
      /\ \A i, j \in 1..k : i < j => f[i] < f[j]
  BY DEF Enumerates
<1> HIDE DEF k
<1>1. ASSUME NEW i \in 1..k, NEW j \in 1..k, f[i] = f[j]
      PROVE  i = j
  <2>1. f[i] \in Int /\ f[j] \in Int
    BY <1>0
  <2>2. ~(i < j) /\ ~(j < i)
    BY <1>0, <1>1, <2>1
  <2>3. QED
    BY <1>0, <2>2
<1>2. f \in Injection(1..k, U)
  BY <1>0, <1>1 DEF Injection, IsInjective
<1>3. f \in Surjection(1..k, U)
  BY <1>0 DEF Surjection
<1>4. f \in Bijection(1..k, U)
  BY <1>2, <1>3 DEF Bijection
<1>5. ExistsBijection(1..k, U)
  BY <1>4 DEF ExistsBijection
<1>6. Cardinality(U) = k
  BY <1>0, <1>5, FS_CountingElements
<1>7. QED
  BY <1>6 DEF k

LEMMA StoreCounts == \A X : Store!Cardinality(X) = Cardinality(X)
  BY Zenon DEF Store!Cardinality, Cardinality

\* There is only one listing of a set in order.
LEMMA Listing ==
    ASSUME NEW T, T \subseteq Int, NEW s, Enumerates(s, T)
    PROVE  s = Store!Sorted(T) /\ Len(s) = Cardinality(T)
<1>1. /\ s \in Seq(T) /\ Len(s) \in Nat /\ s \in [1..Len(s) -> T]
      /\ \A m \in T : \E i \in 1..Len(s) : s[i] = m
      /\ \A i, j \in 1..Len(s) : i < j => s[i] < s[j]
  BY DEF Enumerates
<1>2. Cardinality(T) = Len(s)
  BY Counted
<1>3. ASSUME NEW i \in 1..Len(s)
      PROVE  Cardinality({m \in T : m < s[i]}) = i - 1
  <2> DEFINE U == {m \in T : m < s[i]}
             f == [j \in 1..i-1 |-> s[j]]
  <2>1. i - 1 \in Nat /\ i \in Nat /\ U \subseteq Int /\ s[i] \in Int
    <3>1. s[i] \in T /\ i \in Nat /\ i >= 1
      BY <1>1
    <3>2. U \subseteq Int
      OBVIOUS
    <3> HIDE DEF U, f
    <3>3. s[i] \in Int
      BY <3>1
    <3>4. i - 1 \in Nat
      BY <3>1
    <3>5. QED
      BY <3>1, <3>2, <3>3, <3>4
  <2>2. f \in [1..i-1 -> U]
    <3>1. \A j \in 1..i-1 : s[j] \in T /\ s[j] < s[i]
      BY <1>1
    <3>2. QED
      BY <3>1
  <2>3. ASSUME NEW m \in U PROVE \E j \in 1..i-1 : f[j] = m
    <3>1. PICK j \in 1..Len(s) : s[j] = m
      BY <1>1
    <3>2. ~(i <= j)
      <4>1. i < j => s[i] < s[j]
        BY <1>1
      <4>2. s[j] < s[i]
        BY <3>1
      <4>3. s[j] \in Int /\ s[i] \in Int
        BY <1>1
      <4>4. QED
        BY <4>1, <4>2, <4>3
    <3>3. j \in 1..i-1
      BY <3>2
    <3>4. QED
      BY <3>1, <3>3
  <2>4. \A j, l \in 1..i-1 : j < l => f[j] < f[l]
    BY <1>1
  <2> HIDE DEF U, f
  <2>7. f \in Seq(U) /\ Len(f) = i - 1
    BY <2>1, <2>2
  <2>8. Enumerates(f, U)
    BY <2>3, <2>4, <2>7 DEF Enumerates
  <2>5. Cardinality(U) = i - 1
    BY <2>1, <2>7, <2>8, Counted
  <2>6. QED
    BY <2>5 DEF U
<1>4. ASSUME NEW i \in 1..Len(s)
      PROVE  s[i] = CHOOSE n \in T : Store!Cardinality({m \in T : m < n}) = i - 1
  <2>1. s[i] \in T /\ Store!Cardinality({m \in T : m < s[i]}) = i - 1
    BY <1>1, <1>3, StoreCounts
  <2>2. ASSUME NEW n \in T, Store!Cardinality({m \in T : m < n}) = i - 1
        PROVE  n = s[i]
    <3>1. PICK j \in 1..Len(s) : s[j] = n
      BY <1>1
    <3>2. j - 1 = i - 1
      BY <1>3, <2>2, <3>1, StoreCounts
    <3>3. i = j
      BY <3>2
    <3>4. QED
      BY <3>1, <3>3
  <2>3. QED
    BY <2>1, <2>2
<1>5. s = [i \in 1..Len(s) |-> s[i]]
  BY <1>1
<1>6. Store!Sorted(T) = [i \in 1..Len(s) |-> CHOOSE n \in T : Store!Cardinality({m \in T : m < n}) = i - 1]
  <2>1. Store!Cardinality(T) = Len(s)
    BY <1>2, StoreCounts
  <2>2. QED
    BY <2>1 DEF Store!Sorted
<1>7. QED
  BY <1>2, <1>4, <1>5, <1>6

LEMMA EnumerateBoth ==
    ASSUME NEW T, NEW U, NEW s, NEW t, Enumerates(s, T), Enumerates(t, U),
           \A m \in T, n \in U : m < n
    PROVE  Enumerates(s \o t, T \cup U)
<1> DEFINE st == s \o t
<1>1. /\ s \in Seq(T) /\ t \in Seq(U) /\ Len(s) \in Nat /\ Len(t) \in Nat
      /\ s \in Seq(T \cup U) /\ t \in Seq(T \cup U)
  BY DEF Enumerates
<1>2. /\ st \in Seq(T \cup U) /\ Len(st) = Len(s) + Len(t)
      /\ \A i \in 1..Len(s) : st[i] = s[i] /\ s[i] \in T
      /\ \A i \in 1..Len(t) : st[Len(s) + i] = t[i] /\ t[i] \in U
  BY <1>1
<1> HIDE DEF st
<1>3. ASSUME NEW m \in T \cup U PROVE \E i \in 1..Len(st) : st[i] = m
  <2>1. CASE m \in T
    <3>1. PICK i \in 1..Len(s) : s[i] = m
      BY <2>1 DEF Enumerates
    <3>2. i \in 1..Len(st) /\ st[i] = m
      BY <1>1, <1>2, <3>1
    <3>3. QED
      BY <3>2
  <2>2. CASE m \in U
    <3>1. PICK i \in 1..Len(t) : t[i] = m
      BY <2>2 DEF Enumerates
    <3>2. Len(s) + i \in 1..Len(st) /\ st[Len(s) + i] = m
      BY <1>1, <1>2, <3>1
    <3>3. QED
      BY <3>2
  <2>3. QED
    BY <2>1, <2>2
<1>4. ASSUME NEW i \in 1..Len(st), NEW j \in 1..Len(st), i < j
      PROVE  st[i] < st[j]
  <2>1. CASE j <= Len(s)
    <3>1. i \in 1..Len(s) /\ j \in 1..Len(s)
      BY <1>1, <1>4, <2>1
    <3>2. QED
      BY <1>2, <1>4, <3>1 DEF Enumerates
  <2>2. CASE Len(s) < j
    <3>1. PICK l : l = j - Len(s)
      OBVIOUS
    <3>2. l \in 1..Len(t) /\ j = Len(s) + l
      BY <1>1, <1>2, <2>2, <3>1
    <3>3. CASE i <= Len(s)
      <4>1. st[i] \in T /\ st[j] \in U
        BY <1>2, <3>2, <3>3
      <4>2. QED
        BY <4>1
    <3>4. CASE Len(s) < i
      <4>1. PICK h : h = i - Len(s)
        OBVIOUS
      <4>2. h \in 1..Len(t) /\ i = Len(s) + h /\ h < l
        BY <1>1, <1>2, <1>4, <3>2, <3>4, <4>1
      <4>3. t[h] < t[l]
        BY <3>2, <4>2 DEF Enumerates
      <4>4. QED
        BY <1>2, <3>2, <4>2, <4>3
    <3>5. QED
      BY <1>1, <3>3, <3>4
  <2>3. QED
    BY <1>1, <2>1, <2>2
<1>5. Enumerates(st, T \cup U)
  BY <1>2, <1>3, <1>4 DEF Enumerates
<1>6. QED
  BY <1>5 DEF st

\* The walk through a search tree lists its names in order.
LEMMA InOrderIsListing ==
    ASSUME NEW L, NEW R, NEW S, IsTree(L, R, S), NEW root \in NodeOrNull
    PROVE  LET walk[n \in NodeOrNull] ==
                   IF n = Null THEN <<>> ELSE walk[L[n]] \o <<n>> \o walk[R[n]]
           IN  Enumerates(walk[root], S[root])
<1> DEFINE F(g) == [n \in NodeOrNull |-> IF n = Null THEN <<>> ELSE g[L[n]] \o <<n>> \o g[R[n]]]
           walk == CHOOSE g : g = F(g)
           W == [n \in NodeOrNull |-> Store!Sorted(S[n])]
           G == {n \in NodeOrNull : Enumerates(W[n], S[n])}
<1>1. \A n \in NodeOrNull : S[n] \subseteq Int /\ W[n] = Store!Sorted(S[n])
  BY NamesAreNumbers DEF IsTree
<1>2. S[Null] = {} /\ Null \in NodeOrNull /\ Null \notin Names /\ NodeOrNull = Names \cup {Null}
  BY NamesAreNumbers DEF IsTree, NodeOrNull
<1> HIDE DEF W
<1>3. W[Null] = <<>> /\ Null \in G
  <2>1. Enumerates(<<>>, {})
    BY DEF Enumerates
  <2>2. Enumerates(<<>>, S[Null])
    BY <1>2, <2>1
  <2>3. W[Null] = <<>>
    BY <1>1, <1>2, <2>2, Listing
  <2>4. QED
    BY <1>2, <2>2, <2>3
<1>4. ASSUME NEW n \in Names, L[n] \in G, R[n] \in G
      PROVE  n \in G /\ W[n] = W[L[n]] \o <<n>> \o W[R[n]]
  <2>1. PICK a, b, c, d : a = S[L[n]] /\ b = S[R[n]] /\ c = W[L[n]] /\ d = W[R[n]]
    OBVIOUS
  <2>2. /\ S[n] = {n} \cup a \cup b /\ (\A m \in a : m < n /\ m \in Int) /\ n \in Int
        /\ \A m \in b : n < m /\ m \in Int
    BY <2>1, TreeSteps
  <2>3. Enumerates(c, a) /\ Enumerates(d, b)
    BY <1>4, <2>1
  <2>4. Enumerates(<<n>>, {n})
    BY DEF Enumerates
  <2>5. \A m \in a, k \in {n} : m < k
    BY <2>2
  <2>6. Enumerates(c \o <<n>>, a \cup {n})
    BY <2>3, <2>4, <2>5, EnumerateBoth
  <2>7. \A m \in a \cup {n}, k \in b : m < k
    BY <2>2
  <2>8. Enumerates((c \o <<n>>) \o d, (a \cup {n}) \cup b)
    BY <2>3, <2>6, <2>7, EnumerateBoth
  <2>9. (a \cup {n}) \cup b = S[n]
    BY <2>2
  <2>10. Enumerates((c \o <<n>>) \o d, S[n])
    BY <2>8, <2>9
  <2>11. n \in NodeOrNull
    BY <1>2
  <2>12. W[n] = (c \o <<n>>) \o d
    BY <1>1, <2>10, <2>11, Listing
  <2>13. QED
    BY <2>1, <2>10, <2>11, <2>12
<1>5. NodeOrNull \subseteq G
  <2> HIDE DEF G
  <2> QED
    BY <1>3, <1>4, TreeInduction
<1>6. \A n \in Names : L[n] \in NodeOrNull /\ R[n] \in NodeOrNull
  BY DEF IsTree
<1>7. \A n \in NodeOrNull : W[n] = IF n = Null THEN <<>> ELSE W[L[n]] \o <<n>> \o W[R[n]]
  BY <1>2, <1>3, <1>4, <1>5, <1>6
<1>8. W = F(W)
  <2>1. W = [n \in NodeOrNull |-> W[n]]
    BY DEF W
  <2>2. QED
    BY <1>7, <2>1
<1>9. walk = F(walk)
  BY <1>8
<1>10. ASSUME NEW g, g = F(g)
       PROVE  g[root] = W[root]
  <2> DEFINE H == {n \in NodeOrNull : g[n] = W[n]}
  <2>1. Null \in H
    BY <1>2, <1>3, <1>10
  <2>2. ASSUME NEW n \in Names, L[n] \in H, R[n] \in H
        PROVE  n \in H
    <3>1. n \in NodeOrNull /\ n # Null
      BY <1>2
    <3>2. g[n] = g[L[n]] \o <<n>> \o g[R[n]]
      BY <1>10, <3>1
    <3>3. W[n] = W[L[n]] \o <<n>> \o W[R[n]]
      BY <1>7, <3>1
    <3>4. QED
      BY <2>2, <3>1, <3>2, <3>3
  <2>3. NodeOrNull \subseteq H
    <3> HIDE DEF H
    <3> QED
      BY <2>1, <2>2, TreeInduction
  <2>4. QED
    BY <2>3
<1>11. walk[root] = W[root]
  <2> HIDE DEF walk, F
  <2> QED
    BY <1>9, <1>10
<1>12. Enumerates(W[root], S[root])
  BY <1>5
<1>13. QED
  BY <1>11, <1>12

\* The number of black nodes on the paths is what the properties compute.
LEMMA HeightIsBlack ==
    ASSUME NEW L, NEW R, NEW S, IsTree(L, R, S), NEW C, NEW B, EvenTree(L, R, C, B),
           NEW root \in NodeOrNull
    PROVE  LET height[n \in NodeOrNull] ==
                   IF n = Null THEN 0
                   ELSE LET l == height[L[n]]
                            r == height[R[n]]
                        IN  IF l < 0 \/ l # r THEN -1
                            ELSE IF C[n] THEN l ELSE l + 1
           IN  height[root] = B[root]
<1> DEFINE Height(n, l, r) == IF l < 0 \/ l # r THEN -1 ELSE IF C[n] THEN l ELSE l + 1
           F(g) == [n \in NodeOrNull |-> IF n = Null THEN 0 ELSE Height(n, g[L[n]], g[R[n]])]
           height == CHOOSE g : g = F(g)
<1>1. Null \in NodeOrNull /\ Null \notin Names /\ NodeOrNull = Names \cup {Null}
  BY NamesAreNumbers DEF NodeOrNull
<1>2. ASSUME NEW n \in Names
      PROVE  B[n] = Height(n, B[L[n]], B[R[n]])
  <2>1. L[n] \in NodeOrNull
    BY DEF IsTree
  <2>2. B[L[n]] \in Nat /\ Even(L, R, C, B, n)
    BY <2>1 DEF EvenTree
  <2>3. QED
    BY <2>2 DEF Even
<1>3. B[Null] = 0 /\ B = [n \in NodeOrNull |-> B[n]]
  BY DEF EvenTree
<1>4. B = F(B)
  <2> HIDE DEF Height
  <2>1. \A n \in NodeOrNull : B[n] = IF n = Null THEN 0 ELSE Height(n, B[L[n]], B[R[n]])
    BY <1>1, <1>2, <1>3
  <2>2. QED
    BY <1>3, <2>1
<1>5. height = F(height)
  BY <1>4
<1>6. ASSUME NEW g, g = F(g)
      PROVE  g[root] = B[root]
  <2> DEFINE H == {n \in NodeOrNull : g[n] = B[n]}
  <2> HIDE DEF Height
  <2>1. Null \in H
    BY <1>1, <1>3, <1>6
  <2>2. ASSUME NEW n \in Names, L[n] \in H, R[n] \in H
        PROVE  n \in H
    <3>1. n \in NodeOrNull /\ n # Null
      BY <1>1
    <3>2. g[n] = Height(n, g[L[n]], g[R[n]])
      BY <1>6, <3>1
    <3>3. QED
      BY <1>2, <2>2, <3>1, <3>2
  <2>3. NodeOrNull \subseteq H
    <3> HIDE DEF H
    <3> QED
      BY <2>1, <2>2, TreeInduction
  <2>4. QED
    BY <2>3
<1>7. height[root] = B[root]
  <2> HIDE DEF height, F
  <2> QED
    BY <1>5, <1>6
<1>8. QED
  BY <1>7

\* The tree is a balanced search tree between operations: insertion keeps the order,
\* the colours and the number of black nodes, and a traversal removes its threads.
THEOREM TreeIsRedBlack == Spec => []RedBlackTree
<1>1. TreeInv => RedBlackTree
  <2>1. SUFFICES ASSUME TreeInv, pc = "idle" PROVE RedBlackTree
    BY DEF RedBlackTree
  <2>2. PICK S, B : Resting(right, S, B, nodes)
    BY <2>1 DEF TreeInv, Rests
  <2>3. /\ IsTree(left, right, S) /\ EvenTree(left, right, red, B) /\ label_list \in NodeOrNull
        /\ S[label_list] = nodes /\ nodes \subseteq Names
        /\ \A n \in Names : Lean(left, right, red, n)
        /\ ~RedIn(red, label_list)
    BY <2>1, <2>2 DEF Resting, Rooted, TreeInv, Typed, TypeOK
  <2>4. PICK L, R, C, root, T, s : L = left /\ R = right /\ C = red /\ root = label_list /\ T = nodes
                                /\ s = InOrder
    OBVIOUS
  <2>5. Enumerates(s, T)
    <3>1. IsTree(L, R, S) /\ root \in NodeOrNull
      BY <2>3, <2>4
    <3>2. LET walk[n \in NodeOrNull] ==
                  IF n = Null THEN <<>> ELSE walk[L[n]] \o <<n>> \o walk[R[n]]
          IN  Enumerates(walk[root], S[root])
      BY <3>1, InOrderIsListing
    <3>3. QED
      BY <2>3, <2>4, <3>2 DEF InOrder
  <2>6. {InOrder[i] : i \in DOMAIN InOrder} = nodes
    <3>1. {s[i] : i \in DOMAIN s} = T
      BY <2>5 DEF Enumerates
    <3>2. QED
      BY <2>4, <3>1
  <2>7. \A i \in 1..Len(InOrder) - 1 : InOrder[i] < InOrder[i + 1]
    <3>1. Len(s) \in Nat /\ \A i, j \in 1..Len(s) : i < j => s[i] < s[j]
      BY <2>5 DEF Enumerates
    <3>2. \A i \in 1..Len(s) - 1 : s[i] < s[i + 1]
      BY <3>1
    <3>3. QED
      BY <2>4, <3>2
  <2>8. BlackHeight >= 0
    <3>1. IsTree(L, R, S) /\ EvenTree(L, R, C, B) /\ root \in NodeOrNull
      BY <2>3, <2>4
    <3>2. LET height[n \in NodeOrNull] ==
                  IF n = Null THEN 0
                  ELSE LET l == height[L[n]]
                           r == height[R[n]]
                       IN  IF l < 0 \/ l # r THEN -1
                           ELSE IF C[n] THEN l ELSE l + 1
          IN  height[root] = B[root]
      BY <3>1, HeightIsBlack
    <3>3. BlackHeight = B[root]
      BY <2>4, <3>2 DEF BlackHeight
    <3>4. B[root] \in Nat
      BY <3>1 DEF EvenTree
    <3>5. QED
      BY <3>3, <3>4
  <2>9. QED
    BY <2>3, <2>6, <2>7, <2>8 DEF RedBlackTree, Lean, RedIn, IsRed
<1>2. QED
  BY <1>1, TreeInvHolds, PTL

-----------------------------------------------------------------------------
(* The tree implements the store. *)

\* What the store holds; the node that is being inserted is not there yet.
Stores(N, D, K, P) ==
    /\ N = IF inserting THEN nodes \ {name} ELSE nodes
    /\ K = IF inserting THEN [kind EXCEPT ![name] = "none"] ELSE kind
    /\ D = IF task \in {"reset", "special"} THEN deleted_before ELSE deleted
    /\ P = IF task = "print" THEN <<>> ELSE listing

StoreStep == [Store!Next]_Store!vars

LEMMA StoreStutters ==
    ASSUME NEW N, NEW D, NEW K, NEW P, Stores(N, D, K, P), Stores(N, D, K, P)'
    PROVE  StoreStep
  BY DEF Stores, StoreStep, Store!vars

LEMMA StoreForgets ==
    ASSUME NEW N, NEW D, NEW K, NEW P, Stores(N, D, K, P), Stores(N, D, K, <<>>)'
    PROVE  StoreStep
<1>1. Store!Forget
  BY DEF Stores, Store!Forget
<1>2. QED
  BY <1>1 DEF StoreStep, Store!Next

LEMMA StoreDefines ==
    ASSUME NEW N, NEW D, NEW K, NEW P, Stores(N, D, K, P), NEW n \in Names \ N, NEW k \in Store!KindsOf(n),
           Stores(N \cup {n}, D, [K EXCEPT ![n] = k], <<>>)'
    PROVE  StoreStep
<1>1. Store!Define
  BY DEF Stores, Store!Define
<1>2. QED
  BY <1>1 DEF StoreStep, Store!Next

LEMMA StoreMarks ==
    ASSUME NEW N, NEW D, NEW K, NEW P, Stores(N, D, K, P), NEW n \in N, NEW D2, NEW K2,
           \/ D2 = D \cup {n} /\ K2 = K
           \/ n \in D /\ D2 = D \ {n} /\ \E k \in Store!KindsOf(n) : K2 = [K EXCEPT ![n] = k],
           Stores(N, D2, K2, <<>>)'
    PROVE  StoreStep
<1>1. Store!Mark
  BY DEF Stores, Store!Mark
<1>2. QED
  BY <1>1 DEF StoreStep, Store!Next

LEMMA StoreKinds == \A n : Store!KindsOf(n) = KindsOf(n)
  BY DEF Store!KindsOf, KindsOf, Store!Kinds, Kinds

LEMMA StoreInit == Init => Store!Init
<1> SUFFICES ASSUME Init PROVE Store!Init
  OBVIOUS
<1>1. ~inserting /\ task = "none" /\ nodes = {} /\ deleted = {} /\ listing = <<>>
      /\ kind = [n \in Names |-> "none"]
  BY DEF Init, inserting
<1>2. QED
  BY <1>1 DEF Store!Init

LEMMA StoreInsertion ==
    ASSUME TreeInv, Typed', StartDefine \/ Descend \/ Ascend \/ NewRoot
    PROVE  StoreStep
<1>1. TypeOK /\ Linked /\ Control
  BY DEF TreeInv, Typed
<1>2. TypeOK' /\ Control' /\ kind' \in [Names -> Kinds] /\ kind \in [Names -> Kinds]
  BY <1>1 DEF Typed, TypeOK
<1>3. CASE StartDefine
  <2>1. PICK n \in usedNames \ nodes, k \in Kinds :
           name' = n /\ nodes' = nodes \cup {n} /\ kind' = [kind EXCEPT ![n] = k]
    BY <1>3 DEF StartDefine
  <2>2. /\ pc = "idle" /\ pc' = "descend" /\ deleted' = deleted /\ task' = task /\ task = "none"
        /\ listing' = <<>>
    BY <1>1, <1>3 DEF StartDefine, Control
  <2>3. n \in Names
    BY <1>2, <2>1, <2>2 DEF Control, TypeOK
  <2>4. kind[n] = "none"
    BY <1>1, <2>1, <2>3 DEF Linked
  <2>5. [kind' EXCEPT ![n] = "none"] = kind
    BY <1>2, <2>1, <2>3, <2>4
  <2>6. nodes' \ {n} = nodes
    BY <2>1
  <2>7. PICK N, D, K, P : N = nodes /\ D = deleted /\ K = kind /\ P = listing
    OBVIOUS
  <2>8. Stores(N, D, K, P)
    BY <2>2, <2>7 DEF Stores, inserting
  <2>9. Stores(N, D, K, <<>>)'
    BY <2>1, <2>2, <2>5, <2>6, <2>7 DEF Stores, inserting
  <2>10. QED
    BY <2>8, <2>9, StoreForgets
<1>4. CASE Descend \/ (Ascend /\ pc' = "ascend")
  <2>1. /\ pc \in {"descend", "ascend"} /\ pc' \in {"descend", "ascend"} /\ nodes' = nodes
        /\ kind' = kind /\ deleted' = deleted /\ task' = task /\ listing' = listing
        /\ deleted_before' = deleted_before
    BY <1>4 DEF Descend, Ascend, treeVars, bitVars, walkVars
  <2>2. name' = name
    BY <1>4 DEF Descend, Ascend, EndInsertion, searchVars
  <2>3. PICK N, D, K, P : Stores(N, D, K, P)
    BY DEF Stores
  <2>4. Stores(N, D, K, P)'
    BY <2>1, <2>2, <2>3 DEF Stores, inserting
  <2>5. QED
    BY <2>3, <2>4, StoreStutters
<1>5. CASE (Ascend /\ pc' # "ascend") \/ NewRoot
  <2>1. /\ pc = "ascend" /\ pc' = "idle" /\ nodes' = nodes /\ kind' = kind /\ deleted' = deleted
        /\ task' = task /\ listing' = listing
    BY <1>5 DEF Ascend, NewRoot, EndInsertion, treeVars, bitVars
  <2>2. /\ task = "none" /\ listing = <<>> /\ kind[name] \in KindsOf(name)
        /\ name \in nodes /\ name \in Names
    BY <1>1, <2>1 DEF TreeInv, Inserts, Control, TypeOK
  <2>3. PICK n, k, N, D, K, P : /\ n = name /\ k = kind[name] /\ N = nodes \ {name} /\ D = deleted
                                /\ K = [kind EXCEPT ![name] = "none"] /\ P = listing
    OBVIOUS
  <2>4. Stores(N, D, K, P)
    BY <2>1, <2>2, <2>3 DEF Stores, inserting
  <2>5. n \in Names \ N /\ k \in Store!KindsOf(n)
    BY <2>2, <2>3, StoreKinds
  <2>6. nodes = N \cup {n}
    BY <2>2, <2>3
  <2>7. kind = [K EXCEPT ![n] = k]
    BY <1>2, <2>2, <2>3
  <2>8. Stores(N \cup {n}, D, [K EXCEPT ![n] = k], <<>>)'
    BY <2>1, <2>2, <2>3, <2>6, <2>7 DEF Stores, inserting
  <2>9. QED
    BY <2>4, <2>5, <2>8, StoreDefines
<1>6. QED
  BY <1>3, <1>4, <1>5

LEMMA StoreCallers ==
    ASSUME Typed, Delete \/ Undelete \/ StartFind \/ StartTraversal
    PROVE  StoreStep
<1>1. TypeOK /\ Control /\ kind \in [Names -> Kinds] /\ deleted \subseteq nodes
  BY DEF Typed, TypeOK
<1>2. /\ pc = "idle" /\ pc' \notin {"descend", "ascend"} /\ task = "none" /\ nodes' = nodes
      /\ listing' = <<>>
  BY <1>1 DEF Delete, Undelete, StartFind, BeginSearch, StartTraversal, treeVars, Control
<1>3. PICK N, D, K, P : N = nodes /\ D = deleted /\ K = kind /\ P = listing
  OBVIOUS
<1>4. Stores(N, D, K, P)
  BY <1>2, <1>3 DEF Stores, inserting
<1>5. CASE Delete
  <2>1. PICK n \in nodes : deleted' = deleted \cup {n}
    BY <1>5 DEF Delete
  <2>2. kind' = kind /\ task' = task
    BY <1>5 DEF Delete
  <2>3. Stores(N, D \cup {n}, K, <<>>)'
    BY <1>2, <1>3, <2>1, <2>2 DEF Stores, inserting
  <2>4. n \in N
    BY <1>3, <2>1
  <2>5. QED
    BY <1>4, <2>3, <2>4, StoreMarks
<1>6. CASE Undelete
  <2>1. PICK n \in deleted, k \in Kinds :
           k \in KindsOf(n) /\ deleted' = deleted \ {n} /\ kind' = [kind EXCEPT ![n] = k]
    BY <1>6 DEF Undelete
  <2>2. task' = task
    BY <1>6 DEF Undelete
  <2>3. PICK K2 : K2 = [K EXCEPT ![n] = k]
    OBVIOUS
  <2>4. Stores(N, D \ {n}, K2, <<>>)'
    BY <1>2, <1>3, <2>1, <2>2, <2>3 DEF Stores, inserting
  <2>5. n \in N /\ n \in D /\ k \in Store!KindsOf(n)
    BY <1>1, <1>3, <2>1, StoreKinds
  <2>6. PICK D2 : D2 = D \ {n}
    OBVIOUS
  <2>7. /\ n \in D /\ D2 = D \ {n} /\ \E j \in Store!KindsOf(n) : K2 = [K EXCEPT ![n] = j]
        /\ Stores(N, D2, K2, <<>>)'
    BY <2>3, <2>4, <2>5, <2>6
  <2>8. QED
    BY <1>4, <2>5, <2>7, StoreMarks
<1>7. CASE StartFind
  <2>1. kind' = kind /\ deleted' = deleted /\ task' = task
    BY <1>7 DEF StartFind, bitVars
  <2>2. Stores(N, D, K, <<>>)'
    BY <1>2, <1>3, <2>1 DEF Stores, inserting
  <2>3. QED
    BY <1>4, <2>2, StoreForgets
<1>8. CASE StartTraversal
  <2>1. kind' = kind /\ deleted' = deleted /\ deleted_before' = deleted
    BY <1>8 DEF StartTraversal, bitVars
  <2>2. Stores(N, D, K, <<>>)'
    BY <1>2, <1>3, <2>1 DEF Stores, inserting
  <2>3. QED
    BY <1>4, <2>2, StoreForgets
<1>9. QED
  BY <1>5, <1>6, <1>7, <1>8

LEMMA StoreRounds ==
    ASSUME TreeInv,
           \/ Search \/ EndFind \/ StartPredecessor \/ Predecessor \/ Thread
           \/ VisitLeftmost \/ VisitBehindThread \/ FoundLabel
    PROVE  StoreStep
<1>1. Control
  BY DEF TreeInv, Typed
<1>2. /\ pc \in {"walk", "search"} /\ pc' \notin {"descend", "ascend"}
      /\ nodes' = nodes /\ kind' = kind /\ task' = task
      /\ deleted_before' = deleted_before
  BY <1>1 DEF Search, EndFind, StartPredecessor, Predecessor, Thread, VisitLeftmost,
              VisitBehindThread, FoundLabel, Visit, BeginSearch, treeVars, bitVars, walkVars
<1>3. task \notin {"reset", "special"} => deleted' = deleted
  <2>1. CASE FoundLabel
    BY <2>1 DEF FoundLabel, TreeInv, FindsForWalk, FindsLabel
  <2>2. CASE VisitLeftmost \/ VisitBehindThread
    <3>1. task # "none"
      BY <1>1, <2>2 DEF VisitLeftmost, VisitBehindThread, Control
    <3>2. task \in {"none", "print", "reset", "special"}
      BY DEF TreeInv, Typed, TypeOK
    <3>3. QED
      BY <2>2, <3>1, <3>2 DEF VisitLeftmost, VisitBehindThread, Visit
  <2>3. CASE ~FoundLabel /\ ~(VisitLeftmost \/ VisitBehindThread)
    BY <2>3 DEF Search, EndFind, StartPredecessor, Predecessor, Thread, bitVars
  <2>4. QED
    BY <2>1, <2>2, <2>3
<1>4. task # "print" => listing' = listing
  BY DEF Search, EndFind, StartPredecessor, Predecessor, Thread, VisitLeftmost,
         VisitBehindThread, FoundLabel, Visit
<1>5. PICK N, D, K, P : Stores(N, D, K, P)
  BY DEF Stores
<1>6. Stores(N, D, K, P)'
  BY <1>2, <1>3, <1>4, <1>5 DEF Stores, inserting
<1>7. QED
  BY <1>5, <1>6, StoreStutters

\* At the end of a traversal the store has been listed or reset.
LEMMA StoreEnd ==
    ASSUME TreeInv, EndTraversal
    PROVE  StoreStep
<1>1. Typed /\ nodes \subseteq Names /\ pc = "walk" /\ task \in {"print", "reset", "special"}
      /\ deleted \subseteq nodes
  BY DEF TreeInv, Typed, TypeOK, Control, EndTraversal
<1>2. PICK br, S, B, A, V : Walking(br, S, B, A, V) /\ Books(V, V)
  BY <1>1 DEF TreeInv, Walks
<1>3. Books(nodes, nodes)
  <2>1. V = nodes
    BY <1>1, <1>2, WalkingEnd
  <2>2. QED
    BY <1>2, <2>1
<1>4. /\ pc' = "idle" /\ task' = "none" /\ nodes' = nodes /\ kind' = kind /\ deleted' = deleted
      /\ listing' = listing
  BY DEF EndTraversal, treeVars, bitVars
<1>5. PICK N, D, K, P, D2, P2 : Stores(N, D, K, P) /\ Stores(N, D2, K, P2)'
                                /\ N = nodes /\ K = kind /\ D2 = deleted /\ P2 = listing
  BY <1>1, <1>4 DEF Stores, inserting
<1>6. CASE task = "print"
  <2>1. D2 = D
    BY <1>5, <1>6 DEF Stores
  <2>2. Enumerates(P2, N \ Macros)
    BY <1>3, <1>5, <1>6 DEF Books
  <2>3. N \ Macros \subseteq Int
    BY <1>1, <1>5, NamesAreNumbers
  <2>4. P2 = Store!Sorted(N \ Macros)
    BY <2>2, <2>3, Listing
  <2>5. Store!List
    BY <1>5, <2>1, <2>4 DEF Store!List, Stores
  <2>6. QED
    BY <2>5 DEF StoreStep, Store!Next
<1>7. ASSUME NEW k \in {"value", "cmdline"}, NEW l
      PROVE  Holds(N, k, l) <=> l \in {LabelOf(m) : m \in {m \in N \cap Macros : K[m] = k}} \cap N
  BY <1>3, <1>5 DEF Holds, Books, ValuesDefined
<1>8. CASE task = "reset"
  <2>1. P2 = <<>> /\ D = deleted_before /\ D \subseteq N
    BY <1>1, <1>3, <1>5, <1>8 DEF Stores, Books, Typed, TypeOK
  <2>2. ASSUME NEW l \in Names
        PROVE  l \in D2 <=>
                  \/ l \in D
                  \/ l \in {m \in N \cap Macros : K[m] # "cmdline"}
                  \/ l \in {LabelOf(m) : m \in {m \in N \cap Macros : K[m] = "value"}} \cap N
    <3>1. l \in D2 <=>
             \/ l \in D
             \/ l \in N \cap Macros /\ K[l] # "cmdline"
             \/ Holds(N, "value", l)
      BY <1>3, <1>5, <1>8, <2>1 DEF Books
    <3>2. Holds(N, "value", l) <=>
             l \in {LabelOf(m) : m \in {m \in N \cap Macros : K[m] = "value"}} \cap N
      BY <1>7
    <3>3. QED
      BY <3>1, <3>2
  <2>3. D2 = D \cup {m \in N \cap Macros : K[m] # "cmdline"}
               \cup ({LabelOf(m) : m \in {m \in N \cap Macros : K[m] = "value"}} \cap N)
    BY <1>1, <1>5, <2>1, <2>2
  <2>4. Store!Reset(FALSE)
    BY <1>5, <2>1, <2>3 DEF Store!Reset, Store!DeletedByReset, Store!OwnMacros, Store!LabelsOf, Stores
  <2>5. QED
    BY <2>4 DEF StoreStep, Store!Next
<1>9. CASE task = "special"
  <2>1. P2 = <<>> /\ D = deleted_before /\ D \subseteq N
    BY <1>1, <1>3, <1>5, <1>9 DEF Stores, Books, Typed, TypeOK
  <2>2. ASSUME NEW l \in Names
        PROVE  l \in D2 <=>
                  /\ \/ l \in D
                     \/ l \in {m \in N \cap Macros : K[m] # "cmdline"}
                     \/ l \in N \ Macros
                  /\ l \notin {LabelOf(m) : m \in {m \in N \cap Macros : K[m] = "cmdline"}} \cap N
    <3>1. l \in D2 <=>
             /\ \/ l \in D
                \/ l \in N \cap Macros /\ K[l] # "cmdline"
                \/ l \in N \ Macros
             /\ ~Holds(N, "cmdline", l)
      BY <1>3, <1>5, <1>9, <2>1 DEF Books
    <3>2. Holds(N, "cmdline", l) <=>
             l \in {LabelOf(m) : m \in {m \in N \cap Macros : K[m] = "cmdline"}} \cap N
      BY <1>7
    <3>3. QED
      BY <3>1, <3>2
  <2>3. D2 = (D \cup {m \in N \cap Macros : K[m] # "cmdline"} \cup (N \ Macros))
               \ ({LabelOf(m) : m \in {m \in N \cap Macros : K[m] = "cmdline"}} \cap N)
    BY <1>1, <1>5, <2>1, <2>2
  <2>4. Store!Reset(TRUE)
    BY <1>5, <2>1, <2>3 DEF Store!Reset, Store!DeletedByReset, Store!OwnMacros, Store!LabelsOf, Stores
  <2>5. QED
    BY <2>4 DEF StoreStep, Store!Next
<1>10. QED
  BY <1>1, <1>6, <1>8, <1>9

LEMMA StoreStuttering == UNCHANGED vars => StoreStep
<1> SUFFICES ASSUME UNCHANGED vars PROVE StoreStep
  OBVIOUS
<1>1. UNCHANGED <<nodes, deleted, kind, pc, task, deleted_before, listing, name>>
  BY DEF vars, treeVars, bitVars, walkVars, searchVars
<1>2. PICK N, D, K, P : Stores(N, D, K, P)
  BY DEF Stores
<1>3. Stores(N, D, K, P)'
  BY <1>1, <1>2 DEF Stores, inserting
<1>4. QED
  BY <1>2, <1>3, StoreStutters

\* The tree is a set of names with their deleted bits and kinds, in which every
\* operation of define_label(), find_cat_label(), print_labels_sorted_to_listing()
\* and reset_macros() is one step.
THEOREM TreeImplementsStore == Spec => ImplementsStore
<1>1. TreeInv /\ TreeInv' /\ [Next]_vars => StoreStep
  <2>1. SUFFICES ASSUME TreeInv, TreeInv', [Next]_vars PROVE StoreStep
    OBVIOUS
  <2>2. Typed /\ Typed'
    BY <2>1 DEF TreeInv
  <2>3. QED
    BY <2>1, <2>2, StoreInsertion, StoreCallers, StoreRounds, StoreEnd, StoreStuttering
       DEF Next, Caller, Step
<1>2. TreeInv /\ TreeInv' /\ [Next]_vars => [Store!Next]_Store!vars
  BY <1>1 DEF StoreStep
<1>3. QED
  BY <1>2, StoreInit, TreeInvHolds, PTL DEF Spec, ImplementsStore, Store!Spec

-----------------------------------------------------------------------------
(* The length of the path of an insertion. *)

\* A tree has many nodes, if many black ones are on its paths.
LEMMA TreeIsLarge ==
    ASSUME NEW L, NEW R, NEW S, IsTree(L, R, S), NEW C, NEW B, EvenTree(L, R, C, B),
           NEW root \in NodeOrNull
    PROVE  IsFiniteSet(S[root]) /\ 2^B[root] <= Cardinality(S[root]) + 1
<1> DEFINE Large(n) == IsFiniteSet(S[n]) /\ 2^B[n] <= Cardinality(S[n]) + 1
           G == {n \in NodeOrNull : Large(n)}
<1>1. Null \in G
  <2>1. S[Null] = {} /\ B[Null] = 0 /\ Null \in NodeOrNull
    BY DEF IsTree, EvenTree, NodeOrNull
  <2>2. PICK z \in Nat : z = 0
    OBVIOUS
  <2>3. 2^z = 1
    <3>1. Cardinality(SUBSET (1..z)) = 2^z
      BY Subsets
    <3>2. SUBSET (1..z) = {{}}
      BY <2>2
    <3>3. Cardinality({{}}) = 1
      BY FS_Singleton
    <3>4. QED
      BY <3>1, <3>2, <3>3
  <2>4. IsFiniteSet({}) /\ Cardinality({}) = 0
    BY FS_EmptySet
  <2>5. IsFiniteSet(S[Null]) /\ 2^B[Null] = 1 /\ Cardinality(S[Null]) = 0
    BY <2>1, <2>2, <2>3, <2>4
  <2>6. Large(Null)
    <3>1. PICK x, y : x = 2^B[Null] /\ y = Cardinality(S[Null])
      OBVIOUS
    <3>2. x <= y + 1
      BY <2>5, <3>1
    <3>3. QED
      BY <2>5, <3>1, <3>2
  <2> HIDE DEF Large
  <2>7. QED
    BY <2>1, <2>6
<1>2. ASSUME NEW n \in Names, L[n] \in G, R[n] \in G
      PROVE  n \in G
  <2>1. PICK a, b, bl : a = S[L[n]] /\ b = S[R[n]] /\ bl = B[L[n]]
    OBVIOUS
  <2>2. /\ S[n] = {n} \cup a \cup b /\ (\A m \in a : m < n /\ m \in Int) /\ n \in Int
        /\ \A m \in b : n < m /\ m \in Int
    BY <2>1, TreeSteps
  <2>3. L[n] \in NodeOrNull /\ n \in NodeOrNull
    BY TreeSteps DEF NodeOrNull
  <2>4. bl \in Nat /\ B[R[n]] = bl /\ B[n] \in Nat /\ B[n] <= bl + 1
    <3>1. bl \in Nat /\ B[n] \in Nat /\ Even(L, R, C, B, n)
      BY <2>1, <2>3 DEF EvenTree
    <3>2. QED
      BY <2>1, <3>1 DEF Even
  <2>5. /\ IsFiniteSet(a) /\ 2^bl <= Cardinality(a) + 1
        /\ IsFiniteSet(b) /\ 2^bl <= Cardinality(b) + 1
    BY <1>2, <2>1, <2>4
  <2>6. a \cap b = {} /\ n \notin a \cup b
    BY <2>2
  <2>7. IsFiniteSet(a \cup b) /\ Cardinality(a \cup b) = Cardinality(a) + Cardinality(b)
    <3>1. /\ IsFiniteSet(a \cup b)
          /\ Cardinality(a \cup b) = Cardinality(a) + Cardinality(b) - Cardinality(a \cap b)
      BY <2>5, FS_Union
    <3>2. Cardinality(a \cap b) = 0
      BY <2>6, FS_EmptySet
    <3>3. Cardinality(a) \in Nat /\ Cardinality(b) \in Nat
      BY <2>5, FS_CardinalityType
    <3>4. QED
      BY <3>1, <3>2, <3>3
  <2>8. IsFiniteSet((a \cup b) \cup {n}) /\ Cardinality((a \cup b) \cup {n}) = Cardinality(a \cup b) + 1
    BY <2>6, <2>7, FS_AddElement
  <2>9. S[n] = (a \cup b) \cup {n}
    BY <2>2
  <2>10. 2^B[n] <= 2^(bl + 1) /\ 2^(bl + 1) = 2 * 2^bl
    BY <2>4, PowersGrow, PowersDouble
  <2>11. /\ 2^B[n] \in Nat /\ 2^bl \in Nat /\ 2^(bl + 1) \in Nat
         /\ Cardinality(a) \in Nat /\ Cardinality(b) \in Nat
    <3>1. bl + 1 \in Nat
      BY <2>4
    <3>2. 2^B[n] \in Nat /\ 2^bl \in Nat /\ 2^(bl + 1) \in Nat
      BY <2>4, <3>1, Subsets
    <3>3. QED
      BY <2>5, <3>2, FS_CardinalityType
  <2>12. 2^B[n] <= Cardinality(S[n]) + 1
    BY <2>5, <2>7, <2>8, <2>9, <2>10, <2>11
  <2>13. QED
    BY <2>3, <2>8, <2>9, <2>12
<1>3. NodeOrNull \subseteq G
  <2> HIDE DEF G
  <2> QED
    BY <1>1, <1>2, TreeInduction
<1>4. QED
  BY <1>3

\* The path of an insertion has at most one entry more than twice the number of
\* black nodes on the paths of a tree with so many nodes.
PathBound ==
    \E b \in Nat : 2^b <= Cardinality(nodes) /\ Len(path) <= 2 * b + 1

LEMMA DescendingBound ==
    ASSUME Typed, pc = "descend", Descends
    PROVE  PathBound
<1>1. PICK S, B : Resting(right, S, B, nodes \ {name}) /\ Descending(B)
  BY DEF Descends
<1>2. /\ name \in nodes /\ Len(path) \in Nat /\ Len(path) > 0
      /\ path[Len(path)].label \in Known /\ Known \subseteq NodeOrNull
  <2>1. Len(path) \in DOMAIN path
    BY DEF Typed, TypeOK, Control
  <2>2. QED
    BY <2>1 DEF Typed, TypeOK, Control, Linked, Known, NodeOrNull
<1>3. PICK N, m, b, c, i, L, R, C, root :
         /\ N = nodes /\ m = name /\ b = B[label_list] /\ c = B[path[Len(path)].label]
         /\ i = Len(path) /\ L = left /\ R = right /\ C = red /\ root = label_list
  OBVIOUS
<1>4. /\ IsTree(L, R, S) /\ EvenTree(L, R, C, B) /\ root \in NodeOrNull /\ S[root] = N \ {m}
  BY <1>1, <1>3 DEF Resting, Rooted
<1>5. b \in Nat /\ c \in Nat
  BY <1>2, <1>3, <1>4 DEF EvenTree
<1>6. IsFiniteSet(N \ {m}) /\ 2^b <= Cardinality(N \ {m}) + 1
  <2>1. IsFiniteSet(S[root]) /\ 2^B[root] <= Cardinality(S[root]) + 1
    BY <1>4, TreeIsLarge
  <2>2. B[root] = b
    BY <1>3
  <2>3. QED
    BY <1>4, <2>1, <2>2
<1>7. Cardinality(N) = Cardinality(N \ {m}) + 1
  <2>1. m \notin N \ {m} /\ N = (N \ {m}) \cup {m}
    BY <1>2, <1>3
  <2>2. Cardinality((N \ {m}) \cup {m}) = Cardinality(N \ {m}) + 1
    BY <1>6, <2>1, FS_AddElement
  <2>3. QED
    BY <2>1, <2>2
<1>8. i <= 2 * b + 1
  <2>1. i - 1 + (IF RedIn(red, path[i].label) THEN 1 ELSE 0) <= 2 * (b - c)
    BY <1>1, <1>2, <1>3 DEF Descending
  <2>2. i \in Nat
    BY <1>2, <1>3
  <2>3. PICK k \in {0, 1} : i - 1 + k <= 2 * (b - c)
    BY <2>1
  <2>4. QED
    BY <1>5, <2>2, <2>3
<1>9. QED
  BY <1>3, <1>5, <1>6, <1>7, <1>8 DEF PathBound

PathInv == TreeInv /\ (pc = "ascend" => PathBound)

LEMMA PathInvNext == PathInv /\ [Next]_vars => PathInv'
<1> SUFFICES ASSUME PathInv, [Next]_vars PROVE PathInv'
  OBVIOUS
<1>1. TreeInv /\ TreeInv' /\ Typed /\ Typed' /\ path \in Seq(Entries) /\ Len(path) \in Nat
  <2>1. TreeInv /\ TreeInv' /\ Typed /\ Typed'
    BY TreeInvNext DEF PathInv, TreeInv
  <2>2. QED
    BY <2>1 DEF Typed, TypeOK, Entries
<1>2. SUFFICES ASSUME pc' = "ascend" PROVE PathBound'
  BY <1>1 DEF PathInv
<1>3. nodes' = nodes /\ PathBound /\ Len(path') <= Len(path) => PathBound'
  <2>1. SUFFICES ASSUME nodes' = nodes, PathBound, Len(path') <= Len(path) PROVE PathBound'
    OBVIOUS
  <2>2. PICK b \in Nat : 2^b <= Cardinality(nodes) /\ Len(path) <= 2 * b + 1
    BY <2>1 DEF PathBound
  <2>3. Len(path') \in Nat
    BY <1>1 DEF Typed, TypeOK
  <2>4. Len(path') <= 2 * b + 1 /\ 2^b <= Cardinality(nodes')
    BY <1>1, <2>1, <2>2, <2>3
  <2>5. QED
    BY <2>4 DEF PathBound
<1>4. CASE Descend
  <2>1. pc = "descend" /\ nodes' = nodes /\ path' = [path EXCEPT ![Len(path)].label = name]
    BY <1>2, <1>4 DEF Descend, treeVars
  <2>2. Len(path') = Len(path)
    BY <1>1, <2>1
  <2>3. PathBound
    BY <1>1, <2>1, DescendingBound DEF TreeInv
  <2>4. QED
    BY <1>1, <1>3, <2>1, <2>2, <2>3
<1>5. CASE Ascend
  <2>1. pc = "ascend" /\ nodes' = nodes
    BY <1>5 DEF Ascend
  <2>2. Len(path') <= Len(path)
    <3>1. \/ path' = path \/ path' = <<>>
          \/ \E child : path' = [path EXCEPT ![pathp].label = child]
      BY <1>5 DEF Ascend, FixLeft, FixRight
    <3>2. QED
      BY <1>1, <3>1
  <2>3. QED
    BY <1>3, <2>1, <2>2 DEF PathInv
<1>6. CASE UNCHANGED vars
  <2>1. pc = "ascend" /\ nodes' = nodes /\ path' = path
    BY <1>2, <1>6 DEF vars, treeVars, pathVars
  <2>2. QED
    BY <1>1, <1>3, <2>1 DEF PathInv
<1>7. CASE ~Descend /\ ~Ascend /\ ~UNCHANGED vars
  BY <1>2, <1>7 DEF Next, Caller, Step, StartDefine, NewRoot, EndInsertion, Delete, Undelete,
     StartFind, BeginSearch, Search, EndFind, StartTraversal, StartPredecessor, Predecessor, Thread,
     VisitLeftmost, VisitBehindThread, Visit, FoundLabel, EndTraversal
<1>8. QED
  BY <1>4, <1>5, <1>6, <1>7

\* The array of the path in define_label() is large enough, for any number of labels.
THEOREM TreePathFits == Spec => []PathFits
<1>1. Init => PathInv
  BY TreeInvInit DEF PathInv, Init
<1>2. PathInv => PathFits
  <2>1. SUFFICES ASSUME PathInv, NEW k \in 1..Log2MaxNodes, Cardinality(nodes) < 2^k
                 PROVE  Len(path) <= 2 * k
    BY DEF PathFits
  <2>2. Typed /\ k \in Nat /\ k > 0 /\ Len(path) \in Nat
    <3>1. Log2MaxNodes \in Nat
      BY NodesAssumption
    <3>2. Typed
      BY <2>1 DEF PathInv, TreeInv
    <3>3. k \in Nat /\ k > 0
      BY <3>1
    <3>4. QED
      BY <3>2, <3>3 DEF Typed, TypeOK
  <2>3. CASE pc \notin {"descend", "ascend"}
    <3>1. path = <<>>
      BY <2>2, <2>3 DEF Typed, Control
    <3>2. QED
      BY <2>2, <3>1
  <2>4. CASE pc \in {"descend", "ascend"}
    <3>1. PathBound
      BY <2>1, <2>4, DescendingBound DEF PathInv, TreeInv
    <3>2. PICK b \in Nat : 2^b <= Cardinality(nodes) /\ Len(path) <= 2 * b + 1
      BY <3>1 DEF PathBound
    <3>3. PICK x, N : x = 2^k /\ N = Cardinality(nodes)
      OBVIOUS
    <3>4. b < k
      <4>1. SUFFICES ASSUME k <= b PROVE FALSE
        BY <2>2
      <4>2. 2^k <= 2^b /\ 2^k \in Nat /\ 2^b \in Nat
        BY <2>2, <4>1, PowersGrow, Subsets
      <4>3. Cardinality(nodes) \in Nat
        <5>1. IsFiniteSet(Names)
          <6> PICK a \in Int, z \in Int : a = 1 /\ z = 199
            OBVIOUS
          <6>1. IsFiniteSet(a..z)
            BY FS_Interval
          <6>2. Names \in SUBSET (a..z)
            BY NamesAreNumbers
          <6>3. QED
            BY <6>1, <6>2, FS_Subset
        <5>2. nodes \in SUBSET Names
          BY <2>2 DEF Typed, TypeOK
        <5>3. QED
          BY <5>1, <5>2, FS_Subset, FS_CardinalityType
      <4>4. QED
        BY <2>1, <3>2, <4>2, <4>3
    <3>5. QED
      BY <2>2, <3>2, <3>4
  <2>5. QED
    BY <2>3, <2>4
<1>3. QED
  BY <1>1, <1>2, PathInvNext, PTL DEF Spec

=============================================================================

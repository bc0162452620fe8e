------------------------------ MODULE MacrosProofs ------------------------------
(***************************************************************************)
(* Proofs about macros: every pass follows one reading of the source.  The *)
(* invariant relates the label tree and the nesting of the conditions to   *)
(* the reading before the current line (Follows), and keeps what pass 0    *)
(* has found out about the lines (Accepted).                               *)
(***************************************************************************)
EXTENDS MacrosProperties, Induction

\* A label and a macro never have the same node of the tree.
LEMMA NodesDiffer ==
    ASSUME NEW x \in Identifiers, NEW y \in Identifiers
    PROVE  /\ Label(x) # Macro(y) /\ Macro(y) # Label(x)
           /\ Label(x) = Label(y) <=> x = y
           /\ Macro(x) = Macro(y) <=> x = y
           /\ Label(x) \in Names /\ Macro(x) \in Names
           /\ Label(x) \in LabelNames /\ Label(x) \notin MacroNames
           /\ Macro(x) \in MacroNames
           /\ LabelOf(Macro(x)) = Label(x)
<1>1. \A a \in Identifiers, b \in Identifiers : Label(a) # Macro(b)
  BY DEF Label, Macro
<1>2. Label(x) = Label(y) <=> x = y
  BY DEF Label
<1>3. Macro(x) = Macro(y) <=> x = y
  BY DEF Macro
<1>4. LabelOf(Macro(x)) = Label(x)
  BY DEF LabelOf, Macro
<1>5. QED
  BY <1>1, <1>2, <1>3, <1>4 DEF Names, LabelNames, MacroNames

\* The reset before pass 2 and later passes deletes the macros of the source,
\* with the labels of those that had a value.
LEMMA DeletedBeforePass ==
    ASSUME TypeOK, NEW x \in Identifiers
    PROVE  /\ Macro(x) \in Tree!DeletedByReset(FALSE) <=>
                  Macro(x) \in deleted \/ (Macro(x) \in names /\ kind[Macro(x)] # "cmdline")
           /\ Label(x) \in Tree!DeletedByReset(FALSE) <=>
                  \/ Label(x) \in deleted
                  \/ Macro(x) \in names /\ kind[Macro(x)] = "value" /\ Label(x) \in names
<1>1. \A y \in Identifiers :
         /\ Label(y) # Macro(x) /\ Label(x) # Macro(y)
         /\ Label(x) = Label(y) <=> x = y
  BY NodesDiffer
<1>2. Macro(x) \in MacroNames /\ Label(x) \notin MacroNames /\ LabelOf(Macro(x)) = Label(x)
  BY NodesDiffer
<1>3. \A m \in MacroNames : \E y \in Identifiers : m = Macro(y) /\ LabelOf(m) = Label(y)
  BY NodesDiffer DEF MacroNames
<1>4. Macro(x) \in Tree!OwnMacros <=> Macro(x) \in names /\ kind[Macro(x)] # "cmdline"
  BY <1>2 DEF Tree!OwnMacros
<1>5. Label(x) \notin Tree!OwnMacros
  BY <1>2 DEF Tree!OwnMacros
<1>6. Macro(x) \notin Tree!LabelsOf("value")
  BY <1>1, <1>3 DEF Tree!LabelsOf
<1>7. Label(x) \in Tree!LabelsOf("value") <=>
          Macro(x) \in names /\ kind[Macro(x)] = "value" /\ Label(x) \in names
  BY <1>1, <1>2, <1>3 DEF Tree!LabelsOf
<1>8. QED
  BY <1>4, <1>5, <1>6, <1>7 DEF Tree!DeletedByReset

\* The reset before the special pass deletes all labels but those with the value
\* of a macro of the command line.
LEMMA DeletedBeforeSpecialPass ==
    ASSUME TypeOK, NEW x \in Identifiers
    PROVE  /\ Macro(x) \in Tree!DeletedByReset(TRUE) <=>
                  Macro(x) \in deleted \/ (Macro(x) \in names /\ kind[Macro(x)] # "cmdline")
           /\ Label(x) \in Tree!DeletedByReset(TRUE) <=>
                  /\ Label(x) \in names
                  /\ ~(Macro(x) \in names /\ kind[Macro(x)] = "cmdline")
<1>1. \A y \in Identifiers :
         /\ Label(y) # Macro(x) /\ Label(x) # Macro(y)
         /\ Label(x) = Label(y) <=> x = y
  BY NodesDiffer
<1>2. Macro(x) \in MacroNames /\ Label(x) \notin MacroNames /\ LabelOf(Macro(x)) = Label(x)
  BY NodesDiffer
<1>3. \A m \in MacroNames : \E y \in Identifiers : m = Macro(y) /\ LabelOf(m) = Label(y)
  BY NodesDiffer DEF MacroNames
<1>4. Macro(x) \in Tree!OwnMacros <=> Macro(x) \in names /\ kind[Macro(x)] # "cmdline"
  BY <1>2 DEF Tree!OwnMacros
<1>5. Label(x) \notin Tree!OwnMacros
  BY <1>2 DEF Tree!OwnMacros
<1>6. Macro(x) \notin Tree!LabelsOf("cmdline")
  BY <1>1, <1>3 DEF Tree!LabelsOf
<1>7. Label(x) \in Tree!LabelsOf("cmdline") <=>
          Macro(x) \in names /\ kind[Macro(x)] = "cmdline" /\ Label(x) \in names
  BY <1>1, <1>2, <1>3 DEF Tree!LabelsOf
<1>8. deleted \subseteq names
  BY DEF TypeOK
<1>9. QED
  BY <1>2, <1>4, <1>5, <1>6, <1>7, <1>8 DEF Tree!DeletedByReset

-----------------------------------------------------------------------------
(* The reading. *)

Definitions == Nat \cup {Undefined, SelfDefined}
ReadType == [def : [Identifiers -> Definitions], labels : SUBSET Identifiers,
             branches : Seq(BOOLEAN)]

LEMMA ReadTyped ==
    ASSUME NEW r \in ReadType, NEW l \in Lines
    PROVE  Read(r, l) \in ReadType
<1>1. r.def \in [Identifiers -> Definitions] /\ r.labels \subseteq Identifiers
      /\ r.branches \in Seq(BOOLEAN)
  BY DEF ReadType
<1>2. l.name \in Identifiers /\ l.from \in Identifiers /\ l.value \in Nat
  <2>1. l.name \in Identifiers /\ l.from \in Identifiers /\ l.value \in Values
    BY DEF Lines
  <2>2. \A v \in Values : v \in Nat
    BY ValuesAssumption
  <2>3. QED
    BY <2>1, <2>2, Zenon
<1>3. Definition(r, l) \in Definitions
  <2>1. ReadValue(r, l.from) + 1 \in Nat
    BY <1>1, <1>2, ValuesAssumption DEF ReadValue, Definitions, SelfDefined, Undefined
  <2>2. QED
    BY <1>1, <1>2, <2>1 DEF Definition, Definitions
<1>4. Holds(r, l) \in BOOLEAN
  BY DEF Holds
<1>5. BranchesAfter(r, l) \in Seq(BOOLEAN)
  <2> DEFINE n == Len(r.branches)
  <2>1. CASE l.op \in {"ifdef", "ifndef"}
    BY <1>1, <1>4, <2>1 DEF BranchesAfter
  <2>2. CASE l.op = "else" /\ n > 0
    <3>1. [r.branches EXCEPT ![n] = ~@] \in Seq(BOOLEAN)
      BY <1>1, <2>2
    <3>2. QED
      BY <2>2, <3>1 DEF BranchesAfter
  <2>3. CASE l.op = "endif" /\ n > 0
    <3>1. SubSeq(r.branches, 1, n - 1) \in Seq(BOOLEAN)
      BY <1>1, <2>3
    <3>2. QED
      BY <2>3, <3>1 DEF BranchesAfter
  <2>4. CASE ~(l.op \in {"ifdef", "ifndef"} \/ (l.op \in {"else", "endif"} /\ n > 0))
    BY <1>1, <2>4 DEF BranchesAfter
  <2>5. QED
    BY <2>1, <2>2, <2>3, <2>4
<1>6. QED
  BY <1>1, <1>2, <1>3, <1>5 DEF Read, ReadType

LEMMA ReadingUnfolds ==
    ASSUME NEW s \in Seq(Lines), NEW g \in [Identifiers -> Values \cup {Undefined}]
    PROVE  /\ ReadFrom(s, g)[0] = [def |-> g, labels |-> {}, branches |-> <<>>]
           /\ \A i \in 1..Len(s) : ReadFrom(s, g)[i] = Read(ReadFrom(s, g)[i - 1], s[i])
           /\ \A i \in 0..Len(s) : ReadFrom(s, g)[i] \in ReadType
<1> DEFINE n == Len(s)
           start == [def |-> g, labels |-> {}, branches |-> <<>>]
           F(f) == [i \in 0..n |-> IF i = 0 THEN start ELSE Read(f[i - 1], s[i])]
           Begins(k) == {f \in [0..k -> ReadType] :
                           /\ f[0] = start
                           /\ \A i \in 1..k : f[i] = Read(f[i - 1], s[i])}
           S == {k \in 0..n : Begins(k) # {}}
<1>1. ReadFrom(s, g) = CHOOSE f : f = F(f)
  BY DEF ReadFrom
<1>2. n \in Nat
  OBVIOUS
<1>3. start \in ReadType
  <2>1. Values \cup {Undefined} \subseteq Definitions
    BY ValuesAssumption DEF Definitions
  <2>2. g \in [Identifiers -> Definitions]
    BY <2>1
  <2>3. QED
    BY <2>2 DEF ReadType
<1>4. n \in S
  <2>1. 0 \in S
    <3> HIDE DEF start
    <3>1. [i \in 0..0 |-> start] \in Begins(0)
      BY <1>3
    <3>2. QED
      BY <1>2, <3>1
  <2>2. ASSUME NEW k \in 0..n-1, k \in S
        PROVE  k + 1 \in S
    <3> HIDE DEF start
    <3>1. PICK f \in Begins(k) : TRUE
      BY <2>2
    <3> DEFINE h == [i \in 0..k+1 |-> IF i <= k THEN f[i] ELSE Read(f[k], s[k + 1])]
    <3>2. k \in Nat /\ k + 1 \in 1..n /\ k \in 0..k /\ s[k + 1] \in Lines
      BY <1>2
    <3>3. Read(f[k], s[k + 1]) \in ReadType
      BY <3>2, ReadTyped
    <3>4. h \in [0..k+1 -> ReadType]
      BY <3>2, <3>3
    <3>5. h[0] = start
      BY <3>2
    <3>6. ASSUME NEW i \in 1..k+1
          PROVE  h[i] = Read(h[i - 1], s[i])
      <4>1. CASE i <= k
        BY <3>2, <4>1
      <4>2. CASE i = k + 1
        BY <3>2, <4>2
      <4>3. QED
        BY <3>2, <4>1, <4>2
    <3>7. h \in Begins(k + 1)
      <4> HIDE DEF h
      <4> QED
        BY <3>2, <3>4, <3>5, <3>6
    <3>8. k + 1 \in 0..n
      BY <3>2
    <3> HIDE DEF h, Begins
    <3>9. QED
      BY <3>7, <3>8
  <2>3. 0..n \subseteq S
    <3> HIDE DEF S
    <3> QED
      BY <1>2, <2>1, <2>2, UpTo
  <2>4. n \in 0..n
    BY <1>2
  <2> HIDE DEF S
  <2>5. QED
    BY <2>3, <2>4
<1>5. PICK f \in Begins(n) : TRUE
  BY <1>4
<1>6. f = F(f)
  BY <1>2, <1>5
<1>7. ReadFrom(s, g) = F(ReadFrom(s, g))
  <2> HIDE DEF F
  <2> QED
    BY <1>1, <1>6
<1>8. ReadFrom(s, g)[0] = start /\ \A i \in 1..n : ReadFrom(s, g)[i] = Read(ReadFrom(s, g)[i - 1], s[i])
  <2> HIDE DEF start
  <2>1. \A i \in 0..n : F(ReadFrom(s, g))[i] =
            IF i = 0 THEN start ELSE Read(ReadFrom(s, g)[i - 1], s[i])
    OBVIOUS
  <2> HIDE DEF F
  <2>2. QED
    BY <1>2, <1>7, <2>1
<1> HIDE DEF start
<1> DEFINE T == {i \in 0..n : ReadFrom(s, g)[i] \in ReadType}
<1>9. 0..n \subseteq T
  <2>1. 0 \in T
    BY <1>2, <1>3, <1>8
  <2>2. ASSUME NEW i \in 0..n-1, i \in T
        PROVE  i + 1 \in T
    <3>1. i + 1 \in 1..n /\ i + 1 - 1 = i /\ s[i + 1] \in Lines /\ ReadFrom(s, g)[i] \in ReadType
      BY <1>2, <2>2
    <3>2. ReadFrom(s, g)[i + 1] = Read(ReadFrom(s, g)[i], s[i + 1])
      BY <1>8, <3>1
    <3>3. QED
      BY <3>1, <3>2, ReadTyped
  <2> HIDE DEF T
  <2>3. QED
    BY <1>2, <2>1, <2>2, UpTo
<1>10. QED
  BY <1>8, <1>9 DEF start

\* A label that the reading has met is met by it at the end.
LEMMA LabelsGrow ==
    ASSUME NEW s \in Seq(Lines), NEW g \in [Identifiers -> Values \cup {Undefined}],
           NEW k \in 0..Len(s)
    PROVE  ReadFrom(s, g)[k].labels \subseteq ReadFrom(s, g)[Len(s)].labels
<1> DEFINE n == Len(s)
           S == {i \in 0..n : ReadFrom(s, g)[n - i].labels \subseteq ReadFrom(s, g)[n].labels}
<1>1. n \in Nat /\ 0 \in S
  OBVIOUS
<1>2. ASSUME NEW i \in 0..n-1, i \in S
      PROVE  i + 1 \in S
  <2>1. n - i \in 1..n /\ n - (i + 1) = n - i - 1
    BY <1>1
  <2>2. ReadFrom(s, g)[n - i] = Read(ReadFrom(s, g)[n - i - 1], s[n - i])
    BY <2>1, ReadingUnfolds
  <2>3. ReadFrom(s, g)[n - i - 1].labels \subseteq ReadFrom(s, g)[n - i].labels
    BY <2>2 DEF Read
  <2>4. QED
    BY <1>2, <2>1, <2>3
<1>3. 0..n \subseteq S
  <2> HIDE DEF S
  <2> QED
    BY <1>1, <1>2, UpTo
<1>4. n - k \in 0..n /\ n - (n - k) = k
  BY <1>1
<1>5. QED
  BY <1>3, <1>4

\* And a line of the source has it.
LEMMA LabelsHaveLines ==
    ASSUME NEW s \in Seq(Lines), NEW g \in [Identifiers -> Values \cup {Undefined}],
           NEW x \in ReadFrom(s, g)[Len(s)].labels
    PROVE  \E j \in DOMAIN s : s[j].op = "label" /\ s[j].name = x
<1> PICK r : r = ReadFrom(s, g)
  OBVIOUS
<1> DEFINE n == Len(s)
           Lined == {s[j].name : j \in {j \in DOMAIN s : s[j].op = "label"}}
           S == {i \in 0..n : r[i].labels \subseteq Lined}
<1>1. /\ r[0].labels = {} /\ x \in r[n].labels
      /\ \A i \in 1..n : r[i] = Read(r[i - 1], s[i])
  <2>1. /\ ReadFrom(s, g)[0] = [def |-> g, labels |-> {}, branches |-> <<>>]
        /\ \A i \in 1..Len(s) : ReadFrom(s, g)[i] = Read(ReadFrom(s, g)[i - 1], s[i])
    BY ReadingUnfolds
  <2>2. r[0] = [def |-> g, labels |-> {}, branches |-> <<>>]
        /\ \A i \in 1..n : r[i] = Read(r[i - 1], s[i])
    BY <2>1, Zenon
  <2>3. r[0].labels = {}
    BY <2>2
  <2>4. x \in r[n].labels
    BY Zenon
  <2>5. QED
    BY <2>2, <2>3, <2>4
<1>2. n \in Nat /\ 0 \in S
  BY <1>1
<1>3. ASSUME NEW i \in 0..n-1, i \in S
      PROVE  i + 1 \in S
  <2>1. i + 1 \in 1..n /\ i + 1 - 1 = i /\ i + 1 \in DOMAIN s
    BY <1>2
  <2>2. r[i + 1] = Read(r[i], s[i + 1])
    BY <1>1, <2>1
  <2>3. r[i + 1].labels \subseteq r[i].labels \cup
            (IF s[i + 1].op = "label" THEN {s[i + 1].name} ELSE {})
    BY <2>2 DEF Read
  <2>4. QED
    BY <1>3, <1>2, <2>1, <2>3
<1>4. 0..n \subseteq S
  <2> HIDE DEF S
  <2> QED
    BY <1>2, <1>3, UpTo
<1>5. QED
  BY <1>1, <1>2, <1>4

-----------------------------------------------------------------------------
(* The invariant. *)

\* Pass 0 prints no error at the line l, before which the reading is r.
Accepted(r, l) ==
    /\ l.op \in {"else", "endif"} => r.branches # <<>>
    /\ Taken(r) =>
          /\ l.op \in {"define", "assign", "self", "undef"} => given[l.name] = Undefined
          /\ l.op \in {"define", "assign"} =>
                r.def[l.name] # SelfDefined /\ l.name \notin r.labels
          /\ l.op = "assign" => ReadValue(r, l.from) # Undefined
          /\ l.op = "self" => r.def[l.name] < 0
          /\ l.op = "label" => r.def[l.name] < 0 /\ l.name \notin r.labels

AcceptedBefore(k) == \A i \in DOMAIN source : i < k => Accepted(Reading[i - 1], source[i])

\* The lines that are skipped are those in a branch that is not taken.
NestedAs(branches) ==
    /\ Len(branches) = level - 1
    /\ avoid_level # 0 => avoid_level \in 2..level /\ ~branches[avoid_level - 1]
    /\ \A k \in DOMAIN branches :
          avoid_level = 0 \/ k < avoid_level - 1 => branches[k]

\* The macros are those of the reading, which defines x as d.
MacroAgrees(d, x) ==
    /\ Live(Macro(x)) <=> d # Undefined
    /\ Live(Macro(x)) => (kind[Macro(x)] = "self" <=> d = SelfDefined)
    /\ d >= 0 => /\ Live(Label(x)) /\ value[Label(x)] = d
                 /\ kind[Macro(x)] = IF given[x] = Undefined THEN "value" ELSE "cmdline"
    /\ IF given[x] = Undefined THEN kind[Macro(x)] # "cmdline" ELSE d = given[x]

\* The first passes have met the labels that the reading has met; later ones know
\* no label that it does not meet.
LabelAgrees(d, labels, all, x) ==
    IF assembler_pass <= 1
    THEN /\ Live(Label(x)) <=> d >= 0 \/ x \in labels
         /\ x \in labels => d < 0 /\ value[Label(x)] = LabelValue
    ELSE Live(Label(x)) /\ d < 0 => x \in all /\ value[Label(x)] = LabelValue

Agrees(def, labels, all) ==
    \A x \in Identifiers : /\ MacroAgrees(def[x], x)
                           /\ LabelAgrees(def[x], labels, all, x)

Follows(r, end) == NestedAs(r.branches) /\ Agrees(r.def, r.labels, end.labels)

\* Of the errors, these leave the state of the program alone.
Sound == errors \subseteq {"Undefined label"}

End == Reading[Len(source)]

IsDefined(x) ==
    \E i \in DOMAIN source : source[i].op \in {"define", "assign"} /\ source[i].name = x

\* The value of a macro has a label, and a line of the source gives it.
ValuesHaveLines ==
    \A x \in Identifiers :
        kind[Macro(x)] = "value" => Label(x) \in names /\ IsDefined(x)

Control ==
    /\ seen \in Seq([line : Nat, sees : Int])
    /\ phase = "arguments" =>
          assembler_pass = 0 /\ line = 1 /\ level = 1 /\ avoid_level = 0
    /\ phase \in {"assembled", "done"} /\ Sound => line = Len(source) + 1 /\ level = 1

PassZeroKnows ==
    /\ Sound => AcceptedBefore(line)
    /\ assembler_pass >= 1 =>
          /\ AcceptedBefore(Len(source) + 1)
          /\ End.branches = <<>>
          /\ \A x \in End.labels : Label(x) \in names

LabelsStay ==
    Separate /\ Sound /\ assembler_pass >= 2 => \A x \in End.labels : Live(Label(x))

UndefinedOnly ==
    Separate /\ assembler_pass >= 1 /\ errors # {} =>
        /\ assembler_pass >= 2
        /\ errors = {"Undefined label"}
        /\ \E i \in 1..line - 1 : source[i].op = "use" /\ Meaning(i) = Undefined

-----------------------------------------------------------------------------
(* Type correctness. *)

TreeTyped ==
    /\ deleted \subseteq names /\ names \subseteq Names
    /\ kind \in [Names -> {"none", "cmdline", "self", "value"}]
    /\ value \in [Names -> Nat]

LEMMA LiteralsTyped == Values \subseteq Nat /\ LabelValue \in Nat /\ Undefined \notin Nat
BY ValuesAssumption DEF Undefined

LEMMA ValueOfTyped ==
    ASSUME TypeOK, NEW x \in Identifiers
    PROVE  ValueOf(x) \in Nat \cup {Undefined}
BY NodesDiffer DEF TypeOK, ValueOf

LEMMA SourceLines ==
    ASSUME TypeOK
    PROVE  /\ source \in Seq(Lines) /\ Len(source) \in Nat
           /\ line \in Nat /\ line \in 1..Len(source) + 1
           /\ given \in [Identifiers -> Values \cup {Undefined}]
           /\ line <= Len(source) =>
                 /\ line \in DOMAIN source /\ source[line] \in Lines
                 /\ source[line].name \in Identifiers /\ source[line].from \in Identifiers
                 /\ source[line].value \in Values
<1>1. source \in Seq(Lines)
  BY SourcesAssumption DEF TypeOK
<1>2. line \in 1..Len(source) + 1 /\ Len(source) \in Nat
  BY <1>1 DEF TypeOK
<1>3. line <= Len(source) => line \in DOMAIN source /\ source[line] \in Lines
  BY <1>1, <1>2
<1>4. QED
  BY <1>1, <1>2, <1>3 DEF TypeOK, Lines

LEMMA SetValueTyped ==
    ASSUME TypeOK, ValuesHaveLines, NEW x \in Identifiers, NEW mode \in {"cmdline", "value"},
           NEW v \in Nat \cup {Undefined}, SetValue(x, mode, v), UNCHANGED source,
           mode = "value" => IsDefined(x)
    PROVE  TreeTyped' /\ ValuesHaveLines'
<1>1. CASE UNCHANGED treeVars
  BY <1>1 DEF TypeOK, TreeTyped, treeVars, ValuesHaveLines, IsDefined
<1>2. CASE ValueErrors(x, mode, v) = {}
  <2>1. v \in Nat
    BY <1>2 DEF ValueErrors
  <2>2. /\ names' = names \cup {Macro(x), Label(x)}
        /\ deleted' = deleted \ {Macro(x), Label(x)}
        /\ kind' = [kind EXCEPT ![Macro(x)] = mode]
        /\ value' = [value EXCEPT ![Label(x)] = v]
    BY <1>2 DEF SetValue
  <2>3. TreeTyped'
    BY <2>1, <2>2, NodesDiffer DEF TypeOK, TreeTyped
  <2>4. ASSUME NEW y \in Identifiers, kind'[Macro(y)] = "value"
        PROVE  Label(y) \in names' /\ IsDefined(y)'
    <3>1. CASE y = x
      BY <2>2, <2>4, <3>1, NodesDiffer DEF TypeOK, IsDefined
    <3>2. CASE y # x
      <4>1. kind[Macro(y)] = "value"
        BY <2>2, <2>4, <3>2, NodesDiffer DEF TypeOK
      <4>2. QED
        BY <2>2, <4>1 DEF ValuesHaveLines, IsDefined
    <3>3. QED
      BY <3>1, <3>2
  <2>5. QED
    BY <2>3, <2>4 DEF ValuesHaveLines
<1>3. QED
  BY <1>1, <1>2 DEF SetValue

LEMMA SetSelfTyped ==
    ASSUME TypeOK, ValuesHaveLines, NEW x \in Identifiers, SetSelf(x), UNCHANGED source
    PROVE  TreeTyped' /\ ValuesHaveLines'
<1>1. CASE UNCHANGED treeVars
  BY <1>1 DEF TypeOK, TreeTyped, treeVars, ValuesHaveLines, IsDefined
<1>2. CASE /\ names' = names \cup {Macro(x)}
           /\ deleted' = deleted \ {Macro(x)}
           /\ kind' = [kind EXCEPT ![Macro(x)] = "self"]
           /\ UNCHANGED value
  <2>1. TreeTyped'
    BY <1>2, NodesDiffer DEF TypeOK, TreeTyped
  <2>2. ASSUME NEW y \in Identifiers, kind'[Macro(y)] = "value"
        PROVE  Label(y) \in names' /\ IsDefined(y)'
    <3>1. kind[Macro(y)] = "value"
      BY <1>2, <2>2, NodesDiffer DEF TypeOK
    <3>2. QED
      BY <1>2, <3>1 DEF ValuesHaveLines, IsDefined
  <2>3. QED
    BY <2>1, <2>2 DEF ValuesHaveLines
<1>3. QED
  BY <1>1, <1>2 DEF SetSelf

LEMMA UnsetMacroTyped ==
    ASSUME TypeOK, ValuesHaveLines, NEW x \in Identifiers, UnsetMacro(x), UNCHANGED source
    PROVE  TreeTyped' /\ ValuesHaveLines'
<1>1. Live(Macro(x)) => DeletedByUndef(x) \subseteq names
  BY DEF ValuesHaveLines, DeletedByUndef, Live
<1>2. QED
  BY <1>1 DEF UnsetMacro, TypeOK, TreeTyped, ValuesHaveLines, IsDefined

LEMMA CreateLabelTyped ==
    ASSUME TypeOK, ValuesHaveLines, NEW x \in Identifiers, CreateLabel(x), UNCHANGED source
    PROVE  TreeTyped' /\ ValuesHaveLines'
BY NodesDiffer, LiteralsTyped
DEF CreateLabel, treeVars, TypeOK, TreeTyped, ValuesHaveLines, IsDefined

LEMMA ResetTyped ==
    ASSUME TypeOK, ValuesHaveLines, NEW special \in BOOLEAN,
           deleted' = Tree!DeletedByReset(special), UNCHANGED <<source, names, kind, value>>
    PROVE  TreeTyped' /\ ValuesHaveLines'
<1>1. Tree!OwnMacros \subseteq names /\ Tree!LabelsOf("value") \subseteq names
  BY DEF Tree!OwnMacros, Tree!LabelsOf
<1>2. QED
  BY <1>1 DEF Tree!DeletedByReset, TypeOK, TreeTyped, ValuesHaveLines, IsDefined

Typed == TypeOK /\ ValuesHaveLines /\ Control

MInv ==
    /\ Typed
    /\ Sound => Follows(Reading[line - 1], End)
    /\ PassZeroKnows /\ LabelsStay /\ PassesAgree /\ UndefinedOnly

\* The parts of Typed that a line of the source does not change, if it only
\* changes the tree.
LEMMA OnLineTyped ==
    ASSUME Typed, NEW ops, OnLine(ops), errors \subseteq errors', TreeTyped', ValuesHaveLines',
           seen' \in Seq([line : Nat, sees : Int])
    PROVE  Typed'
<1>1. /\ line <= Len(source) /\ line' = line + 1 /\ phase = "assemble"
      /\ UNCHANGED passVars /\ UNCHANGED levelVars
  BY DEF OnLine, AtLine
<1>2. TypeOK'
  BY <1>1, SourceLines DEF Typed, TypeOK, TreeTyped, passVars, levelVars
<1>3. Control'
  BY <1>1 DEF Typed, Control, passVars, levelVars
<1>4. QED
  BY <1>2, <1>3 DEF Typed

LEMMA TypedInit == Init => Typed
<1> SUFFICES ASSUME Init PROVE Typed
  OBVIOUS
<1>1. source \in Seq(Lines) /\ Len(source) \in Nat
  BY SourcesAssumption DEF Init
<1>2. TypeOK
  <2>1. given \in [Identifiers -> Values \cup {Undefined}]
    BY DEF Init
  <2>2. assembler_pass \in 0..LastPass /\ line \in 1..Len(source) + 1
    BY <1>1, LastPassAssumption DEF Init
  <2>3. /\ kind \in [Names -> {"none", "cmdline", "self", "value"}]
        /\ value \in [Names -> Nat]
    BY DEF Init
  <2>4. level \in Nat \ {0} /\ avoid_level \in 0..level
    BY DEF Init
  <2>5. QED
    BY <2>1, <2>2, <2>3, <2>4 DEF Init, TypeOK
<1>3. ValuesHaveLines
  BY NodesDiffer DEF Init, ValuesHaveLines
<1>4. Control
  BY DEF Init, Control
<1>5. QED
  BY <1>2, <1>3, <1>4 DEF Typed

LEMMA TypedNext == Typed /\ [Next]_vars => Typed'
<1> SUFFICES ASSUME Typed, [Next]_vars PROVE Typed'
  OBVIOUS
<1>1. TypeOK /\ ValuesHaveLines /\ Control
  BY DEF Typed
<1>2. ASSUME UNCHANGED vars PROVE Typed'
  BY <1>1, <1>2 DEF vars, passVars, levelVars, treeVars, Typed, TypeOK, ValuesHaveLines,
                    IsDefined, Control, Sound
<1>3. ASSUME DefineArgument PROVE Typed'
  <2>1. PICK x \in Identifiers, v \in Values :
           SetValue(x, "cmdline", v) /\ given' = [given EXCEPT ![x] = v]
    BY <1>3 DEF DefineArgument
  <2>2. phase = "arguments"
        /\ UNCHANGED <<source, phase, assembler_pass, do_special_pass_1, line, levelVars, seen>>
    BY <1>3 DEF DefineArgument
  <2>3. v \in Nat
    BY LiteralsTyped
  <2>4. TreeTyped' /\ ValuesHaveLines'
    BY <1>1, <2>1, <2>2, <2>3, SetValueTyped
  <2>5. TypeOK'
    BY <1>1, <2>1, <2>2, <2>4 DEF TypeOK, TreeTyped, levelVars
  <2>6. Control'
    BY <1>1, <2>2 DEF Control, levelVars
  <2>7. QED
    BY <2>4, <2>5, <2>6 DEF Typed
<1>4. ASSUME DefineLine PROVE Typed'
  <2>1. /\ OnLine({"define"}) /\ UNCHANGED seen
        /\ SetValue(source[line].name, "value", source[line].value)
        /\ source[line].op = "define" /\ line <= Len(source) /\ UNCHANGED source
    BY <1>4 DEF DefineLine, OnLine, AtLine, passVars
  <2>2. /\ source[line].name \in Identifiers /\ source[line].value \in Nat
        /\ IsDefined(source[line].name)
    BY <1>1, <2>1, SourceLines, LiteralsTyped DEF IsDefined
  <2>3. TreeTyped' /\ ValuesHaveLines'
    BY <1>1, <2>1, <2>2, SetValueTyped
  <2>4. errors \subseteq errors' /\ seen' \in Seq([line : Nat, sees : Int])
    BY <1>1, <2>1 DEF SetValue, Control
  <2>5. QED
    BY <2>1, <2>3, <2>4, OnLineTyped
<1>5. ASSUME SelfLine PROVE Typed'
  <2>1. /\ OnLine({"self"}) /\ UNCHANGED seen /\ SetSelf(source[line].name)
        /\ line <= Len(source) /\ UNCHANGED source
    BY <1>5 DEF SelfLine, OnLine, AtLine, passVars
  <2>2. TreeTyped' /\ ValuesHaveLines'
    BY <1>1, <2>1, SourceLines, SetSelfTyped
  <2>3. errors \subseteq errors' /\ seen' \in Seq([line : Nat, sees : Int])
    BY <1>1, <2>1 DEF SetSelf, Control
  <2>4. QED
    BY <2>1, <2>2, <2>3, OnLineTyped
<1>6. ASSUME AssignLine PROVE Typed'
  <2> DEFINE v == ValueOf(source[line].from)
             w == IF v = Undefined THEN v ELSE v + 1
  <2>1. /\ OnLine({"assign"}) /\ UNCHANGED seen
        /\ SetValue(source[line].name, "value", w)
        /\ source[line].op = "assign" /\ line <= Len(source) /\ UNCHANGED source
    BY <1>6 DEF AssignLine, OnLine, AtLine, passVars
  <2>2. source[line].name \in Identifiers /\ IsDefined(source[line].name)
    BY <1>1, <2>1, SourceLines DEF IsDefined
  <2>3. w \in Nat \cup {Undefined}
    <3>1. v \in Nat \cup {Undefined}
      BY <1>1, <2>1, SourceLines, ValueOfTyped
    <3> HIDE DEF v
    <3>2. QED
      BY <3>1, LiteralsTyped
  <2> HIDE DEF w
  <2>4. TreeTyped' /\ ValuesHaveLines'
    BY <1>1, <2>1, <2>2, <2>3, SetValueTyped
  <2>5. errors \subseteq errors' /\ seen' \in Seq([line : Nat, sees : Int])
    BY <1>1, <2>1 DEF SetValue, Control
  <2>6. QED
    BY <2>1, <2>4, <2>5, OnLineTyped
<1>7. ASSUME UndefLine PROVE Typed'
  <2>1. /\ OnLine({"undef"}) /\ UNCHANGED seen /\ UnsetMacro(source[line].name)
        /\ line <= Len(source) /\ UNCHANGED source
    BY <1>7 DEF UndefLine, OnLine, AtLine, passVars
  <2>2. TreeTyped' /\ ValuesHaveLines'
    BY <1>1, <2>1, SourceLines, UnsetMacroTyped
  <2>3. errors \subseteq errors' /\ seen' \in Seq([line : Nat, sees : Int])
    BY <1>1, <2>1 DEF UnsetMacro, Control
  <2>4. QED
    BY <2>1, <2>2, <2>3, OnLineTyped
<1>8. ASSUME LabelLine PROVE Typed'
  <2>1. /\ OnLine({"label"}) /\ UNCHANGED seen /\ CreateLabel(source[line].name)
        /\ line <= Len(source) /\ UNCHANGED source
    BY <1>8 DEF LabelLine, OnLine, AtLine, passVars
  <2>2. TreeTyped' /\ ValuesHaveLines'
    BY <1>1, <2>1, SourceLines, CreateLabelTyped
  <2>3. errors \subseteq errors' /\ seen' \in Seq([line : Nat, sees : Int])
    BY <1>1, <2>1 DEF CreateLabel, Control
  <2>4. QED
    BY <2>1, <2>2, <2>3, OnLineTyped
<1>9. ASSUME UseLine PROVE Typed'
  <2>1. /\ OnLine({"use"}) /\ See(ValueOf(source[line].name)) /\ UNCHANGED treeVars
        /\ errors \subseteq errors' /\ line <= Len(source) /\ UNCHANGED source
    BY <1>9 DEF UseLine, OnLine, AtLine, passVars
  <2>2. TreeTyped' /\ ValuesHaveLines'
    BY <1>1, <2>1 DEF TypeOK, TreeTyped, treeVars, ValuesHaveLines, IsDefined
  <2>3. ValueOf(source[line].name) \in Int
    BY <1>1, <2>1, SourceLines, ValueOfTyped, LiteralsTyped DEF Undefined
  <2>4. seen' \in Seq([line : Nat, sees : Int])
    BY <1>1, <2>1, <2>3, SourceLines DEF See, Control
  <2>5. QED
    BY <2>1, <2>2, <2>4, OnLineTyped
<1>10. ASSUME IfdefLine PROVE Typed'
  <2>1. /\ AtLine({"ifdef", "ifndef"}) /\ level' = level + 1
        /\ avoid_level' \in {avoid_level, level'}
        /\ UNCHANGED treeVars /\ UNCHANGED errors
        /\ UNCHANGED seen \/ See(0) \/ See(1)
    BY <1>10 DEF IfdefLine
  <2>2. line <= Len(source) /\ line' = line + 1 /\ phase = "assemble" /\ UNCHANGED passVars
    BY <2>1 DEF AtLine
  <2>3. TypeOK'
    BY <1>1, <2>1, <2>2, SourceLines DEF TypeOK, treeVars, passVars
  <2>4. ValuesHaveLines'
    BY <1>1, <2>1, <2>2 DEF treeVars, passVars, ValuesHaveLines, IsDefined
  <2>5. seen' \in Seq([line : Nat, sees : Int])
    <3>1. line \in Nat /\ seen \in Seq([line : Nat, sees : Int])
      BY <1>1, SourceLines DEF Control
    <3>2. \A n \in Int : See(n) => seen' \in Seq([line : Nat, sees : Int])
      <4> SUFFICES ASSUME NEW n \in Int, See(n)
                   PROVE  seen' \in Seq([line : Nat, sees : Int])
        OBVIOUS
      <4>1. QED
        BY <3>1 DEF See
    <3>3. QED
      BY <2>1, <3>1, <3>2
  <2>6. Control'
    BY <1>1, <2>2, <2>5 DEF Control, passVars
  <2>7. QED
    BY <2>3, <2>4, <2>6 DEF Typed
<1>11. ASSUME ElseLine \/ EndifLine PROVE Typed'
  <2>1. /\ level > 1 /\ AtLine({"else", "endif"}) /\ UNCHANGED <<treeVars, errors, seen>>
        /\ \/ level' = level /\ avoid_level' \in {0, level, avoid_level}
           \/ level' = level - 1 /\ avoid_level' = IF avoid_level = level THEN 0 ELSE avoid_level
    BY <1>11 DEF ElseLine, EndifLine, AtLine
  <2>2. line <= Len(source) /\ line' = line + 1 /\ phase = "assemble" /\ UNCHANGED passVars
    BY <2>1 DEF AtLine
  <2>3. TypeOK'
    BY <1>1, <2>1, <2>2, SourceLines DEF TypeOK, treeVars, passVars
  <2>4. ValuesHaveLines'
    BY <1>1, <2>1, <2>2 DEF treeVars, passVars, ValuesHaveLines, IsDefined
  <2>5. Control'
    BY <1>1, <2>1, <2>2, SourceLines DEF Control, passVars
  <2>6. QED
    BY <2>3, <2>4, <2>5 DEF Typed
<1>12. ASSUME UnmatchedLine \/ EndOfFile PROVE Typed'
  <2>1. /\ phase = "assemble" /\ phase' = "assembled" /\ errors \subseteq errors'
        /\ Sound' => line > Len(source) /\ level = 1
        /\ UNCHANGED <<source, assembler_pass, do_special_pass_1, given, line, levelVars,
                       treeVars, seen>>
    <3>1. CASE UnmatchedLine
      <4>1. "without %IF" \in errors'
        BY <3>1 DEF UnmatchedLine, CloseFile
      <4>2. ~Sound'
        BY <4>1 DEF Sound
      <4>3. QED
        BY <3>1, <4>2 DEF UnmatchedLine, CloseFile
    <3>2. CASE EndOfFile
      <4>1. level # 1 => "pending %IF" \in errors'
        BY <3>2 DEF EndOfFile, CloseFile
      <4>2. Sound' => level = 1
        BY <4>1 DEF Sound
      <4>3. QED
        BY <3>2, <4>2 DEF EndOfFile, CloseFile
    <3>3. QED
      BY <1>12, <3>1, <3>2
  <2>2. TypeOK' /\ ValuesHaveLines'
    BY <1>1, <2>1 DEF TypeOK, ValuesHaveLines, IsDefined, levelVars, treeVars
  <2>3. Control'
    BY <1>1, <2>1, SourceLines DEF Control, levelVars
  <2>4. QED
    BY <2>2, <2>3 DEF Typed
<1>13. ASSUME SkipLine PROVE Typed'
  <2>1. /\ AtLine(Ops) /\ UNCHANGED <<levelVars, treeVars, errors, seen>>
    BY <1>13 DEF SkipLine, AtLine
  <2>2. line <= Len(source) /\ line' = line + 1 /\ phase = "assemble" /\ UNCHANGED passVars
    BY <2>1 DEF AtLine
  <2>3. TypeOK' /\ ValuesHaveLines'
    BY <1>1, <2>1, <2>2, SourceLines
    DEF TypeOK, levelVars, treeVars, passVars, ValuesHaveLines, IsDefined
  <2>4. Control'
    BY <1>1, <2>1, <2>2 DEF Control, passVars
  <2>5. QED
    BY <2>3, <2>4 DEF Typed
<1>14. ASSUME NEW special \in BOOLEAN, Assemble, UNCHANGED assembler_pass \/ assembler_pass' \in 0..LastPass,
              do_special_pass_1' \in BOOLEAN,
              deleted' = deleted \/ deleted' = Tree!DeletedByReset(special)
       PROVE  Typed'
  <2>1. TreeTyped' /\ ValuesHaveLines'
    <3>1. UNCHANGED <<source, names, kind, value>>
      BY <1>14 DEF Assemble
    <3>2. CASE deleted' = deleted
      BY <1>1, <3>1, <3>2 DEF TypeOK, TreeTyped, ValuesHaveLines, IsDefined
    <3>3. CASE deleted' = Tree!DeletedByReset(special)
      BY <1>1, <3>1, <3>3, ResetTyped
    <3>4. QED
      BY <1>14, <3>2, <3>3
  <2>2. TypeOK'
    BY <1>1, <1>14, <2>1, SourceLines DEF TypeOK, TreeTyped, Assemble
  <2>3. Control'
    BY <1>1, <1>14 DEF Control, Assemble
  <2>4. QED
    BY <2>1, <2>2, <2>3 DEF Typed
<1>15. ASSUME StartPass0 PROVE Typed'
  BY <1>1, <1>14, <1>15 DEF StartPass0, TypeOK
<1>16. ASSUME StartSpecialPass PROVE Typed'
  <2>1. assembler_pass' \in 0..LastPass
    BY <1>16, LastPassAssumption DEF StartSpecialPass
  <2>2. /\ Assemble /\ do_special_pass_1' \in BOOLEAN
        /\ deleted' = Tree!DeletedByReset(TRUE)
    BY <1>16 DEF StartSpecialPass, ResetLabels
  <2>3. QED
    BY <1>14, <2>1, <2>2
<1>17. ASSUME StartPass PROVE Typed'
  <2>1. assembler_pass' \in 0..LastPass
    BY <1>1, <1>17, LastPassAssumption DEF StartPass, TypeOK
  <2>2. QED
    BY <1>1, <1>14, <1>17, <2>1 DEF StartPass, ResetMacros, TypeOK
<1>18. ASSUME Exit PROVE Typed'
  BY <1>1, <1>18 DEF Exit, Typed, TypeOK, ValuesHaveLines, IsDefined, Control, Sound,
                     levelVars, treeVars
<1>19. QED
  BY <1>2, <1>3, <1>4, <1>5, <1>6, <1>7, <1>8, <1>9, <1>10, <1>11, <1>12, <1>13, <1>15,
     <1>16, <1>17, <1>18
  DEF Next, SourceLine, Main, Done

-----------------------------------------------------------------------------
(* The lines of the source that change the tree follow the reading. *)

MacroValues == Nat \cup {Undefined}

LEMMA SetValueFollows ==
    ASSUME TypeOK, NEW def \in [Identifiers -> Definitions], NEW labels \in SUBSET Identifiers,
           NEW all, Agrees(def, labels, all), NEW x \in Identifiers,
           NEW v \in MacroValues, SetValue(x, "value", v), Sound',
           UNCHANGED <<assembler_pass, given>>
    PROVE  /\ v # Undefined /\ UNCHANGED errors
           /\ given[x] = Undefined /\ def[x] # SelfDefined
           /\ assembler_pass <= 1 => x \notin labels
           /\ \A d \in [Identifiers -> Definitions] :
                 d = [def EXCEPT ![x] = v] => Agrees(d, labels, all)'
<1>1. ValueErrors(x, "value", v) = {}
  BY DEF SetValue, ValueErrors, Sound
<1>2. /\ Live(Label(x)) => Live(Macro(x))
      /\ v \in Nat /\ v # Undefined
      /\ Live(Macro(x)) => kind[Macro(x)] = "value"
  BY <1>1, LiteralsTyped DEF ValueErrors, MacroValues
<1>3. /\ names' = names \cup {Macro(x), Label(x)}
      /\ deleted' = deleted \ {Macro(x), Label(x)}
      /\ kind' = [kind EXCEPT ![Macro(x)] = "value"]
      /\ value' = [value EXCEPT ![Label(x)] = v]
      /\ errors' = errors
  BY <1>1 DEF SetValue
<1>4. MacroAgrees(def[x], x) /\ LabelAgrees(def[x], labels, all, x)
  BY DEF Agrees
<1>5. def[x] \in Definitions /\ given[x] \in Values \cup {Undefined}
  BY DEF TypeOK
<1>6. given[x] = Undefined /\ def[x] # SelfDefined
  BY <1>2, <1>4, <1>5, LiteralsTyped DEF MacroAgrees, Definitions, Undefined, SelfDefined
<1>7. assembler_pass <= 1 => x \notin labels
  BY <1>2, <1>4, <1>5, <1>6 DEF MacroAgrees, LabelAgrees, Definitions, Undefined, SelfDefined
<1>8. ASSUME NEW y \in Identifiers, y # x
      PROVE  /\ Live(Macro(y))' = Live(Macro(y)) /\ Live(Label(y))' = Live(Label(y))
             /\ kind'[Macro(y)] = kind[Macro(y)] /\ value'[Label(y)] = value[Label(y)]
  BY <1>3, <1>8, NodesDiffer DEF TypeOK, Live
<1>9. /\ Live(Macro(x))' /\ Live(Label(x))'
      /\ kind'[Macro(x)] = "value" /\ value'[Label(x)] = v
  BY <1>3, NodesDiffer DEF TypeOK, Live
<1>10. ASSUME NEW d \in [Identifiers -> Definitions], d = [def EXCEPT ![x] = v],
              NEW y \in Identifiers
       PROVE  MacroAgrees(d[y], y)' /\ LabelAgrees(d[y], labels, all, y)'
  <2>1. CASE y = x
    <3>1. d[y] = v
      BY <1>10, <2>1
    <3>2. QED
      BY <1>2, <1>6, <1>7, <1>9, <2>1, <3>1
      DEF MacroAgrees, LabelAgrees, Undefined, SelfDefined
  <2>2. CASE y # x
    <3>1. d[y] = def[y]
      BY <1>10, <2>2
    <3>2. MacroAgrees(def[y], y) /\ LabelAgrees(def[y], labels, all, y)
      BY DEF Agrees
    <3>3. QED
      BY <1>8, <2>2, <3>1, <3>2 DEF MacroAgrees, LabelAgrees
  <2>3. QED
    BY <2>1, <2>2
<1>11. QED
  BY <1>2, <1>3, <1>6, <1>7, <1>10 DEF Agrees

LEMMA SetSelfFollows ==
    ASSUME TypeOK, NEW def \in [Identifiers -> Definitions], NEW labels \in SUBSET Identifiers,
           NEW all, Agrees(def, labels, all), NEW x \in Identifiers,
           SetSelf(x), Sound', UNCHANGED <<assembler_pass, given>>
    PROVE  /\ UNCHANGED errors
           /\ given[x] = Undefined /\ def[x] < 0
           /\ \A d \in [Identifiers -> Definitions] :
                 d = [def EXCEPT ![x] = SelfDefined] => Agrees(d, labels, all)'
<1>1. MacroAgrees(def[x], x) /\ LabelAgrees(def[x], labels, all, x)
  BY DEF Agrees
<1>2. def[x] \in Definitions /\ given[x] \in Values \cup {Undefined}
  BY DEF TypeOK
<1>3. Live(Macro(x)) => kind[Macro(x)] = "self"
  <2> SUFFICES ASSUME Live(Macro(x)), kind[Macro(x)] # "self" PROVE FALSE
    OBVIOUS
  <2>1. "invalid macro override" \in errors'
    BY DEF SetSelf
  <2>2. QED
    BY <2>1 DEF Sound
<1>4. errors' = errors
  BY <1>3 DEF SetSelf
<1>5. given[x] = Undefined /\ def[x] < 0
  BY <1>1, <1>2, <1>3, LiteralsTyped DEF MacroAgrees, Definitions, Undefined, SelfDefined
<1>6. ASSUME NEW y \in Identifiers, y # x
      PROVE  /\ Live(Macro(y))' = Live(Macro(y)) /\ Live(Label(y))' = Live(Label(y))
             /\ kind'[Macro(y)] = kind[Macro(y)] /\ value'[Label(y)] = value[Label(y)]
  <2>1. CASE Live(Macro(x))
    BY <2>1 DEF SetSelf, treeVars, Live
  <2>2. CASE ~Live(Macro(x))
    BY <1>6, <2>2, NodesDiffer DEF SetSelf, TypeOK, Live
  <2>3. QED
    BY <2>1, <2>2
<1>7. /\ Live(Macro(x))' /\ Live(Label(x))' = Live(Label(x))
      /\ kind'[Macro(x)] = "self" /\ value'[Label(x)] = value[Label(x)]
  <2>1. CASE Live(Macro(x))
    BY <1>3, <2>1 DEF SetSelf, treeVars, Live
  <2>2. CASE ~Live(Macro(x))
    BY <2>2, NodesDiffer DEF SetSelf, TypeOK, Live
  <2>3. QED
    BY <2>1, <2>2
<1>8. ASSUME NEW d \in [Identifiers -> Definitions], d = [def EXCEPT ![x] = SelfDefined],
             NEW y \in Identifiers
      PROVE  MacroAgrees(d[y], y)' /\ LabelAgrees(d[y], labels, all, y)'
  <2>1. CASE y = x
    <3>1. d[y] = SelfDefined
      BY <1>8, <2>1
    <3>2. MacroAgrees(d[y], y)'
      BY <1>5, <1>7, <2>1, <3>1 DEF MacroAgrees, Undefined, SelfDefined
    <3>3. LabelAgrees(d[y], labels, all, y)'
      BY <1>1, <1>2, <1>5, <1>7, <2>1, <3>1 DEF LabelAgrees, Definitions, Undefined, SelfDefined
    <3>4. QED
      BY <3>2, <3>3
  <2>2. CASE y # x
    <3>1. d[y] = def[y]
      BY <1>8, <2>2
    <3>2. MacroAgrees(def[y], y) /\ LabelAgrees(def[y], labels, all, y)
      BY DEF Agrees
    <3>3. QED
      BY <1>6, <2>2, <3>1, <3>2 DEF MacroAgrees, LabelAgrees
  <2>3. QED
    BY <2>1, <2>2
<1>9. QED
  BY <1>4, <1>5, <1>8 DEF Agrees

LEMMA UnsetMacroFollows ==
    ASSUME TypeOK, NEW def \in [Identifiers -> Definitions], NEW labels \in SUBSET Identifiers,
           NEW all, Agrees(def, labels, all), NEW x \in Identifiers,
           UnsetMacro(x), Sound', UNCHANGED <<assembler_pass, given>>
    PROVE  /\ UNCHANGED errors
           /\ given[x] = Undefined
           /\ \A d \in [Identifiers -> Definitions] :
                 d = [def EXCEPT ![x] = Undefined] => Agrees(d, labels, all)'
<1>1. MacroAgrees(def[x], x) /\ LabelAgrees(def[x], labels, all, x)
  BY DEF Agrees
<1>2. def[x] \in Definitions /\ given[x] \in Values \cup {Undefined}
  BY DEF TypeOK
<1>3. ~(Live(Macro(x)) /\ kind[Macro(x)] = "cmdline")
  BY DEF UnsetMacro, Sound
<1>4. /\ errors' = errors /\ UNCHANGED <<names, kind, value>>
      /\ deleted' = IF Live(Macro(x)) THEN deleted \cup DeletedByUndef(x) ELSE deleted
  BY <1>3 DEF UnsetMacro
<1>5. given[x] = Undefined
  BY <1>1, <1>2, <1>3, LiteralsTyped DEF MacroAgrees, Definitions, Undefined, SelfDefined
<1>6. ASSUME NEW y \in Identifiers, y # x
      PROVE  /\ Live(Macro(y))' = Live(Macro(y)) /\ Live(Label(y))' = Live(Label(y))
             /\ kind'[Macro(y)] = kind[Macro(y)] /\ value'[Label(y)] = value[Label(y)]
  BY <1>4, <1>6, NodesDiffer DEF DeletedByUndef, Live
<1>7. /\ ~Live(Macro(x))'
      /\ Live(Label(x))' <=>
            Live(Label(x)) /\ ~(Live(Macro(x)) /\ kind[Macro(x)] = "value")
      /\ kind'[Macro(x)] = kind[Macro(x)] /\ value'[Label(x)] = value[Label(x)]
  BY <1>4, NodesDiffer DEF DeletedByUndef, Live
<1>8. /\ ~Live(Macro(x)) => def[x] = Undefined
      /\ def[x] >= 0 => Live(Macro(x)) /\ kind[Macro(x)] = "value"
      /\ Live(Macro(x)) /\ kind[Macro(x)] = "value" => def[x] >= 0
  BY <1>1, <1>2, <1>5 DEF MacroAgrees, Definitions, Undefined, SelfDefined
<1>9. ASSUME NEW d \in [Identifiers -> Definitions], d = [def EXCEPT ![x] = Undefined],
             NEW y \in Identifiers
      PROVE  MacroAgrees(d[y], y)' /\ LabelAgrees(d[y], labels, all, y)'
  <2>1. CASE y = x
    <3>1. d[y] = Undefined
      BY <1>9, <2>1
    <3>2. MacroAgrees(d[y], y)'
      BY <1>1, <1>4, <1>5, <1>7, <2>1, <3>1 DEF MacroAgrees, Undefined, SelfDefined
    <3>3. LabelAgrees(d[y], labels, all, y)'
      BY <1>1, <1>2, <1>7, <1>8, <2>1, <3>1 DEF LabelAgrees, Definitions, Undefined, SelfDefined
    <3>4. QED
      BY <3>2, <3>3
  <2>2. CASE y # x
    <3>1. d[y] = def[y]
      BY <1>9, <2>2
    <3>2. MacroAgrees(def[y], y) /\ LabelAgrees(def[y], labels, all, y)
      BY DEF Agrees
    <3>3. QED
      BY <1>6, <2>2, <3>1, <3>2 DEF MacroAgrees, LabelAgrees
  <2>3. QED
    BY <2>1, <2>2
<1>10. QED
  BY <1>4, <1>5, <1>9 DEF Agrees

LEMMA CreateLabelFollows ==
    ASSUME TypeOK, NEW def \in [Identifiers -> Definitions], NEW labels \in SUBSET Identifiers,
           NEW all, Agrees(def, labels, all), NEW x \in Identifiers,
           CreateLabel(x), Sound', UNCHANGED <<assembler_pass, given>>,
           assembler_pass > 1 => def[x] < 0 /\ x \in all
    PROVE  /\ UNCHANGED errors
           /\ def[x] < 0
           /\ assembler_pass <= 1 => x \notin labels
           /\ Agrees(def, labels \cup {x}, all)'
<1>1. MacroAgrees(def[x], x) /\ LabelAgrees(def[x], labels, all, x)
  BY DEF Agrees
<1>2. def[x] \in Definitions /\ given[x] \in Values \cup {Undefined}
      /\ assembler_pass \in Nat
  BY LastPassAssumption DEF TypeOK
<1>3. CreateErrors(Label(x)) = {}
  BY DEF CreateLabel, CreateErrors, Sound
<1>4. /\ errors' = errors /\ UNCHANGED kind
      /\ names' = names \cup {Label(x)}
      /\ deleted' = deleted \ {Label(x)}
      /\ value' = [value EXCEPT ![Label(x)] = LabelValue]
  BY <1>3 DEF CreateLabel
<1>5. assembler_pass <= 1 => def[x] < 0 /\ x \notin labels
  <2> SUFFICES ASSUME assembler_pass <= 1 PROVE def[x] < 0 /\ x \notin labels
    OBVIOUS
  <2>1. ~Live(Label(x))
    BY <1>3 DEF CreateErrors
  <2>2. ~(def[x] >= 0) /\ x \notin labels
    BY <1>1, <2>1 DEF LabelAgrees
  <2>3. QED
    BY <1>2, <2>2 DEF Definitions, Undefined, SelfDefined
<1>6. def[x] < 0
  BY <1>2, <1>5
<1>7. ASSUME NEW y \in Identifiers
      PROVE  /\ Live(Macro(y))' = Live(Macro(y))
             /\ y # x => Live(Label(y))' = Live(Label(y))
             /\ kind'[Macro(y)] = kind[Macro(y)]
             /\ y # x => value'[Label(y)] = value[Label(y)]
  BY <1>4, NodesDiffer DEF TypeOK, Live
<1>8. Live(Label(x))' /\ value'[Label(x)] = LabelValue
  BY <1>4, NodesDiffer DEF TypeOK, Live
<1>9. ASSUME NEW y \in Identifiers
      PROVE  MacroAgrees(def[y], y)' /\ LabelAgrees(def[y], labels \cup {x}, all, y)'
  <2>1. MacroAgrees(def[y], y) /\ LabelAgrees(def[y], labels, all, y)
    BY DEF Agrees
  <2>2. CASE y = x
    BY <1>1, <1>2, <1>6, <1>7, <1>8, <2>2 DEF MacroAgrees, LabelAgrees, Definitions, Undefined, SelfDefined
  <2>3. CASE y # x
    BY <1>7, <2>1, <2>3 DEF MacroAgrees, LabelAgrees
  <2>4. QED
    BY <2>2, <2>3
<1>10. QED
  BY <1>4, <1>5, <1>6, <1>9 DEF Agrees

LEMMA SkippedIfNotTaken ==
    ASSUME TypeOK, NEW r \in ReadType, NestedAs(r.branches)
    PROVE  Taken(r) <=> ~Skipping
<1>1. r.branches \in Seq(BOOLEAN)
  BY DEF ReadType
<1>2. level \in Nat \ {0} /\ avoid_level \in 0..level
  BY DEF TypeOK
<1>3. CASE avoid_level = 0
  BY <1>3 DEF NestedAs, Taken, Skipping
<1>4. CASE avoid_level # 0
  <2>1. avoid_level - 1 \in DOMAIN r.branches /\ ~r.branches[avoid_level - 1]
    BY <1>1, <1>2, <1>4 DEF NestedAs
  <2>2. QED
    BY <1>2, <1>4, <2>1 DEF Taken, Skipping
<1>5. QED
  BY <1>3, <1>4

LEMMA NestingOpens ==
    ASSUME TypeOK, NEW b \in Seq(BOOLEAN), NestedAs(b), NEW holds \in BOOLEAN,
           level' = level + 1,
           avoid_level' = IF Skipping THEN avoid_level ELSE IF holds THEN 0 ELSE level + 1
    PROVE  NestedAs(Append(b, holds))'
<1> DEFINE c == Append(b, holds)
<1>1. level \in Nat \ {0} /\ avoid_level \in 0..level /\ Len(b) = level - 1
  BY DEF TypeOK, NestedAs
<1>2. /\ c \in Seq(BOOLEAN) /\ Len(c) = level /\ DOMAIN c = 1..level
      /\ c[level] = holds /\ \A k \in DOMAIN b : c[k] = b[k]
      /\ DOMAIN b = 1..level - 1
  BY <1>1
<1>3. avoid_level # 0 => avoid_level \in 2..level /\ ~b[avoid_level - 1]
  BY DEF NestedAs
<1>4. \A k \in DOMAIN b : avoid_level = 0 \/ k < avoid_level - 1 => b[k]
  BY DEF NestedAs
<1> HIDE DEF c
<1>5. CASE avoid_level # 0
  <2>1. avoid_level' = avoid_level
    BY <1>1, <1>5 DEF Skipping
  <2>2. QED
    BY <1>1, <1>2, <1>3, <1>4, <1>5, <2>1 DEF NestedAs, c
<1>6. CASE avoid_level = 0
  <2>1. avoid_level' = IF holds THEN 0 ELSE level + 1
    BY <1>6 DEF Skipping
  <2>2. ASSUME NEW k \in DOMAIN c, avoid_level' = 0 \/ k < avoid_level' - 1
        PROVE  c[k]
    <3>1. CASE k = level
      BY <1>1, <1>2, <2>1, <2>2, <3>1
    <3>2. CASE k # level
      BY <1>1, <1>2, <1>4, <1>6, <3>2
    <3>3. QED
      BY <3>1, <3>2
  <2>3. avoid_level' # 0 => avoid_level' \in 2..level' /\ ~c[avoid_level' - 1]
    BY <1>1, <1>2, <2>1
  <2>4. Len(c) = level' - 1
    BY <1>1, <1>2
  <2>5. QED
    BY <2>2, <2>3, <2>4 DEF NestedAs, c
<1>7. QED
  BY <1>5, <1>6

LEMMA NestingTurns ==
    ASSUME TypeOK, NEW b \in Seq(BOOLEAN), NestedAs(b), level > 1, level' = level,
           avoid_level' = CASE avoid_level = level -> 0
                            [] avoid_level = 0 -> level
                            [] OTHER -> avoid_level
    PROVE  NestedAs([b EXCEPT ![Len(b)] = ~@])'
<1> DEFINE n == Len(b)
           c == [b EXCEPT ![n] = ~@]
<1>1. level \in Nat /\ n = level - 1 /\ n \in DOMAIN b /\ DOMAIN b = 1..n
      /\ avoid_level \in 0..level
  BY DEF TypeOK, NestedAs
<1>2. Len(c) = n /\ DOMAIN c = 1..n /\ (c[n] <=> ~b[n])
      /\ \A k \in 1..n : k # n => (c[k] <=> b[k])
  <2>1. c \in Seq(BOOLEAN) /\ Len(c) = n
    BY <1>1
  <2>2. DOMAIN c = DOMAIN b
    BY Zenon
  <2> HIDE DEF n
  <2>3. c[n] = ~b[n] /\ \A k \in 1..n : k # n => c[k] = b[k]
    BY <1>1, Zenon
  <2>4. QED
    BY <1>1, <2>1, <2>2, <2>3, Zenon
<1>3. avoid_level # 0 => avoid_level \in 2..level /\ ~b[avoid_level - 1]
  BY DEF NestedAs
<1>4. \A k \in 1..n : avoid_level = 0 \/ k < avoid_level - 1 => b[k]
  BY <1>1 DEF NestedAs
<1>5. avoid_level' = IF avoid_level = level THEN 0
                     ELSE IF avoid_level = 0 THEN level ELSE avoid_level
  BY <1>1
<1> HIDE DEF c
<1>6. ASSUME NEW k \in 1..n, avoid_level' = 0 \/ k < avoid_level' - 1
      PROVE  c[k]
  BY <1>1, <1>2, <1>3, <1>4, <1>5, <1>6
<1>7. avoid_level' # 0 => avoid_level' \in 2..level' /\ ~c[avoid_level' - 1]
  BY <1>1, <1>2, <1>3, <1>4, <1>5
<1>8. NestedAs(c)'
  <2> HIDE DEF n
  <2> QED
    BY <1>1, <1>2, <1>6, <1>7 DEF NestedAs, c
<1>9. QED
  BY <1>8 DEF c

LEMMA NestingCloses ==
    ASSUME TypeOK, NEW b \in Seq(BOOLEAN), NestedAs(b), level > 1, level' = level - 1,
           avoid_level' = IF avoid_level = level THEN 0 ELSE avoid_level
    PROVE  NestedAs(SubSeq(b, 1, Len(b) - 1))'
<1> DEFINE n == Len(b)
           c == SubSeq(b, 1, n - 1)
<1>1. level \in Nat /\ n = level - 1 /\ n \in DOMAIN b /\ DOMAIN b = 1..n
      /\ avoid_level \in 0..level
  BY DEF TypeOK, NestedAs
<1>2. Len(c) = n - 1 /\ DOMAIN c = 1..n - 1 /\ \A k \in 1..n - 1 : c[k] = b[k]
  BY <1>1
<1>3. avoid_level # 0 => avoid_level \in 2..level /\ ~b[avoid_level - 1]
  BY DEF NestedAs
<1>4. \A k \in 1..n : avoid_level = 0 \/ k < avoid_level - 1 => b[k]
  BY <1>1 DEF NestedAs
<1> HIDE DEF c
<1>5. ASSUME NEW k \in 1..n - 1, avoid_level' = 0 \/ k < avoid_level' - 1
      PROVE  c[k]
  BY <1>1, <1>2, <1>3, <1>4, <1>5
<1>6. avoid_level' # 0 => avoid_level' \in 2..level' /\ ~c[avoid_level' - 1]
  BY <1>1, <1>2, <1>3
<1>7. NestedAs(c)'
  <2> HIDE DEF n
  <2> QED
    BY <1>1, <1>2, <1>5, <1>6 DEF NestedAs, c
<1>8. QED
  BY <1>7 DEF c

\* The value of a name is the one that the reading knows.
LEMMA ValueFollows ==
    ASSUME TypeOK, NEW r \in ReadType, NEW end,
           Agrees(r.def, r.labels, end.labels), NEW x \in Identifiers
    PROVE  /\ r.def[x] >= 0 => ValueOf(x) = r.def[x]
           /\ r.def[x] < 0 /\ ValueOf(x) # Undefined =>
                 /\ ValueOf(x) = LabelValue
                 /\ x \in IF assembler_pass <= 1 THEN r.labels ELSE end.labels
           /\ assembler_pass <= 1 => ValueOf(x) = ReadValue(r, x)
<1>1. MacroAgrees(r.def[x], x) /\ LabelAgrees(r.def[x], r.labels, end.labels, x)
  BY DEF Agrees
<1>2. r.def[x] \in Definitions /\ value[Label(x)] \in Nat
  BY NodesDiffer DEF ReadType, TypeOK
<1>3. CASE r.def[x] >= 0
  <2>1. ValueOf(x) = r.def[x] /\ ReadValue(r, x) = r.def[x]
    BY <1>1, <1>3 DEF MacroAgrees, ValueOf, ReadValue
  <2>2. QED
    BY <1>2, <1>3, <2>1 DEF Definitions, Undefined, SelfDefined
<1>4. CASE ~(r.def[x] >= 0)
  <2>1. CASE Live(Label(x))
    BY <1>1, <1>2, <1>4, <2>1
    DEF LabelAgrees, ValueOf, ReadValue, Definitions, Undefined, SelfDefined
  <2>2. CASE ~Live(Label(x))
    BY <1>1, <1>2, <1>4, <2>2 DEF LabelAgrees, ValueOf, ReadValue
  <2>3. QED
    BY <2>1, <2>2
<1>5. QED
  BY <1>2, <1>3, <1>4 DEF Definitions, Undefined, SelfDefined

\* A line takes the state from one place of the reading to the next, if it prints
\* no error but of the use of a name; what pass 0 accepts is what the reading says.
LEMMA LineFollows ==
    ASSUME TypeOK, NEW r \in ReadType, NEW end, Follows(r, end),
           NEW l \in Lines, l = source[line], NEW n \in ReadType, n = Read(r, l),
           AtLine(Ops), SourceLine, Sound', assembler_pass >= 1 => Accepted(r, l),
           Taken(r) /\ l.op = "label" => l.name \in end.labels
    PROVE  /\ Follows(n, end)'
           /\ Accepted(r, l)
           /\ UNCHANGED errors \/ (UseLine /\ Taken(r))
<1> PICK def, labels, all, x :
         def = r.def /\ labels = r.labels /\ all = end.labels /\ x = l.name
  OBVIOUS
<1>1. /\ Taken(r) <=> ~Skipping
      /\ Agrees(def, labels, all) /\ NestedAs(r.branches)
      /\ def \in [Identifiers -> Definitions] /\ labels \in SUBSET Identifiers
      /\ r.branches \in Seq(BOOLEAN)
  BY SkippedIfNotTaken DEF Follows, ReadType
<1>2. x \in Identifiers /\ l.from \in Identifiers /\ l.value \in Values
      /\ UNCHANGED <<assembler_pass, given>> /\ UNCHANGED source
      /\ assembler_pass \in Nat
  BY LastPassAssumption DEF Lines, AtLine, passVars, TypeOK
<1>3. /\ n.def = IF Taken(r) THEN [def EXCEPT ![x] = Definition(r, l)] ELSE def
      /\ n.labels = IF Taken(r) /\ l.op = "label" THEN labels \cup {x} ELSE labels
      /\ n.branches = BranchesAfter(r, l)
      /\ n.def \in [Identifiers -> Definitions]
  BY DEF Read, ReadType
<1>4. ASSUME NEW ops, OnLine(ops), ops \cap {"ifdef", "ifndef", "else", "endif"} = {}
      PROVE  Taken(r) /\ l.op \in ops /\ n.branches = r.branches /\ NestedAs(n.branches)'
  <2>1. Taken(r) /\ l.op \in ops /\ UNCHANGED levelVars
    BY <1>1, <1>4 DEF OnLine, AtLine
  <2>2. n.branches = r.branches
    BY <1>3, <1>4, <2>1 DEF BranchesAfter
  <2>3. QED
    BY <1>1, <2>1, <2>2 DEF NestedAs, levelVars
<1>5. ASSUME Agrees(n.def, n.labels, all)', NestedAs(n.branches)'
      PROVE  Follows(n, end)'
  BY <1>5 DEF Follows
<1>6. CASE DefineLine
  <2>1. Taken(r) /\ l.op = "define" /\ NestedAs(n.branches)' /\ SetValue(x, "value", l.value)
    BY <1>4, <1>6 DEF DefineLine
  <2>2. n.def = [def EXCEPT ![x] = l.value] /\ n.labels = labels
    BY <1>3, <2>1 DEF Definition
  <2>3. l.value \in MacroValues
    BY <1>2, LiteralsTyped DEF MacroValues
  <2>4. /\ UNCHANGED errors /\ given[x] = Undefined /\ def[x] # SelfDefined
        /\ assembler_pass <= 1 => x \notin labels
        /\ Agrees(n.def, n.labels, all)'
    <3>1. /\ UNCHANGED errors /\ given[x] = Undefined /\ def[x] # SelfDefined
          /\ assembler_pass <= 1 => x \notin labels
      BY ONLY TypeOK, Sound', <1>1, <1>2, <2>1, <2>3, SetValueFollows, ZenonT(60)
    <3>2. ASSUME NEW d \in [Identifiers -> Definitions], d = [def EXCEPT ![x] = l.value]
          PROVE  Agrees(d, labels, all)'
      BY ONLY TypeOK, Sound', <1>1, <1>2, <2>1, <2>3, <3>2, SetValueFollows, Zenon
    <3>3. QED
      BY <1>3, <2>2, <3>1, <3>2, Zenon
  <2>5. Accepted(r, l)
    BY <1>2, <2>1, <2>4 DEF Accepted
  <2>6. QED
    BY <1>5, <2>1, <2>4, <2>5
<1>7. CASE SelfLine
  <2>1. Taken(r) /\ l.op = "self" /\ NestedAs(n.branches)' /\ SetSelf(x)
    BY <1>4, <1>7 DEF SelfLine
  <2>2. n.def = [def EXCEPT ![x] = SelfDefined] /\ n.labels = labels
    BY <1>3, <2>1 DEF Definition
  <2>3. /\ UNCHANGED errors /\ given[x] = Undefined /\ def[x] < 0
        /\ Agrees(n.def, n.labels, all)'
    <3>1. /\ UNCHANGED errors /\ given[x] = Undefined /\ def[x] < 0
          /\ \A d \in [Identifiers -> Definitions] :
                d = [def EXCEPT ![x] = SelfDefined] => Agrees(d, labels, all)'
      BY <1>1, <1>2, <2>1, SetSelfFollows, Zenon
    <3>2. QED
      BY <1>3, <2>2, <3>1, Zenon
  <2>4. Accepted(r, l)
    BY <2>1, <2>3 DEF Accepted
  <2>5. QED
    BY <1>5, <2>1, <2>3, <2>4
<1>8. CASE AssignLine
  <2> PICK v, w : v = ValueOf(l.from) /\ w = IF v = Undefined THEN v ELSE v + 1
    OBVIOUS
  <2>1. Taken(r) /\ l.op = "assign" /\ NestedAs(n.branches)' /\ SetValue(x, "value", w)
    BY <1>4, <1>8 DEF AssignLine
  <2>2. n.def = [def EXCEPT ![x] = ReadValue(r, l.from) + 1] /\ n.labels = labels
    BY <1>3, <2>1 DEF Definition
  <2>3. v \in Nat \cup {Undefined}
    BY <1>2, ValueOfTyped
  <2>4. w \in MacroValues /\ (w # Undefined => v # Undefined /\ w = v + 1)
    BY <2>3, LiteralsTyped DEF MacroValues
  <2>5. w # Undefined => w = ReadValue(r, l.from) + 1 /\ ReadValue(r, l.from) # Undefined
    <3> SUFFICES ASSUME w # Undefined
                 PROVE  w = ReadValue(r, l.from) + 1 /\ ReadValue(r, l.from) # Undefined
      OBVIOUS
    <3>1. v = ReadValue(r, l.from)
      <4>1. CASE assembler_pass <= 1
        BY <1>1, <1>2, <4>1, ValueFollows
      <4>2. CASE ~(assembler_pass <= 1)
        <5>1. ReadValue(r, l.from) # Undefined
          BY <1>2, <2>1, <4>2 DEF Accepted
        <5>2. def[l.from] \in Definitions
          BY <1>1, <1>2
        <5>3. /\ def[l.from] >= 0 => v = def[l.from]
              /\ def[l.from] < 0 => v = LabelValue
          BY <1>1, <1>2, <2>4, ValueFollows
        <5>4. QED
          BY <5>1, <5>2, <5>3 DEF ReadValue, Definitions, Undefined, SelfDefined
      <4>3. QED
        BY <4>1, <4>2
    <3>2. QED
      BY <2>4, <3>1
  <2>6. /\ w # Undefined
        /\ UNCHANGED errors /\ given[x] = Undefined /\ def[x] # SelfDefined
        /\ assembler_pass <= 1 => x \notin labels
        /\ \A d \in [Identifiers -> Definitions] :
              d = [def EXCEPT ![x] = w] => Agrees(d, labels, all)'
    <3>1. /\ w # Undefined
          /\ UNCHANGED errors /\ given[x] = Undefined /\ def[x] # SelfDefined
          /\ assembler_pass <= 1 => x \notin labels
      BY ONLY TypeOK, Sound', <1>1, <1>2, <2>1, <2>4, SetValueFollows, Zenon
    <3>2. ASSUME NEW d \in [Identifiers -> Definitions], d = [def EXCEPT ![x] = w]
          PROVE  Agrees(d, labels, all)'
      BY ONLY TypeOK, Sound', <1>1, <1>2, <2>1, <2>4, <3>2, SetValueFollows, Zenon
    <3>3. QED
      BY <3>1, <3>2
  <2>7. Agrees(n.def, n.labels, all)'
    BY <1>3, <2>2, <2>5, <2>6
  <2>8. Accepted(r, l)
    BY <1>2, <2>1, <2>5, <2>6 DEF Accepted
  <2>9. QED
    BY <1>5, <2>1, <2>6, <2>7, <2>8
<1>9. CASE UndefLine
  <2>1. Taken(r) /\ l.op = "undef" /\ NestedAs(n.branches)' /\ UnsetMacro(x)
    BY <1>4, <1>9 DEF UndefLine
  <2>2. n.def = [def EXCEPT ![x] = Undefined] /\ n.labels = labels
    BY <1>3, <2>1 DEF Definition
  <2>3. /\ UNCHANGED errors /\ given[x] = Undefined
        /\ Agrees(n.def, n.labels, all)'
    <3>1. /\ UNCHANGED errors /\ given[x] = Undefined
          /\ \A d \in [Identifiers -> Definitions] :
                d = [def EXCEPT ![x] = Undefined] => Agrees(d, labels, all)'
      BY <1>1, <1>2, <2>1, UnsetMacroFollows, Zenon
    <3>2. QED
      BY <1>3, <2>2, <3>1, Zenon
  <2>4. Accepted(r, l)
    BY <2>1, <2>3 DEF Accepted
  <2>5. QED
    BY <1>5, <2>1, <2>3, <2>4
<1>10. CASE LabelLine
  <2>1. Taken(r) /\ l.op = "label" /\ NestedAs(n.branches)' /\ CreateLabel(x)
    BY <1>4, <1>10 DEF LabelLine
  <2>2. n.def = def /\ n.labels = labels \cup {x}
    BY <1>1, <1>3, <2>1 DEF Definition
  <2>3. assembler_pass > 1 => def[x] < 0 /\ x \in all
    BY <1>2, <2>1 DEF Accepted
  <2>4. /\ UNCHANGED errors /\ def[x] < 0
        /\ assembler_pass <= 1 => x \notin labels
        /\ Agrees(n.def, n.labels, all)'
    <3>1. /\ UNCHANGED errors /\ def[x] < 0
          /\ assembler_pass <= 1 => x \notin labels
          /\ Agrees(def, labels \cup {x}, all)'
      BY <1>1, <1>2, <2>1, <2>3, CreateLabelFollows, ZenonT(60)
    <3>2. QED
      BY <2>2, <3>1, Zenon
  <2>5. Accepted(r, l)
    BY <1>2, <2>1, <2>4 DEF Accepted
  <2>6. QED
    BY <1>5, <2>1, <2>4, <2>5
<1>11. ASSUME UNCHANGED treeVars, n.def = def, n.labels = labels
       PROVE  Agrees(n.def, n.labels, all)'
  <2> SUFFICES ASSUME NEW y \in Identifiers
               PROVE  MacroAgrees(n.def[y], y)' /\ LabelAgrees(n.def[y], n.labels, all, y)'
    BY DEF Agrees
  <2>1. MacroAgrees(def[y], y) /\ LabelAgrees(def[y], labels, all, y)
    BY <1>1 DEF Agrees
  <2>2. QED
    BY <1>2, <1>11, <2>1 DEF treeVars, MacroAgrees, LabelAgrees, Live
<1>12. l.op \notin {"define", "self", "assign", "undef", "label"} =>
           n.def = def /\ n.labels = labels
  BY <1>1, <1>3 DEF Definition
<1>13. CASE UseLine
  <2>1. Taken(r) /\ l.op = "use" /\ NestedAs(n.branches)' /\ UNCHANGED treeVars
    BY <1>4, <1>13 DEF UseLine
  <2>2. Accepted(r, l)
    BY <2>1 DEF Accepted
  <2>3. QED
    BY <1>5, <1>11, <1>12, <1>13, <2>1, <2>2
<1>14. CASE IfdefLine
  <2>1. /\ l.op \in {"ifdef", "ifndef"} /\ level' = level + 1
        /\ UNCHANGED treeVars /\ UNCHANGED errors
        /\ n.branches = Append(r.branches, Holds(r, l))
    BY <1>3, <1>14 DEF IfdefLine, AtLine, BranchesAfter
  <2>2. Live(Macro(x)) <=> def[x] # Undefined
    BY <1>1, <1>2 DEF Agrees, MacroAgrees
  <2>3. Holds(r, l) <=> (Live(Macro(x)) = (l.op = "ifdef"))
    BY <2>2 DEF Holds, Live
  <2>4. level \in Nat \ {0} /\ avoid_level \in 0..level
    BY DEF TypeOK
  <2>5. avoid_level' = IF Skipping THEN avoid_level ELSE IF Holds(r, l) THEN 0 ELSE level + 1
    <3>1. CASE Skipping
      BY <1>14, <2>1, <2>4, <3>1 DEF IfdefLine, Skipping
    <3>2. CASE ~Skipping
      <4>1. avoid_level = 0
        BY <2>4, <3>2 DEF Skipping
      <4>2. avoid_level' = IF Live(Macro(x)) = (l.op = "ifdef") THEN avoid_level ELSE level'
        BY <1>14, <4>1 DEF IfdefLine
      <4>3. QED
        BY <2>1, <2>3, <3>2, <4>1, <4>2
    <3>3. QED
      BY <3>1, <3>2
  <2>6. NestedAs(n.branches)'
    <3>1. Holds(r, l) \in BOOLEAN
      BY DEF Holds
    <3>2. QED
      BY <1>1, <2>1, <2>5, <3>1, NestingOpens
  <2>7. Accepted(r, l)
    BY <2>1 DEF Accepted
  <2>8. QED
    BY <1>5, <1>11, <1>12, <2>1, <2>6, <2>7
<1>15. ASSUME level > 1 PROVE Len(r.branches) \in Nat /\ Len(r.branches) > 0 /\ r.branches # <<>>
  <2>1. Len(r.branches) = level - 1 /\ level \in Nat
    BY <1>1 DEF NestedAs, TypeOK
  <2>2. QED
    BY <1>1, <1>15, <2>1
<1>16. CASE ElseLine
  <2>1. l.op = "else" /\ level > 1 /\ level' = level /\ UNCHANGED treeVars /\ UNCHANGED errors
    BY <1>16 DEF ElseLine, AtLine
  <2>2. n.branches = [r.branches EXCEPT ![Len(r.branches)] = ~@]
    BY <1>3, <1>15, <2>1 DEF BranchesAfter
  <2>3. NestedAs(n.branches)'
    BY <1>1, <1>16, <2>1, <2>2, NestingTurns DEF ElseLine
  <2>4. Accepted(r, l)
    BY <1>15, <2>1 DEF Accepted
  <2>5. QED
    BY <1>5, <1>11, <1>12, <2>1, <2>3, <2>4
<1>17. CASE EndifLine
  <2>1. l.op = "endif" /\ level > 1 /\ level' = level - 1
        /\ UNCHANGED treeVars /\ UNCHANGED errors
    BY <1>17 DEF EndifLine, AtLine
  <2>2. n.branches = SubSeq(r.branches, 1, Len(r.branches) - 1)
    BY <1>3, <1>15, <2>1 DEF BranchesAfter
  <2>3. NestedAs(n.branches)'
    BY <1>1, <1>17, <2>1, <2>2, NestingCloses DEF EndifLine
  <2>4. Accepted(r, l)
    BY <1>15, <2>1 DEF Accepted
  <2>5. QED
    BY <1>5, <1>11, <1>12, <2>1, <2>3, <2>4
<1>18. CASE SkipLine
  <2>1. /\ ~Taken(r) /\ l.op \notin {"ifdef", "ifndef", "else", "endif"}
        /\ UNCHANGED levelVars /\ UNCHANGED treeVars /\ UNCHANGED errors
    BY <1>1, <1>18 DEF SkipLine, AtLine
  <2>2. n.def = def /\ n.labels = labels /\ n.branches = r.branches
    BY <1>3, <2>1 DEF BranchesAfter
  <2>3. NestedAs(n.branches)'
    BY <1>1, <2>1, <2>2 DEF NestedAs, levelVars
  <2>4. Accepted(r, l)
    BY <2>1 DEF Accepted
  <2>5. QED
    BY <1>5, <1>11, <2>1, <2>2, <2>3, <2>4
<1>19. CASE UnmatchedLine
  BY <1>19 DEF UnmatchedLine, CloseFile, AtLine, passVars
<1>20. QED
  BY <1>6, <1>7, <1>8, <1>9, <1>10, <1>13, <1>14, <1>16, <1>17, <1>18, <1>19 DEF SourceLine

\* What pass 0 has accepted, later passes accept, if no name is of a macro with a
\* value and of a label: they print no error but of the use of a name.
LEMMA LineAccepted ==
    ASSUME TypeOK, NEW r \in ReadType, NEW end, Follows(r, end),
           NEW l \in Lines, l = source[line], line \in DOMAIN source, Accepted(r, l), SourceLine,
           assembler_pass >= 1, r.labels \subseteq end.labels,
           \A x \in end.labels : ~IsDefined(x),
           assembler_pass >= 2 => \A x \in end.labels : Live(Label(x)),
           Taken(r) /\ l.op = "label" => l.name \in end.labels
    PROVE  /\ AtLine(Ops)
           /\ \/ UNCHANGED errors
              \/ UseLine /\ errors' = errors \cup UndefinedErrors(ValueOf(l.name))
<1> DEFINE x == l.name
<1>1. /\ Taken(r) <=> ~Skipping
      /\ Agrees(r.def, r.labels, end.labels) /\ NestedAs(r.branches)
      /\ r.branches \in Seq(BOOLEAN)
  BY SkippedIfNotTaken DEF Follows, ReadType
<1>2. x \in Identifiers /\ l.from \in Identifiers /\ l.value \in Values
      /\ assembler_pass \in Nat
  BY LastPassAssumption DEF Lines, TypeOK
<1>3. r.def[x] \in Definitions
  BY <1>2 DEF ReadType
<1>4. MacroAgrees(r.def[x], x) /\ LabelAgrees(r.def[x], r.labels, end.labels, x)
  BY <1>1, <1>2 DEF Agrees
<1>5. ASSUME NEW ops, OnLine(ops)
      PROVE  Taken(r) /\ l.op \in ops
  BY <1>1, <1>5 DEF OnLine, AtLine
<1>6. AtLine(Ops) \/ UnmatchedLine
  BY DEF SourceLine, DefineLine, SelfLine, AssignLine, UndefLine, LabelLine, UseLine,
         IfdefLine, ElseLine, EndifLine, SkipLine, OnLine, AtLine, Ops
<1>7. ~UnmatchedLine
  <2>1. SUFFICES ASSUME UnmatchedLine PROVE FALSE
    OBVIOUS
  <2>2. level = 1 /\ l.op \in {"else", "endif"}
    BY <2>1 DEF UnmatchedLine
  <2>3. Len(r.branches) = 0
    BY <1>1, <2>2 DEF NestedAs
  <2>4. r.branches = <<>>
    BY <1>1, <2>3
  <2>5. QED
    BY <2>2, <2>4 DEF Accepted
<1>8. ASSUME l.op \in {"define", "assign"}, Taken(r), NEW v, v # Undefined
      PROVE  ValueErrors(x, "value", v) = {}
  <2>1. given[x] = Undefined /\ r.def[x] # SelfDefined /\ x \notin r.labels
    BY <1>8 DEF Accepted
  <2>2. x \notin end.labels
    BY <1>8 DEF IsDefined
  <2>3. ~(Live(Label(x)) /\ ~Live(Macro(x)))
    <3>1. SUFFICES ASSUME Live(Label(x)), ~Live(Macro(x)) PROVE FALSE
      OBVIOUS
    <3>2. r.def[x] = Undefined
      BY <1>4, <3>1 DEF MacroAgrees
    <3>3. QED
      BY <1>4, <2>1, <2>2, <3>1, <3>2 DEF LabelAgrees, Undefined
  <2>4. Live(Macro(x)) => kind[Macro(x)] = "value"
    BY <1>3, <1>4, <2>1 DEF MacroAgrees, Definitions, Undefined, SelfDefined
  <2>5. QED
    BY <1>8, <2>3, <2>4 DEF ValueErrors
<1>9. CASE DefineLine
  <2>1. Taken(r) /\ l.op = "define" /\ SetValue(x, "value", l.value)
    BY <1>5, <1>9 DEF DefineLine
  <2>2. l.value # Undefined
    BY <1>2, LiteralsTyped
  <2>3. ValueErrors(x, "value", l.value) = {}
    BY <1>8, <2>1, <2>2
  <2>4. QED
    BY <1>6, <1>7, <2>1, <2>3 DEF SetValue
<1>10. CASE AssignLine
  <2> PICK v, w : v = ValueOf(l.from) /\ w = IF v = Undefined THEN v ELSE v + 1
    OBVIOUS
  <2>1. Taken(r) /\ l.op = "assign" /\ SetValue(x, "value", w)
    BY <1>5, <1>10 DEF AssignLine
  <2>2. ReadValue(r, l.from) # Undefined
    BY <2>1 DEF Accepted
  <2>3. v \in Nat \cup {Undefined}
    BY <1>2, ValueOfTyped
  <2>4. v # Undefined
    <3>1. CASE r.def[l.from] >= 0
      BY <1>1, <1>2, <2>2, <3>1, ValueFollows DEF ReadValue
    <3>2. CASE ~(r.def[l.from] >= 0)
      <4>1. l.from \in r.labels
        BY <2>2, <3>2 DEF ReadValue
      <4>2. Live(Label(l.from))
        <5>1. CASE assembler_pass >= 2
          BY <4>1, <5>1
        <5>2. CASE assembler_pass <= 1
          <6>1. LabelAgrees(r.def[l.from], r.labels, end.labels, l.from)
            BY <1>1, <1>2 DEF Agrees
          <6>2. QED
            BY <4>1, <5>2, <6>1 DEF LabelAgrees
        <5>3. QED
          BY <1>2, <5>1, <5>2
      <4>3. v = value[Label(l.from)] /\ value[Label(l.from)] \in Nat
        BY <1>2, <4>2, NodesDiffer DEF ValueOf, TypeOK
      <4>4. QED
        BY <4>3, LiteralsTyped
    <3>3. QED
      BY <3>1, <3>2
  <2>5. w # Undefined
    BY <2>3, <2>4, LiteralsTyped
  <2>6. ValueErrors(x, "value", w) = {}
    BY <1>8, <2>1, <2>5
  <2>7. QED
    BY <1>6, <1>7, <2>1, <2>6 DEF SetValue
<1>11. CASE SelfLine
  <2>1. Taken(r) /\ l.op = "self" /\ SetSelf(x)
    BY <1>5, <1>11 DEF SelfLine
  <2>2. r.def[x] < 0
    BY <2>1 DEF Accepted
  <2>3. Live(Macro(x)) => kind[Macro(x)] = "self"
    BY <1>3, <1>4, <2>2 DEF MacroAgrees, Definitions, Undefined, SelfDefined
  <2>4. UNCHANGED errors
    <3>1. CASE Live(Macro(x))
      BY <2>1, <2>3, <3>1 DEF SetSelf
    <3>2. CASE ~Live(Macro(x))
      BY <2>1, <3>2 DEF SetSelf
    <3>3. QED
      BY <3>1, <3>2
  <2>5. QED
    BY <1>6, <1>7, <2>4
<1>12. CASE UndefLine
  <2>1. Taken(r) /\ l.op = "undef" /\ UnsetMacro(x)
    BY <1>5, <1>12 DEF UndefLine
  <2>2. kind[Macro(x)] # "cmdline"
    BY <1>4, <2>1 DEF Accepted, MacroAgrees
  <2>3. UNCHANGED errors
    BY <2>1, <2>2 DEF UnsetMacro
  <2>4. QED
    BY <1>6, <1>7, <2>3
<1>13. CASE LabelLine
  <2>1. Taken(r) /\ l.op = "label" /\ CreateLabel(x)
    BY <1>5, <1>13 DEF LabelLine
  <2>2. r.def[x] < 0 /\ x \notin r.labels /\ x \in end.labels
    BY <2>1 DEF Accepted
  <2>3. CreateErrors(Label(x)) = {}
    <3>1. CASE assembler_pass <= 1
      <4>1. ~(r.def[x] >= 0)
        BY <1>3, <2>2 DEF Definitions, Undefined, SelfDefined
      <4>2. ~Live(Label(x))
        BY <1>4, <2>2, <3>1, <4>1 DEF LabelAgrees
      <4>3. QED
        BY <3>1, <4>2 DEF CreateErrors
    <3>2. CASE assembler_pass >= 2
      <4>1. Label(x) \in names
        BY <2>2, <3>2 DEF Live
      <4>2. ~(assembler_pass <= 1)
        BY <1>2, <3>2
      <4>3. QED
        BY <4>1, <4>2 DEF CreateErrors
    <3>3. QED
      BY <1>2, <3>1, <3>2
  <2>4. QED
    BY <1>6, <1>7, <2>1, <2>3 DEF CreateLabel
<1>14. CASE UseLine
  BY <1>6, <1>7, <1>14 DEF UseLine
<1>15. CASE IfdefLine \/ ElseLine \/ EndifLine \/ SkipLine
  BY <1>6, <1>7, <1>15 DEF IfdefLine, ElseLine, EndifLine, SkipLine
<1>16. QED
  BY <1>7, <1>9, <1>10, <1>11, <1>12, <1>13, <1>14, <1>15 DEF SourceLine

-----------------------------------------------------------------------------
(* The passes begin as the reading does. *)

LEMMA NestingBegins ==
    ASSUME level' = 1, avoid_level' = 0
    PROVE  NestedAs(<<>>)'
BY DEF NestedAs

\* An argument of the command line.
LEMMA ArgumentFollows ==
    ASSUME TypeOK, Agrees(given, {}, {}), assembler_pass = 0, DefineArgument, Sound'
    PROVE  \A g \in [Identifiers -> Values \cup {Undefined}] : g = given' => Agrees(g, {}, {})'
<1>1. PICK x \in Identifiers, v \in Values :
         SetValue(x, "cmdline", v) /\ given' = [given EXCEPT ![x] = v]
  BY DEF DefineArgument
<1>2. v \in Nat /\ v # Undefined /\ v >= 0 /\ assembler_pass' = 0
  BY LiteralsTyped DEF DefineArgument
<1>3. ValueErrors(x, "cmdline", v) = {}
  BY <1>1, <1>2 DEF SetValue, ValueErrors, Sound
<1>4. /\ names' = names \cup {Macro(x), Label(x)}
      /\ deleted' = deleted \ {Macro(x), Label(x)}
      /\ kind' = [kind EXCEPT ![Macro(x)] = "cmdline"]
      /\ value' = [value EXCEPT ![Label(x)] = v]
  BY <1>1, <1>3 DEF SetValue
<1>5. ASSUME NEW g \in [Identifiers -> Values \cup {Undefined}], g = given',
             NEW y \in Identifiers
      PROVE  MacroAgrees(g[y], y)' /\ LabelAgrees(g[y], {}, {}, y)'
  <2>1. CASE y = x
    <3>1. /\ Live(Macro(x))' /\ Live(Label(x))'
          /\ kind'[Macro(x)] = "cmdline" /\ value'[Label(x)] = v
      BY <1>4, NodesDiffer DEF TypeOK, Live
    <3>2. g[y] = v /\ given'[y] = v
      BY <1>1, <1>5, <2>1 DEF TypeOK
    <3>3. QED
      BY <1>2, <2>1, <3>1, <3>2 DEF MacroAgrees, LabelAgrees, SelfDefined, Undefined
  <2>2. CASE y # x
    <3>1. /\ Live(Macro(y))' = Live(Macro(y)) /\ Live(Label(y))' = Live(Label(y))
          /\ kind'[Macro(y)] = kind[Macro(y)] /\ value'[Label(y)] = value[Label(y)]
      BY <1>4, <2>2, NodesDiffer DEF TypeOK, Live
    <3>2. g[y] = given[y] /\ given'[y] = given[y]
      BY <1>1, <1>5, <2>2 DEF TypeOK
    <3>3. MacroAgrees(given[y], y) /\ LabelAgrees(given[y], {}, {}, y)
      BY DEF Agrees
    <3>4. QED
      BY <1>2, <3>1, <3>2, <3>3 DEF MacroAgrees, LabelAgrees
  <2>3. QED
    BY <2>1, <2>2
<1>6. QED
  BY <1>5 DEF Agrees

\* What the tree has at the end of a pass, for one name.
LEMMA AtEnd ==
    ASSUME TypeOK, NEW end \in ReadType, Agrees(end.def, end.labels, end.labels),
           NEW x \in Identifiers
    PROVE  /\ given[x] # Undefined =>
                 /\ end.def[x] = given[x] /\ Live(Macro(x)) /\ kind[Macro(x)] = "cmdline"
                 /\ Live(Label(x)) /\ value[Label(x)] = given[x]
           /\ given[x] = Undefined =>
                 /\ kind[Macro(x)] # "cmdline"
                 /\ Live(Label(x)) /\ ~(Live(Macro(x)) /\ kind[Macro(x)] = "value") =>
                       x \in end.labels /\ value[Label(x)] = LabelValue
<1>1. MacroAgrees(end.def[x], x) /\ LabelAgrees(end.def[x], end.labels, end.labels, x)
  BY DEF Agrees
<1>2. end.def[x] \in Definitions /\ given[x] \in Values \cup {Undefined}
  BY DEF ReadType, TypeOK
<1>3. CASE given[x] # Undefined
  <2>1. end.def[x] = given[x] /\ given[x] \in Nat
    BY <1>1, <1>2, <1>3, LiteralsTyped DEF MacroAgrees
  <2>2. end.def[x] >= 0 /\ end.def[x] # Undefined
    BY <2>1, LiteralsTyped
  <2>3. QED
    BY <1>1, <1>3, <2>1, <2>2 DEF MacroAgrees
<1>4. CASE given[x] = Undefined
  <2>1. kind[Macro(x)] # "cmdline"
    BY <1>1, <1>4 DEF MacroAgrees
  <2>2. end.def[x] >= 0 => Live(Macro(x)) /\ kind[Macro(x)] = "value"
    BY <1>1, <1>4 DEF MacroAgrees, Undefined
  <2>3. ~(end.def[x] >= 0) => end.def[x] < 0
    BY <1>2 DEF Definitions, Undefined, SelfDefined
  <2>4. Live(Label(x)) /\ ~(end.def[x] >= 0) => x \in end.labels /\ value[Label(x)] = LabelValue
    BY <1>1, <2>3 DEF LabelAgrees
  <2>5. QED
    BY <1>4, <2>1, <2>2, <2>4
<1>5. QED
  BY <1>3, <1>4

\* A pass after the first: the macros of the source are gone, with their values.
LEMMA PassBegins ==
    ASSUME TypeOK, NEW end \in ReadType,
           Agrees(end.def, end.labels, end.labels), StartPass
    PROVE  \A g \in [Identifiers -> Values \cup {Undefined}] :
              g = given => Agrees(g, {}, end.labels)'
<1>1. /\ UNCHANGED <<names, kind, value>> /\ UNCHANGED given
      /\ deleted' = Tree!DeletedByReset(FALSE)
      /\ ~(assembler_pass' <= 1)
  BY DEF StartPass, ResetMacros, Assemble, TypeOK
<1>2. SUFFICES ASSUME NEW g \in [Identifiers -> Values \cup {Undefined}], g = given,
                      NEW x \in Identifiers
               PROVE  MacroAgrees(g[x], x)' /\ LabelAgrees(g[x], {}, end.labels, x)'
  BY DEF Agrees
<1>3. /\ Live(Macro(x))' <=> Live(Macro(x)) /\ kind[Macro(x)] = "cmdline"
      /\ Live(Label(x))' <=> Live(Label(x)) /\ ~(Macro(x) \in names /\ kind[Macro(x)] = "value")
  BY <1>1, DeletedBeforePass DEF Live
<1>4. g[x] = given[x] /\ given'[x] = given[x] /\ given[x] \in Values \cup {Undefined}
  BY <1>1, <1>2
<1>5. kind'[Macro(x)] = kind[Macro(x)] /\ value'[Label(x)] = value[Label(x)]
  BY <1>1
<1>6. CASE given[x] # Undefined
  <2>1. /\ Live(Macro(x)) /\ kind[Macro(x)] = "cmdline"
        /\ Live(Label(x)) /\ value[Label(x)] = given[x]
    BY <1>6, AtEnd
  <2>2. given[x] \in Nat
    BY <1>4, <1>6, LiteralsTyped
  <2>3. QED
    BY <1>1, <1>3, <1>4, <1>5, <1>6, <2>1, <2>2 DEF MacroAgrees, LabelAgrees, Undefined, SelfDefined
<1>7. CASE given[x] = Undefined
  <2>1. ~Live(Macro(x))' /\ kind[Macro(x)] # "cmdline"
    BY <1>3, <1>7, AtEnd
  <2>2. Live(Label(x))' => x \in end.labels /\ value[Label(x)] = LabelValue
    BY <1>3, <1>7, AtEnd DEF Live
  <2>3. MacroAgrees(g[x], x)'
    BY <1>4, <1>5, <1>7, <2>1 DEF MacroAgrees, Undefined, SelfDefined
  <2>4. LabelAgrees(g[x], {}, end.labels, x)'
    BY <1>1, <1>5, <2>2 DEF LabelAgrees
  <2>5. QED
    BY <2>3, <2>4
<1>8. QED
  BY <1>6, <1>7

\* The special pass: only the command line is left.
LEMMA SpecialPassBegins ==
    ASSUME TypeOK, NEW end \in ReadType,
           Agrees(end.def, end.labels, end.labels), StartSpecialPass
    PROVE  \A g \in [Identifiers -> Values \cup {Undefined}] :
              g = given => Agrees(g, {}, end.labels)'
<1>1. /\ UNCHANGED <<names, kind, value>> /\ UNCHANGED given
      /\ deleted' = Tree!DeletedByReset(TRUE)
      /\ assembler_pass' = 1
  BY DEF StartSpecialPass, ResetLabels, Assemble
<1>2. SUFFICES ASSUME NEW g \in [Identifiers -> Values \cup {Undefined}], g = given,
                      NEW x \in Identifiers
               PROVE  MacroAgrees(g[x], x)' /\ LabelAgrees(g[x], {}, end.labels, x)'
  BY DEF Agrees
<1>3. /\ Live(Macro(x))' <=> Live(Macro(x)) /\ kind[Macro(x)] = "cmdline"
      /\ Live(Label(x))' <=>
            Label(x) \in names /\ Macro(x) \in names /\ kind[Macro(x)] = "cmdline"
  BY <1>1, DeletedBeforeSpecialPass DEF Live
<1>4. g[x] = given[x] /\ given'[x] = given[x] /\ given[x] \in Values \cup {Undefined}
  BY <1>1, <1>2
<1>5. kind'[Macro(x)] = kind[Macro(x)] /\ value'[Label(x)] = value[Label(x)]
  BY <1>1
<1>6. CASE given[x] # Undefined
  <2>1. /\ Live(Macro(x)) /\ kind[Macro(x)] = "cmdline"
        /\ Live(Label(x)) /\ value[Label(x)] = given[x]
    BY <1>6, AtEnd
  <2>2. given[x] \in Nat
    BY <1>4, <1>6, LiteralsTyped
  <2>3. Live(Macro(x))' /\ Live(Label(x))'
    BY <1>3, <2>1 DEF Live
  <2>4. QED
    BY <1>1, <1>4, <1>5, <1>6, <2>1, <2>2, <2>3 DEF MacroAgrees, LabelAgrees, Undefined, SelfDefined
<1>7. CASE given[x] = Undefined
  <2>1. ~Live(Macro(x))' /\ ~Live(Label(x))' /\ kind[Macro(x)] # "cmdline"
    BY <1>3, <1>7, AtEnd
  <2>2. QED
    BY <1>1, <1>4, <1>5, <1>7, <2>1 DEF MacroAgrees, LabelAgrees, Undefined, SelfDefined
<1>8. QED
  BY <1>6, <1>7

-----------------------------------------------------------------------------
(* The invariant holds. *)

LEMMA ReadingSteps ==
    ASSUME TypeOK
    PROVE  /\ Reading[0] = [def |-> given, labels |-> {}, branches |-> <<>>]
           /\ \A i \in 0..Len(source) :
                 Reading[i] \in ReadType /\ Reading[i].labels \subseteq End.labels
           /\ \A i \in DOMAIN source :
                 /\ Reading[i] = Read(Reading[i - 1], source[i])
                 /\ Taken(Reading[i - 1]) /\ source[i].op = "label" =>
                       source[i].name \in End.labels
           /\ \A x \in End.labels :
                 /\ x \in Identifiers
                 /\ \E j \in DOMAIN source : source[j].op = "label" /\ source[j].name = x
<1>1. source \in Seq(Lines) /\ given \in [Identifiers -> Values \cup {Undefined}]
      /\ Len(source) \in Nat
  BY SourceLines
<1>2. /\ Reading[0] = [def |-> given, labels |-> {}, branches |-> <<>>]
      /\ \A i \in 1..Len(source) : Reading[i] = Read(Reading[i - 1], source[i])
      /\ \A i \in 0..Len(source) : Reading[i] \in ReadType
  BY <1>1, ReadingUnfolds DEF Reading
<1>3. \A i \in 0..Len(source) : Reading[i].labels \subseteq End.labels
  BY <1>1, LabelsGrow DEF Reading, End
<1>4. ASSUME NEW i \in DOMAIN source
      PROVE  /\ Reading[i] = Read(Reading[i - 1], source[i])
             /\ Taken(Reading[i - 1]) /\ source[i].op = "label" =>
                    source[i].name \in End.labels
  <2>1. i \in 1..Len(source) /\ i \in 0..Len(source)
    BY <1>1
  <2>2. Reading[i] = Read(Reading[i - 1], source[i])
    BY <1>2, <2>1
  <2>3. Taken(Reading[i - 1]) /\ source[i].op = "label" => source[i].name \in Reading[i].labels
    BY <2>2 DEF Read
  <2>4. QED
    BY <1>3, <2>1, <2>2, <2>3
<1>5. ASSUME NEW x \in End.labels
      PROVE  /\ x \in Identifiers
             /\ \E j \in DOMAIN source : source[j].op = "label" /\ source[j].name = x
  <2>1. Reading[Len(source)] \in ReadType
    BY <1>1, <1>2
  <2>2. x \in Identifiers
    BY <2>1 DEF End, ReadType
  <2>3. QED
    BY <1>1, <2>2, LabelsHaveLines DEF Reading, End
<1>6. QED
  BY <1>2, <1>3, <1>4, <1>5

LEMMA SameReading ==
    ASSUME UNCHANGED <<source, given>>
    PROVE  /\ Reading' = Reading /\ End' = End
           /\ Separate' <=> Separate
           /\ \A i : Meaning(i)' = Meaning(i)
           /\ \A k : AcceptedBefore(k)' <=> AcceptedBefore(k)
<1>1. Reading' = Reading
  BY DEF Reading
<1>2. End' = End
  BY <1>1 DEF End
<1>3. Separate' <=> Separate
  BY DEF Separate
<1>4. \A i : Meaning(i)' = Meaning(i)
  BY <1>1 DEF Meaning
<1>5. \A k : AcceptedBefore(k)' <=> AcceptedBefore(k)
  BY <1>1 DEF AcceptedBefore, Accepted
<1>6. QED
  BY <1>1, <1>2, <1>3, <1>4, <1>5

LEMMA LabelsAreSeparate ==
    ASSUME TypeOK, Separate, NEW x \in End.labels
    PROVE  x \in Identifiers /\ given[x] = Undefined /\ ~IsDefined(x)
BY ReadingSteps DEF Separate, IsDefined

\* Names and errors stay.
LEMMA NothingIsForgotten ==
    ASSUME TypeOK, Next
    PROVE  errors \subseteq errors' /\ names \subseteq names'
<1>1. ASSUME NEW x, NEW mode, NEW v, SetValue(x, mode, v)
      PROVE  errors \subseteq errors' /\ names \subseteq names'
  BY <1>1 DEF SetValue, treeVars
<1>2. ASSUME NEW x, SetSelf(x) PROVE errors \subseteq errors' /\ names \subseteq names'
  BY <1>2 DEF SetSelf, treeVars
<1>3. ASSUME NEW x, UnsetMacro(x) PROVE errors \subseteq errors' /\ names \subseteq names'
  BY <1>3 DEF UnsetMacro
<1>4. ASSUME NEW x, CreateLabel(x) PROVE errors \subseteq errors' /\ names \subseteq names'
  BY <1>4 DEF CreateLabel, treeVars
<1>5. CASE DefineArgument
  BY <1>1, <1>5 DEF DefineArgument
<1>6. CASE DefineLine
  BY <1>1, <1>6 DEF DefineLine
<1>7. CASE AssignLine
  BY <1>7 DEF AssignLine, SetValue, treeVars
<1>8. CASE SelfLine \/ UndefLine \/ LabelLine
  BY <1>2, <1>3, <1>4, <1>8 DEF SelfLine, UndefLine, LabelLine
<1>9. CASE UseLine \/ IfdefLine \/ ElseLine \/ EndifLine \/ SkipLine
  BY <1>9 DEF UseLine, IfdefLine, ElseLine, EndifLine, SkipLine, treeVars
<1>10. CASE UnmatchedLine \/ EndOfFile \/ Exit \/ Done
  BY <1>10 DEF UnmatchedLine, EndOfFile, CloseFile, Exit, Done, vars, treeVars
<1>11. CASE StartPass0 \/ StartSpecialPass \/ StartPass
  BY <1>11 DEF StartPass0, StartSpecialPass, StartPass, Assemble
<1>12. QED
  BY <1>5, <1>6, <1>7, <1>8, <1>9, <1>10, <1>11 DEF Next, SourceLine, Main

\* At a line, the reading goes on.
LEMMA FollowsLine ==
    ASSUME MInv, SourceLine, AtLine(Ops), Sound'
    PROVE  /\ Follows(Reading[line - 1], End)'
           /\ AcceptedBefore(line)'
           /\ UNCHANGED errors \/ (UseLine /\ Taken(Reading[line - 1]))
<1>1. /\ TypeOK /\ UNCHANGED <<source, given>>
      /\ line \in DOMAIN source /\ line' = line + 1 /\ line \in Nat
      /\ line - 1 \in 0..Len(source) /\ line \in 0..Len(source)
      /\ line' - 1 = line
      /\ source[line] \in Lines
  BY SourceLines DEF MInv, Typed, AtLine, passVars
<1>2. PICK r, n, end, l : /\ r = Reading[line - 1] /\ n = Reading[line] /\ end = End
                          /\ l = source[line]
  OBVIOUS
<1>3. /\ r \in ReadType /\ n \in ReadType /\ n = Read(r, l)
      /\ Taken(r) /\ l.op = "label" => l.name \in end.labels
  BY <1>1, <1>2, ReadingSteps
<1>4. Sound
  BY <1>1, NothingIsForgotten DEF Sound, Next
<1>5. Follows(r, end) /\ AcceptedBefore(line)
  BY <1>2, <1>4 DEF MInv, PassZeroKnows
<1>6. assembler_pass >= 1 => Accepted(r, l)
  BY <1>1, <1>2 DEF MInv, PassZeroKnows, AcceptedBefore
<1>7. /\ Follows(n, end)'
      /\ Accepted(r, l)
      /\ UNCHANGED errors \/ (UseLine /\ Taken(r))
  BY <1>1, <1>2, <1>3, <1>5, <1>6, LineFollows
<1>8. Reading' = Reading /\ End' = End
  BY <1>1, SameReading
<1>9. Follows(Reading[line - 1], End)'
  <2>1. Reading'[line' - 1] = n /\ End' = end
    BY <1>1, <1>2, <1>8
  <2>2. QED
    BY <1>7, <2>1 DEF Follows, NestedAs, Agrees, MacroAgrees, LabelAgrees
<1>10. AcceptedBefore(line)'
  <2>1. \A i \in DOMAIN source : i < line + 1 => Accepted(Reading[i - 1], source[i])
    <3>1. ASSUME NEW i \in DOMAIN source, i < line + 1
          PROVE  Accepted(Reading[i - 1], source[i])
      <4>1. CASE i < line
        BY <1>5, <4>1 DEF AcceptedBefore
      <4>2. CASE i = line
        BY <1>2, <1>7, <4>2
      <4>3. i \in Nat
        BY SourceLines, <1>1
      <4>4. QED
        BY <1>1, <3>1, <4>1, <4>2, <4>3
    <3>2. QED
      BY <3>1
  <2>2. PICK k : k = line + 1
    OBVIOUS
  <2>3. AcceptedBefore(k)'
    BY <1>1, <2>1, <2>2, SameReading DEF AcceptedBefore
  <2>4. QED
    BY <1>1, <2>2, <2>3 DEF AcceptedBefore
<1>11. QED
  BY <1>2, <1>7, <1>9, <1>10

\* What a later pass prints, if names of macros and labels are kept apart.
LEMMA LineComplains ==
    ASSUME MInv, SourceLine, Separate, assembler_pass >= 1
    PROVE  /\ AtLine(Ops)
           /\ \/ UNCHANGED errors
              \/ /\ errors' = errors \cup {"Undefined label"} /\ assembler_pass >= 2
                 /\ source[line].op = "use" /\ Meaning(line) = Undefined
<1>1. /\ TypeOK /\ line \in DOMAIN source
      /\ line - 1 \in 0..Len(source) /\ line \in 0..Len(source)
      /\ source[line] \in Lines /\ assembler_pass \in Nat
  <2>1. line <= Len(source)
    BY DEF SourceLine, DefineLine, SelfLine, AssignLine, UndefLine, LabelLine, UseLine,
           IfdefLine, ElseLine, EndifLine, SkipLine, UnmatchedLine, OnLine, AtLine
  <2>2. QED
    BY <2>1, SourceLines, LastPassAssumption DEF MInv, Typed, TypeOK
<1>2. PICK r, end, l : r = Reading[line - 1] /\ end = End /\ l = source[line]
  OBVIOUS
<1>3. /\ r \in ReadType /\ r.labels \subseteq end.labels
      /\ Taken(r) /\ l.op = "label" => l.name \in end.labels
  BY <1>1, <1>2, ReadingSteps
<1>4. Sound
  BY DEF MInv, UndefinedOnly, Sound
<1>5. Follows(r, end)
  BY <1>2, <1>4 DEF MInv
<1>6. Accepted(r, l)
  BY <1>1, <1>2 DEF MInv, PassZeroKnows, AcceptedBefore
<1>7. \A x \in end.labels : ~IsDefined(x)
  BY <1>1, <1>2, LabelsAreSeparate
<1>8. assembler_pass >= 2 => \A x \in end.labels : Live(Label(x))
  BY <1>2, <1>4 DEF MInv, LabelsStay
<1>9. /\ AtLine(Ops)
      /\ \/ UNCHANGED errors
         \/ UseLine /\ errors' = errors \cup UndefinedErrors(ValueOf(l.name))
  BY <1>1, <1>2, <1>3, <1>5, <1>6, <1>7, <1>8, LineAccepted
<1>10. ASSUME UseLine, errors' = errors \cup UndefinedErrors(ValueOf(l.name)),
              ~UNCHANGED errors
       PROVE  /\ errors' = errors \cup {"Undefined label"} /\ assembler_pass >= 2
              /\ source[line].op = "use" /\ Meaning(line) = Undefined
  <2>1. /\ ValueOf(l.name) = Undefined /\ assembler_pass >= 2
        /\ errors' = errors \cup {"Undefined label"}
    <3>1. ValueOf(l.name) = Undefined /\ assembler_pass > 1
      BY <1>10 DEF UndefinedErrors
    <3>2. assembler_pass >= 2
      BY <1>1, <3>1
    <3>3. QED
      BY <1>10, <3>1, <3>2 DEF UndefinedErrors
  <2>2. l.op = "use" /\ l.name \in Identifiers
    BY <1>1, <1>2, <1>10 DEF UseLine, OnLine, AtLine, Lines
  <2>3. r.def[l.name] \in Definitions
    BY <1>3, <2>2 DEF ReadType
  <2>4. ~(r.def[l.name] >= 0)
    <3>1. r.def[l.name] >= 0 => ValueOf(l.name) = r.def[l.name]
      BY <1>1, <1>3, <1>5, <2>2, ValueFollows DEF Follows
    <3>2. r.def[l.name] # Undefined => r.def[l.name] # ValueOf(l.name)
      BY <2>1
    <3>3. r.def[l.name] >= 0 => r.def[l.name] # Undefined
      BY <2>3 DEF Definitions, Undefined, SelfDefined
    <3>4. QED
      BY <3>1, <3>2, <3>3
  <2>5. l.name \notin end.labels
    <3>1. SUFFICES ASSUME l.name \in end.labels PROVE FALSE
      OBVIOUS
    <3>2. Live(Label(l.name))
      BY <1>8, <2>1, <3>1
    <3>3. Label(l.name) \in Names
      BY <2>2, NodesDiffer
    <3>4. ValueOf(l.name) \in Nat
      BY <1>1, <3>2, <3>3 DEF ValueOf, TypeOK
    <3>5. QED
      BY <2>1, <3>4, LiteralsTyped
  <2>6. Meaning(line) = Undefined
    BY <1>2, <2>2, <2>4, <2>5 DEF Meaning, End
  <2>7. QED
    BY <1>1, <1>2, <2>1, <2>2, <2>6
<1>11. QED
  BY <1>9, <1>10

\* A line deletes no label but that of a macro which has a value.
LEMMA LabelsLive ==
    ASSUME TypeOK, SourceLine, NEW x \in Identifiers, kind[Macro(x)] # "value", Live(Label(x))
    PROVE  Live(Label(x))'
<1>1. ASSUME NEW y, NEW mode, NEW v, SetValue(y, mode, v) PROVE Live(Label(x))'
  BY <1>1 DEF SetValue, treeVars, Live
<1>2. CASE DefineLine
  BY <1>1, <1>2 DEF DefineLine
<1>3. CASE AssignLine
  BY <1>3 DEF AssignLine, SetValue, treeVars, Live
<1>4. ASSUME NEW y, SetSelf(y) PROVE Live(Label(x))'
  BY <1>4 DEF SetSelf, treeVars, Live
<1>5. ASSUME NEW y \in Identifiers, UnsetMacro(y) PROVE Live(Label(x))'
  <2>1. Label(x) \notin DeletedByUndef(y)
    BY NodesDiffer DEF DeletedByUndef
  <2>2. QED
    BY <1>5, <2>1 DEF UnsetMacro, Live
<1>6. ASSUME NEW y, CreateLabel(y) PROVE Live(Label(x))'
  BY <1>6 DEF CreateLabel, treeVars, Live
<1>7. CASE SelfLine \/ LabelLine
  BY <1>4, <1>6, <1>7 DEF SelfLine, LabelLine
<1>8. CASE UndefLine
  <2>1. source[line].name \in Identifiers
    BY <1>8, SourceLines DEF UndefLine, OnLine, AtLine
  <2>2. QED
    BY <1>5, <1>8, <2>1 DEF UndefLine
<1>9. CASE UseLine \/ IfdefLine \/ ElseLine \/ EndifLine \/ SkipLine \/ UnmatchedLine
  BY <1>9 DEF UseLine, IfdefLine, ElseLine, EndifLine, SkipLine, UnmatchedLine, CloseFile,
              treeVars, Live
<1>10. QED
  BY <1>2, <1>3, <1>7, <1>8, <1>9 DEF SourceLine

LEMMA LabelsStayLine ==
    ASSUME MInv, SourceLine
    PROVE  LabelsStay'
<1>1. /\ TypeOK /\ ValuesHaveLines /\ UNCHANGED <<source, given>> /\ UNCHANGED assembler_pass
  BY DEF MInv, Typed, SourceLine, DefineLine, SelfLine, AssignLine, UndefLine, LabelLine,
         UseLine, IfdefLine, ElseLine, EndifLine, SkipLine, OnLine, AtLine, UnmatchedLine,
         CloseFile, passVars
<1>2. SUFFICES ASSUME Separate, Sound', assembler_pass >= 2, NEW x \in End.labels
               PROVE  Live(Label(x))'
  BY <1>1, SameReading DEF LabelsStay
<1>3. Sound
  BY <1>1, <1>2, NothingIsForgotten DEF Sound, Next
<1>4. Live(Label(x))
  BY <1>2, <1>3 DEF MInv, LabelsStay
<1>5. x \in Identifiers /\ kind[Macro(x)] # "value"
  BY <1>1, <1>2, LabelsAreSeparate DEF ValuesHaveLines
<1>6. QED
  BY <1>1, <1>4, <1>5, LabelsLive

\* What pass 0 knows stays known.
LEMMA KnowsLine ==
    ASSUME MInv, Next, UNCHANGED <<source, given>>, UNCHANGED assembler_pass,
           Sound' => AcceptedBefore(line)'
    PROVE  PassZeroKnows'
<1>1. names \subseteq names'
  BY NothingIsForgotten DEF MInv, Typed
<1>2. ASSUME assembler_pass >= 1
      PROVE  /\ AcceptedBefore(Len(source) + 1)'
             /\ End'.branches = <<>>
             /\ \A x \in End'.labels : Label(x) \in names'
  <2>1. /\ AcceptedBefore(Len(source) + 1) /\ End.branches = <<>>
        /\ \A x \in End.labels : Label(x) \in names
    BY <1>2 DEF MInv, PassZeroKnows
  <2>2. AcceptedBefore(Len(source) + 1)'
    <3>1. PICK k : k = Len(source) + 1
      OBVIOUS
    <3>2. AcceptedBefore(k)'
      BY <2>1, <3>1, SameReading DEF AcceptedBefore
    <3>3. QED
      BY <3>1, <3>2 DEF AcceptedBefore
  <2>3. QED
    BY <1>1, <2>1, <2>2, SameReading
<1>3. QED
  BY <1>2 DEF PassZeroKnows

\* What a later pass has printed.
LEMMA UndefinedOnlyLine ==
    ASSUME MInv, SourceLine
    PROVE  UndefinedOnly'
<1>1. /\ TypeOK /\ UNCHANGED <<source, given>> /\ UNCHANGED assembler_pass
  BY DEF MInv, Typed, SourceLine, DefineLine, SelfLine, AssignLine, UndefLine, LabelLine,
         UseLine, IfdefLine, ElseLine, EndifLine, SkipLine, OnLine, AtLine, UnmatchedLine,
         CloseFile, passVars
<1>2. SUFFICES ASSUME Separate, assembler_pass >= 1, errors' # {}
               PROVE  /\ assembler_pass >= 2
                      /\ errors' = {"Undefined label"}
                      /\ \E i \in 1..line' - 1 : source[i].op = "use" /\ Meaning(i) = Undefined
  BY <1>1, SameReading DEF UndefinedOnly
<1>3. /\ AtLine(Ops)
      /\ \/ UNCHANGED errors
         \/ /\ errors' = errors \cup {"Undefined label"} /\ assembler_pass >= 2
            /\ source[line].op = "use" /\ Meaning(line) = Undefined
  BY <1>2, LineComplains
<1>4. line' = line + 1 /\ line \in Nat /\ line \in 1..line' - 1
      /\ 1..line - 1 \subseteq 1..line' - 1
  <2>1. line' = line + 1 /\ line \in Nat /\ line >= 1
    <3>1. line \in Nat /\ line \in 1..Len(source) + 1 /\ Len(source) \in Nat
      BY <1>1, SourceLines
    <3>2. line' = line + 1
      BY <1>3 DEF AtLine
    <3>3. QED
      BY <3>1, <3>2
  <2>2. QED
    BY <2>1
<1>5. errors # {} => /\ assembler_pass >= 2 /\ errors = {"Undefined label"}
                     /\ \E i \in 1..line - 1 : source[i].op = "use" /\ Meaning(i) = Undefined
  BY <1>2 DEF MInv, UndefinedOnly
<1>6. CASE UNCHANGED errors
  BY <1>2, <1>4, <1>5, <1>6
<1>7. CASE /\ errors' = errors \cup {"Undefined label"} /\ assembler_pass >= 2
           /\ source[line].op = "use" /\ Meaning(line) = Undefined
  <2>1. errors' = {"Undefined label"}
    BY <1>5, <1>7
  <2>2. QED
    BY <1>4, <1>7, <2>1
<1>8. QED
  BY <1>3, <1>6, <1>7

\* What a line shows the pass is what the reading says: the last line is seen
\* when it is read, and as it is meant.
SeesRight(i, v) ==
    \/ v = Meaning(i)
    \/ /\ v = Undefined
       /\ assembler_pass <= 1
       /\ ReadValue(Reading[i - 1], source[i].name) = Undefined

Looks(i) == source[i].op \in {"use", "ifdef", "ifndef"} /\ Taken(Reading[i - 1])

LEMMA LineSees ==
    ASSUME MInv, SourceLine, AtLine(Ops), errors' = {}
    PROVE  IF Looks(line) THEN \E v \in Int : See(v) /\ SeesRight(line, v) ELSE UNCHANGED seen
<1>1. /\ TypeOK /\ line \in DOMAIN source
      /\ line - 1 \in 0..Len(source) /\ line \in 0..Len(source)
      /\ source[line] \in Lines /\ assembler_pass \in Nat
  BY SourceLines, LastPassAssumption DEF MInv, Typed, TypeOK, AtLine
<1>2. PICK r, end, l : r = Reading[line - 1] /\ end = End /\ l = source[line]
  OBVIOUS
<1>3. /\ r \in ReadType /\ end \in ReadType /\ r.labels \subseteq end.labels
      /\ l.name \in Identifiers
  <2>1. Len(source) \in 0..Len(source)
    BY <1>1, SourceLines
  <2>2. QED
    BY <1>1, <1>2, <2>1, ReadingSteps DEF Lines, End
<1>4. errors = {} /\ Sound
  BY <1>1, NothingIsForgotten DEF Sound, Next
<1>5. Agrees(r.def, r.labels, end.labels) /\ NestedAs(r.branches)
  BY <1>2, <1>4 DEF MInv, Follows
<1>6. /\ Taken(r) <=> ~Skipping
      /\ r.def[l.name] \in Definitions
  BY <1>1, <1>3, <1>5, SkippedIfNotTaken DEF ReadType
<1>7. CASE UseLine
  <2> PICK v : v = ValueOf(l.name)
    OBVIOUS
  <2>1. /\ l.op = "use" /\ Taken(r) /\ See(v)
        /\ UndefinedErrors(v) = {}
    BY <1>2, <1>6, <1>7 DEF UseLine, OnLine, AtLine
  <2>2. v \in Nat \cup {Undefined}
    BY <1>1, <1>3, ValueOfTyped
  <2>3. /\ r.def[l.name] >= 0 => v = r.def[l.name]
        /\ r.def[l.name] < 0 /\ v # Undefined =>
              v = LabelValue /\ l.name \in IF assembler_pass <= 1 THEN r.labels ELSE end.labels
        /\ assembler_pass <= 1 => v = ReadValue(r, l.name)
    BY <1>1, <1>3, <1>5, ValueFollows
  <2>4. Meaning(line) = IF r.def[l.name] >= 0 THEN r.def[l.name]
                        ELSE IF l.name \in end.labels THEN LabelValue ELSE Undefined
    BY <1>2, <2>1 DEF Meaning, End
  <2>5. v = Undefined => assembler_pass <= 1
    <3>1. ~(v = Undefined /\ assembler_pass > 1)
      BY <2>1 DEF UndefinedErrors
    <3>2. QED
      BY <1>1, <3>1
  <2>6. ~(r.def[l.name] >= 0) => r.def[l.name] < 0
    BY <1>6 DEF Definitions, Undefined, SelfDefined
  <2>7. SeesRight(line, v)
    <3>1. CASE r.def[l.name] >= 0
      BY <2>3, <2>4, <3>1 DEF SeesRight
    <3>2. CASE ~(r.def[l.name] >= 0) /\ v # Undefined
      BY <1>3, <2>3, <2>4, <2>6, <3>2 DEF SeesRight
    <3>3. CASE v = Undefined
      BY <1>2, <2>3, <2>5, <3>3 DEF SeesRight
    <3>4. QED
      BY <3>1, <3>2, <3>3
  <2>8. v \in Int
    BY <2>2 DEF Undefined
  <2>9. QED
    BY <1>2, <2>1, <2>7, <2>8 DEF Looks
<1>8. CASE IfdefLine
  <2>1. l.op \in {"ifdef", "ifndef"} /\ level \in Nat \ {0} /\ avoid_level \in 0..level
    BY <1>1, <1>2, <1>8 DEF IfdefLine, AtLine, TypeOK
  <2>2. Holds(r, l) <=> (Live(Macro(l.name)) = (l.op = "ifdef"))
    <3>1. Live(Macro(l.name)) <=> r.def[l.name] # Undefined
      BY <1>3, <1>5 DEF Agrees, MacroAgrees
    <3>2. QED
      BY <3>1 DEF Holds, Live
  <2>3. CASE Taken(r)
    <3>1. avoid_level = 0
      BY <1>6, <2>1, <2>3 DEF Skipping
    <3>2. See(IF Live(Macro(l.name)) = (l.op = "ifdef") THEN 1 ELSE 0)
      BY <1>2, <1>8, <3>1 DEF IfdefLine
    <3> PICK v : v = IF Holds(r, l) THEN 1 ELSE 0
      OBVIOUS
    <3>3. See(v)
      BY <2>2, <3>2
    <3>4. v = Meaning(line)
      BY <1>2, <2>1 DEF Meaning
    <3>5. QED
      BY <1>2, <2>1, <2>3, <3>3, <3>4 DEF Looks, SeesRight
  <2>4. CASE ~Taken(r)
    <3>1. Skipping
      BY <1>6, <2>4
    <3>2. UNCHANGED seen
      BY <1>8, <2>1, <3>1 DEF IfdefLine, Skipping
    <3>3. QED
      BY <1>2, <2>4, <3>2 DEF Looks
  <2>5. QED
    BY <2>3, <2>4
<1>9. CASE SkipLine
  BY <1>2, <1>6, <1>9 DEF SkipLine, Looks
<1>10. CASE DefineLine \/ SelfLine \/ AssignLine \/ UndefLine \/ LabelLine \/ ElseLine \/ EndifLine
  <2>1. l.op \notin {"use", "ifdef", "ifndef"} /\ UNCHANGED seen
    BY <1>2, <1>10 DEF DefineLine, SelfLine, AssignLine, UndefLine, LabelLine, ElseLine, EndifLine,
                OnLine, AtLine
  <2>2. QED
    BY <1>2, <2>1 DEF Looks
<1>11. CASE UnmatchedLine
  BY <1>11 DEF UnmatchedLine, CloseFile, AtLine, passVars
<1>12. QED
  BY <1>7, <1>8, <1>9, <1>10, <1>11 DEF SourceLine

LEMMA PassesAgreeLine ==
    ASSUME MInv, SourceLine, AtLine(Ops), errors' = {}
    PROVE  PassesAgree'
<1>1. /\ TypeOK /\ UNCHANGED <<source, given>> /\ UNCHANGED assembler_pass
      /\ phase = "assemble" /\ line' = line + 1 /\ line \in Nat /\ line >= 1
      /\ seen \in Seq([line : Nat, sees : Int])
  <2>1. /\ TypeOK /\ UNCHANGED <<source, given>> /\ UNCHANGED assembler_pass
        /\ phase = "assemble" /\ line' = line + 1
        /\ seen \in Seq([line : Nat, sees : Int])
    BY DEF MInv, Typed, Control, AtLine, passVars
  <2>2. line \in Nat /\ line \in 1..Len(source) + 1 /\ Len(source) \in Nat
    BY <2>1, SourceLines
  <2>3. QED
    BY <2>1, <2>2
<1>2. errors = {}
  BY <1>1, NothingIsForgotten DEF Next
<1> DEFINE L(s) == {s[k].line : k \in DOMAIN s}
<1>3. /\ L(seen) = {i \in 1..line - 1 : Looks(i)}
      /\ \A k \in DOMAIN seen : SeesRight(seen[k].line, seen[k].sees)
  BY <1>1, <1>2 DEF MInv, PassesAgree, Looks, SeesRight
<1>4. /\ L(seen') = {i \in 1..line : Looks(i)}
      /\ \A k \in DOMAIN seen' : SeesRight(seen'[k].line, seen'[k].sees)
  <2>1. CASE ~Looks(line)
    <3>1. seen' = seen
      BY <2>1, LineSees
    <3>2. {i \in 1..line : Looks(i)} = {i \in 1..line - 1 : Looks(i)}
      BY <1>1, <2>1
    <3>3. QED
      BY <1>3, <3>1, <3>2
  <2>2. CASE Looks(line)
    <3>1. PICK v \in Int : See(v) /\ SeesRight(line, v)
      BY <2>2, LineSees
    <3> DEFINE e == [line |-> line, sees |-> v]
               n == Len(seen)
    <3>2. e.line = line /\ e.sees = v
      OBVIOUS
    <3>3. seen' = Append(seen, e)
      BY <3>1 DEF See
    <3> HIDE DEF e
    <3>4. /\ n \in Nat /\ DOMAIN seen = 1..n /\ DOMAIN seen' = 1..n + 1
          /\ seen'[n + 1] = e /\ \A k \in 1..n : seen'[k] = seen[k]
      BY <1>1, <3>3
    <3>5. {i \in 1..line : Looks(i)} = {i \in 1..line - 1 : Looks(i)} \cup {line}
      BY <1>1, <2>2
    <3>6. L(seen') = L(seen) \cup {line}
      BY <3>2, <3>4
    <3>7. ASSUME NEW k \in DOMAIN seen'
          PROVE  SeesRight(seen'[k].line, seen'[k].sees)
      <4>1. CASE k = n + 1
        BY <3>1, <3>2, <3>4, <4>1
      <4>2. CASE k # n + 1
        BY <1>3, <3>4, <4>2
      <4>3. QED
        BY <4>1, <4>2
    <3>8. QED
      BY <1>3, <3>5, <3>6, <3>7
  <2>3. QED
    BY <2>1, <2>2
<1>5. /\ {seen'[k].line : k \in DOMAIN seen'} =
             {i \in 1..line : /\ source[i].op \in {"use", "ifdef", "ifndef"}
                              /\ Taken(Reading[i - 1])}
      /\ \A k \in DOMAIN seen' :
            \/ seen'[k].sees = Meaning(seen'[k].line)
            \/ /\ seen'[k].sees = Undefined
               /\ assembler_pass <= 1
               /\ ReadValue(Reading[seen'[k].line - 1], source[seen'[k].line].name) = Undefined
  BY <1>4 DEF Looks, SeesRight
<1>6. line' - 1 = line
  BY <1>1
<1>7. Reading' = Reading /\ \A i : Meaning(i)' = Meaning(i)
  BY <1>1, SameReading
<1>8. QED
  BY <1>1, <1>5, <1>6, <1>7 DEF PassesAgree

\* Where nothing has changed, the reading is still followed.
LEMMA SameFollows ==
    ASSUME UNCHANGED <<source, given, assembler_pass, line, levelVars, treeVars>>
    PROVE  /\ Follows(Reading[line - 1], End)' <=> Follows(Reading[line - 1], End)
           /\ AcceptedBefore(line)' <=> AcceptedBefore(line)
           /\ LabelsStay' <=> (Separate /\ Sound' /\ assembler_pass >= 2 =>
                                   \A x \in End.labels : Live(Label(x)))
<1>1. /\ Reading' = Reading /\ End' = End /\ (Separate' <=> Separate)
      /\ \A k : AcceptedBefore(k)' <=> AcceptedBefore(k)
  BY SameReading
<1>2. UNCHANGED <<level, avoid_level>> /\ UNCHANGED <<names, deleted, kind, value>>
  BY DEF levelVars, treeVars
<1>3. Follows(Reading[line - 1], End)' <=> Follows(Reading[line - 1], End)
  BY <1>1, <1>2 DEF Follows, NestedAs, Agrees, MacroAgrees, LabelAgrees, Live
<1>4. AcceptedBefore(line)' <=> AcceptedBefore(line)
  BY <1>1 DEF AcceptedBefore, Accepted
<1>5. LabelsStay' <=> (Separate /\ Sound' /\ assembler_pass >= 2 =>
                           \A x \in End.labels : Live(Label(x)))
  BY <1>1, <1>2 DEF LabelsStay, Live
<1>6. QED
  BY <1>3, <1>4, <1>5

\* The tree agrees with the reading at its beginning.
LEMMA BeginFollows ==
    ASSUME TypeOK', line' = 1, level' = 1, avoid_level' = 0,
           NEW g, g = given', NEW all, all = End'.labels, Agrees(g, {}, all)'
    PROVE  Follows(Reading[line - 1], End)' /\ AcceptedBefore(line)'
<1> PICK s : s = source'
  OBVIOUS
<1>1. s \in Seq(Lines) /\ g \in [Identifiers -> Values \cup {Undefined}]
  BY SourcesAssumption DEF TypeOK
<1>2. Reading'[0] = [def |-> g, labels |-> {}, branches |-> <<>>]
  BY <1>1, ReadingUnfolds DEF Reading
<1> PICK r, end : r = Reading'[0] /\ end = End'
  OBVIOUS
<1>3. r.def = g /\ r.labels = {} /\ r.branches = <<>>
  BY <1>2
<1>4. Follows(r, end)'
  BY <1>3, NestingBegins DEF Follows
<1>5. line' - 1 = 0
  OBVIOUS
<1>6. Follows(Reading[line - 1], End)'
  BY <1>4, <1>5 DEF Follows, NestedAs, Agrees, MacroAgrees, LabelAgrees
<1>7. AcceptedBefore(line)'
  <2>1. \A i \in DOMAIN s : i \in Nat \ {0}
    BY <1>1
  <2>2. QED
    BY <2>1 DEF AcceptedBefore
<1>8. QED
  BY <1>6, <1>7

LEMMA MInvInit == Init => MInv
<1> SUFFICES ASSUME Init PROVE MInv
  OBVIOUS
<1>1. Typed
  BY TypedInit
<1>2. TypeOK
  BY <1>1 DEF Typed
<1>3. Follows(Reading[line - 1], End)
  <2>1. Reading[0] = [def |-> given, labels |-> {}, branches |-> <<>>]
    BY <1>2, ReadingSteps
  <2>2. /\ line = 1 /\ level = 1 /\ avoid_level = 0 /\ names = {} /\ assembler_pass = 0
        /\ \A x \in Identifiers : kind[Macro(x)] = "none" /\ given[x] = Undefined
    BY NodesDiffer DEF Init
  <2>3. Reading[line - 1] = [def |-> given, labels |-> {}, branches |-> <<>>]
    BY <2>1, <2>2
  <2>4. NestedAs(<<>>)
    BY <2>2 DEF NestedAs
  <2>5. Agrees(given, {}, End.labels)
    BY <2>2 DEF Agrees, MacroAgrees, LabelAgrees, Live, Undefined, SelfDefined
  <2>6. QED
    BY <2>3, <2>4, <2>5 DEF Follows
<1>4. PassZeroKnows
  <2>1. AcceptedBefore(line)
    <3>1. \A i \in DOMAIN source : i \in Nat \ {0}
      BY <1>2, SourceLines
    <3>2. QED
      BY <3>1 DEF Init, AcceptedBefore
  <2>2. QED
    BY <2>1 DEF Init, PassZeroKnows
<1>5. LabelsStay /\ PassesAgree /\ UndefinedOnly
  BY DEF Init, LabelsStay, PassesAgree, UndefinedOnly
<1>6. QED
  BY <1>1, <1>3, <1>4, <1>5 DEF MInv

\* Steps that leave the state of the pass as it is.
LEMMA MInvKept ==
    ASSUME MInv, Typed', errors \subseteq errors',
           UNCHANGED <<source, given, assembler_pass, line, levelVars, treeVars, seen>>,
           phase' = "assemble" => phase = "assemble",
           Separate /\ assembler_pass >= 1 => UNCHANGED errors
    PROVE  MInv'
<1>1. Sound' => Sound
  BY DEF Sound
<1>2. UNCHANGED <<source, given, assembler_pass, line, levelVars, treeVars>>
      /\ UNCHANGED <<source, given>> /\ UNCHANGED names
  BY DEF treeVars
<1>3. Sound' => Follows(Reading[line - 1], End)' /\ AcceptedBefore(line)'
  BY <1>1, <1>2, SameFollows DEF MInv, PassZeroKnows
<1>4. PassZeroKnows'
  <2>1. ASSUME assembler_pass >= 1
        PROVE  /\ AcceptedBefore(Len(source) + 1)'
               /\ End'.branches = <<>>
               /\ \A x \in End'.labels : Label(x) \in names'
    <3>1. /\ AcceptedBefore(Len(source) + 1) /\ End.branches = <<>>
          /\ \A x \in End.labels : Label(x) \in names
      BY <2>1 DEF MInv, PassZeroKnows
    <3>2. Reading' = Reading /\ End' = End
      BY <1>2, SameReading
    <3>3. AcceptedBefore(Len(source) + 1)'
      BY <1>2, <3>1, <3>2 DEF AcceptedBefore, Accepted
    <3>4. QED
      BY <1>2, <3>1, <3>2, <3>3
  <2>2. QED
    BY <1>3, <2>1 DEF PassZeroKnows
<1>5. LabelsStay'
  BY <1>1, <1>2, SameFollows DEF MInv, LabelsStay
<1>6. PassesAgree'
  <2>1. SUFFICES ASSUME phase' = "assemble", errors' = {}
                 PROVE  PassesAgree'
    BY DEF PassesAgree
  <2>2. phase = "assemble" /\ errors = {}
    BY <2>1
  <2>3. Reading' = Reading /\ \A i : Meaning(i)' = Meaning(i)
    BY <1>2, SameReading
  <2>4. QED
    BY <2>2, <2>3 DEF MInv, PassesAgree
<1>7. UndefinedOnly'
  <2>1. \A i : Meaning(i)' = Meaning(i)
    BY <1>2, SameReading
  <2>2. Separate' <=> Separate
    BY <1>2, SameReading
  <2>3. QED
    BY <2>1, <2>2 DEF MInv, UndefinedOnly
<1>8. QED
  BY <1>3, <1>4, <1>5, <1>6, <1>7 DEF MInv

\* A pass that ends without an error has read the whole source, and every %IF
\* has its %ENDIF.
LEMMA PassEnds ==
    ASSUME MInv, Sound, line = Len(source) + 1, level = 1
    PROVE  /\ End \in ReadType /\ End.branches = <<>>
           /\ Agrees(End.def, End.labels, End.labels)
           /\ AcceptedBefore(Len(source) + 1)
           /\ \A x \in End.labels : Label(x) \in names
<1>1. /\ TypeOK /\ Len(source) \in Nat /\ line - 1 = Len(source)
      /\ assembler_pass \in Nat
  BY SourceLines, LastPassAssumption DEF MInv, Typed, TypeOK
<1>2. Len(source) \in 0..Len(source)
  BY <1>1
<1>3. End \in ReadType
  BY <1>1, <1>2, ReadingSteps DEF End
<1>4. PICK end : end = End
  OBVIOUS
<1>5. Reading[line - 1] = end
  BY <1>1, <1>4 DEF End
<1>6. Follows(end, end)
  BY <1>4, <1>5 DEF MInv
<1>7. Agrees(end.def, end.labels, end.labels) /\ NestedAs(end.branches)
  BY <1>6 DEF Follows
<1>8. end.branches = <<>>
  <2>1. Len(end.branches) = 0 /\ end.branches \in Seq(BOOLEAN)
    BY <1>3, <1>4, <1>7 DEF NestedAs, ReadType
  <2>2. QED
    BY <2>1
<1>9. AcceptedBefore(Len(source) + 1)
  BY DEF MInv, PassZeroKnows
<1>10. ASSUME NEW x \in end.labels PROVE Label(x) \in names
  <2>1. x \in Identifiers
    BY <1>3, <1>4, <1>10 DEF ReadType
  <2>2. CASE assembler_pass <= 1
    <3>1. LabelAgrees(end.def[x], end.labels, end.labels, x)
      BY <1>7, <2>1 DEF Agrees
    <3>2. QED
      BY <1>10, <2>2, <3>1 DEF LabelAgrees, Live
  <2>3. CASE ~(assembler_pass <= 1)
    <3>1. assembler_pass >= 1
      BY <1>1, <2>3
    <3>2. QED
      BY <1>4, <1>10, <3>1 DEF MInv, PassZeroKnows
  <2>4. QED
    BY <2>2, <2>3
<1>11. QED
  BY <1>3, <1>4, <1>7, <1>8, <1>9, <1>10

\* Before a pass after the first, the labels of the source are still there.
LEMMA PassKeepsLabels ==
    ASSUME MInv, StartPass, NEW end, end = End,
           Agrees(end.def, end.labels, end.labels), end \in ReadType
    PROVE  LabelsStay'
<1>1. /\ TypeOK /\ ValuesHaveLines /\ UNCHANGED <<source, given>>
      /\ UNCHANGED <<names, kind, value>> /\ errors = {}
      /\ deleted' = Tree!DeletedByReset(FALSE)
      /\ assembler_pass \in Nat
  BY LastPassAssumption DEF MInv, Typed, TypeOK, StartPass, ResetMacros, Assemble
<1>2. SUFFICES ASSUME Separate, NEW x \in end.labels PROVE Live(Label(x))'
  BY <1>1, SameReading DEF LabelsStay
<1>3. x \in Identifiers /\ given[x] = Undefined /\ ~IsDefined(x)
  BY <1>1, <1>2, LabelsAreSeparate
<1>4. kind[Macro(x)] # "value"
  BY <1>1, <1>3 DEF ValuesHaveLines
<1>5. Live(Label(x))
  <2>1. CASE assembler_pass <= 1
    <3>1. LabelAgrees(end.def[x], end.labels, end.labels, x)
      BY <1>3 DEF Agrees
    <3>2. QED
      BY <1>2, <2>1, <3>1 DEF LabelAgrees
  <2>2. CASE ~(assembler_pass <= 1)
    <3>1. assembler_pass >= 2
      BY <1>1, <2>2
    <3>2. QED
      BY <1>1, <1>2, <3>1 DEF MInv, LabelsStay, Sound
  <2>3. QED
    BY <2>1, <2>2
<1>6. QED
  BY <1>1, <1>3, <1>4, <1>5, DeletedBeforePass DEF Live

\* The invariant holds where a pass begins.
LEMMA MInvBegins ==
    ASSUME MInv, Typed', StartPass \/ StartSpecialPass
    PROVE  MInv'
<1>1. /\ TypeOK /\ TypeOK' /\ Control /\ UNCHANGED <<source, given>> /\ UNCHANGED given
      /\ names' = names
      /\ phase = "assembled" /\ errors = {} /\ errors' = {} /\ Sound
      /\ line' = 1 /\ level' = 1 /\ avoid_level' = 0 /\ seen' = <<>>
  BY DEF MInv, Typed, StartPass, StartSpecialPass, Assemble, Sound
<1>2. line = Len(source) + 1 /\ level = 1
  BY <1>1 DEF Control
<1>3. PICK end : end = End
  OBVIOUS
<1>4. /\ end \in ReadType /\ end.branches = <<>>
      /\ Agrees(end.def, end.labels, end.labels)
      /\ \A x \in end.labels : Label(x) \in names
  BY <1>1, <1>2, <1>3, PassEnds
<1>5. AcceptedBefore(Len(source) + 1)
  BY <1>1, <1>2, PassEnds
<1>6. Reading' = Reading /\ End' = end
  BY <1>1, <1>3, SameReading
<1>7. PICK g : g = given
  OBVIOUS
<1>8. g \in [Identifiers -> Values \cup {Undefined}] /\ g = given'
  BY <1>1, <1>7 DEF TypeOK
<1>9. PICK all : all = end.labels
  OBVIOUS
<1>10. Agrees(g, {}, all)'
  <2>1. \A h \in [Identifiers -> Values \cup {Undefined}] :
            h = given => Agrees(h, {}, end.labels)'
    BY <1>1, <1>4, PassBegins, SpecialPassBegins
  <2>2. Agrees(g, {}, end.labels)'
    BY <1>7, <1>8, <2>1
  <2>3. QED
    BY <1>9, <2>2
<1>11. Follows(Reading[line - 1], End)' /\ AcceptedBefore(line)'
  BY <1>1, <1>6, <1>8, <1>9, <1>10, BeginFollows
<1>12. AcceptedBefore(Len(source) + 1)'
  BY <1>1, <1>5, <1>6 DEF AcceptedBefore, Accepted
<1>13. PassZeroKnows'
  BY <1>1, <1>4, <1>6, <1>11, <1>12 DEF PassZeroKnows
<1>14. LabelsStay'
  <2>1. CASE StartPass
    BY <1>3, <1>4, <2>1, PassKeepsLabels
  <2>2. CASE StartSpecialPass
    BY <2>2 DEF StartSpecialPass, LabelsStay
  <2>3. QED
    BY <2>1, <2>2
<1>15. PassesAgree'
  <2>1. line' - 1 = 0 /\ DOMAIN seen' = {} /\ 1..0 = {}
    BY <1>1
  <2>2. QED
    BY <2>1 DEF PassesAgree
<1>16. UndefinedOnly'
  BY <1>1 DEF UndefinedOnly
<1>17. QED
  BY <1>11, <1>13, <1>14, <1>15, <1>16 DEF MInv

\* The arguments of the command line, up to the beginning of pass 0.
LEMMA MInvArguments ==
    ASSUME MInv, Typed', DefineArgument \/ StartPass0
    PROVE  MInv'
<1>1. /\ TypeOK /\ TypeOK' /\ source' = source /\ assembler_pass = 0 /\ assembler_pass' = 0
      /\ line = 1 /\ level = 1 /\ avoid_level = 0
      /\ line' = 1 /\ level' = 1 /\ avoid_level' = 0
      /\ errors \subseteq errors'
  <2>1. /\ TypeOK /\ TypeOK' /\ source' = source /\ phase = "arguments" /\ Control
        /\ UNCHANGED assembler_pass /\ errors \subseteq errors'
    <3>1. errors \subseteq errors'
      BY NothingIsForgotten DEF MInv, Typed, Next, Main
    <3>2. QED
      BY <3>1 DEF MInv, Typed, DefineArgument, StartPass0, Assemble
  <2>2. assembler_pass = 0 /\ line = 1 /\ level = 1 /\ avoid_level = 0
    BY <2>1 DEF Control
  <2>3. line' = 1 /\ level' = 1 /\ avoid_level' = 0
    BY <2>2 DEF DefineArgument, StartPass0, Assemble, levelVars
  <2>4. QED
    BY <2>1, <2>2, <2>3
<1>2. Sound' => Sound
  BY <1>1 DEF Sound
<1>3. Sound => Agrees(given, {}, {})
  <2>1. Reading[line - 1] = [def |-> given, labels |-> {}, branches |-> <<>>]
    BY <1>1, ReadingSteps
  <2>2. PICK end, r : end = End /\ r = Reading[line - 1]
    OBVIOUS
  <2>3. Sound => Agrees(r.def, r.labels, end.labels)
    BY <2>2 DEF MInv, Follows
  <2>4. r.def = given /\ r.labels = {}
    BY <2>1, <2>2
  <2>5. QED
    BY <1>1, <2>3, <2>4 DEF Agrees, LabelAgrees
<1>4. PICK g, all : g = given' /\ all = End'.labels
  OBVIOUS
<1>5. g \in [Identifiers -> Values \cup {Undefined}]
  BY <1>1, <1>4 DEF TypeOK
<1>6. Sound' => Agrees(g, {}, {})'
  <2>1. CASE DefineArgument
    BY <1>1, <1>2, <1>3, <1>4, <1>5, <2>1, ArgumentFollows
  <2>2. CASE StartPass0
    <3>1. UNCHANGED <<given, assembler_pass, names, deleted, kind, value>>
      BY <2>2 DEF StartPass0, Assemble
    <3>2. Sound' => Agrees(given, {}, {})
      BY <1>2, <1>3
    <3>3. QED
      BY <1>4, <3>1, <3>2 DEF Agrees, MacroAgrees, LabelAgrees, Live
  <2>3. QED
    BY <2>1, <2>2
<1>7. Sound' => Agrees(g, {}, all)'
  BY <1>1, <1>6 DEF Agrees, LabelAgrees
<1>8. Sound' => Follows(Reading[line - 1], End)' /\ AcceptedBefore(line)'
  BY <1>1, <1>4, <1>7, BeginFollows
<1>9. PassZeroKnows' /\ LabelsStay' /\ UndefinedOnly'
  BY <1>1, <1>8 DEF PassZeroKnows, LabelsStay, UndefinedOnly
<1>10. PassesAgree'
  <2>1. CASE DefineArgument
    BY <2>1 DEF DefineArgument, MInv, PassesAgree
  <2>2. CASE StartPass0
    <3>1. line' - 1 = 0 /\ seen' = <<>> /\ 1..0 = {}
      BY <1>1, <2>2 DEF StartPass0, Assemble
    <3>2. DOMAIN seen' = {}
      BY <3>1
    <3>3. QED
      BY <3>1, <3>2 DEF PassesAgree
  <2>3. QED
    BY <2>1, <2>2
<1>11. QED
  BY <1>8, <1>9, <1>10 DEF MInv

LEMMA MInvLine ==
    ASSUME MInv, Typed', SourceLine, AtLine(Ops)
    PROVE  MInv'
<1>1. UNCHANGED <<source, given>> /\ UNCHANGED assembler_pass
  BY DEF AtLine, passVars
<1>2. Sound' => Follows(Reading[line - 1], End)' /\ AcceptedBefore(line)'
  BY FollowsLine
<1>3. PassZeroKnows'
  BY <1>1, <1>2, KnowsLine DEF Next
<1>4. LabelsStay' /\ UndefinedOnly'
  BY LabelsStayLine, UndefinedOnlyLine
<1>5. PassesAgree'
  <2>1. CASE errors' = {}
    BY <2>1, PassesAgreeLine
  <2>2. CASE errors' # {}
    BY <2>2 DEF PassesAgree
  <2>3. QED
    BY <2>1, <2>2
<1>6. QED
  BY <1>2, <1>3, <1>4, <1>5 DEF MInv

\* The end of the file, and of the program.
LEMMA MInvCloses ==
    ASSUME MInv, Typed', UnmatchedLine \/ EndOfFile \/ Exit \/ Done
    PROVE  MInv'
<1>1. /\ TypeOK
      /\ UNCHANGED <<source, given, assembler_pass, line, levelVars, treeVars, seen>>
      /\ phase' = "assemble" => phase = "assemble"
  <2>1. TypeOK
    BY DEF MInv, Typed
  <2>2. CASE UnmatchedLine \/ EndOfFile
    BY <2>1, <2>2 DEF UnmatchedLine, EndOfFile, CloseFile
  <2>3. CASE Exit
    BY <2>1, <2>3 DEF Exit
  <2>4. CASE Done
    BY <2>1, <2>4 DEF Done, vars, passVars
  <2>5. QED
    BY <2>2, <2>3, <2>4
<1>2. errors \subseteq errors'
  BY <1>1, NothingIsForgotten DEF Next, SourceLine, Main
<1>3. ASSUME Separate, assembler_pass >= 1
      PROVE  UNCHANGED errors
  <2>1. CASE UnmatchedLine
    <3>1. AtLine(Ops)
      BY <1>3, <2>1, LineComplains DEF SourceLine
    <3>2. line' = line + 1 /\ line' = line /\ line \in Nat
      BY <1>1, <3>1, SourceLines DEF AtLine
    <3>3. QED
      BY <3>2
  <2>2. CASE EndOfFile
    <3>1. /\ Sound /\ line = Len(source) + 1 /\ level \in Nat /\ line - 1 = Len(source)
      <4>1. Sound
        BY <1>3 DEF MInv, UndefinedOnly, Sound
      <4>2. line > Len(source) /\ line \in 1..Len(source) + 1 /\ Len(source) \in Nat
        BY <1>1, <2>2, SourceLines DEF EndOfFile
      <4>3. QED
        BY <1>1, <4>1, <4>2 DEF TypeOK
    <3>2. End.branches = <<>>
      BY <1>3 DEF MInv, PassZeroKnows
    <3>3. NestedAs(<<>>)
      <4>1. PICK r, end : r = Reading[line - 1] /\ end = End
        OBVIOUS
      <4>2. NestedAs(r.branches)
        BY <3>1, <4>1 DEF MInv, Follows
      <4>3. r.branches = <<>>
        BY <3>1, <3>2, <4>1 DEF End
      <4>4. QED
        BY <4>2, <4>3
    <3>4. level = 1
      <4>1. 0 = level - 1
        BY <3>3 DEF NestedAs
      <4>2. QED
        BY <3>1, <4>1
    <3>5. QED
      BY <2>2, <3>4 DEF EndOfFile, CloseFile
  <2>3. CASE Exit
    BY <2>3 DEF Exit
  <2>4. CASE Done
    BY <2>4 DEF Done, vars
  <2>5. QED
    BY <2>1, <2>2, <2>3, <2>4
<1>4. QED
  BY <1>1, <1>2, <1>3, MInvKept

LEMMA MInvNext == MInv /\ [Next]_vars => MInv'
<1> SUFFICES ASSUME MInv, [Next]_vars PROVE MInv'
  OBVIOUS
<1>1. Typed'
  BY TypedNext DEF MInv
<1>2. CASE UNCHANGED vars
  BY <1>1, <1>2, MInvKept DEF vars, passVars
<1>3. CASE DefineArgument \/ StartPass0
  BY <1>1, <1>3, MInvArguments
<1>4. CASE StartSpecialPass \/ StartPass
  BY <1>1, <1>4, MInvBegins
<1>5. CASE EndOfFile \/ Exit \/ Done \/ UnmatchedLine
  BY <1>1, <1>5, MInvCloses
<1>6. CASE SourceLine /\ ~UnmatchedLine
  <2>1. AtLine(Ops)
    BY <1>6 DEF SourceLine, DefineLine, SelfLine, AssignLine, UndefLine, LabelLine, UseLine,
                IfdefLine, ElseLine, EndifLine, SkipLine, OnLine, AtLine, Ops
  <2>2. QED
    BY <1>1, <1>6, <2>1, MInvLine
<1>7. QED
  BY <1>2, <1>3, <1>4, <1>5, <1>6 DEF Next, Main, SourceLine

LEMMA SpecMInv == Spec => []MInv
BY MInvInit, MInvNext, PTL DEF Spec

-----------------------------------------------------------------------------
(* The theorems. *)

\* The variables of the macro module keep their types through all passes: no step
\* of set_macro(), unset_macro(), reset_macros() or main() leaves the tree with a
\* deleted node that it does not have.
THEOREM MacrosTyped == Spec => []TypeOK
<1>1. MInv => TypeOK
  BY DEF MInv, Typed
<1>2. QED
  BY <1>1, SpecMInv, PTL

\* Until an error is printed, every pass of do_assembly() reads the lines and the
\* branches, and sees the values, of one reading of the source without passes, for
\* any source, any arguments -D and any number of passes.
THEOREM PassesReadTheSame == Spec => []PassesAgree
<1>1. MInv => PassesAgree
  BY DEF MInv
<1>2. QED
  BY <1>1, SpecMInv, PTL

\* If the names of macros and labels are kept apart, the only error of a pass after
\* pass 0 is the use of a name that has no meaning.
THEOREM PassZeroFindsErrors == Spec => []LaterPassesAccept
<1>1. MInv => LaterPassesAccept
  BY DEF MInv, UndefinedOnly, LaterPassesAccept
<1>2. QED
  BY <1>1, SpecMInv, PTL

\* Until an error is printed, a pass begins with the macros of the command line
\* and no others, and no line changes them: reset_macros() deletes the others, and
\* set_macro() and unset_macro() refuse to touch those.
THEOREM ArgumentsStay == Spec => []CommandLineKept
<1>1. MInv => CommandLineKept
  <2>1. SUFFICES ASSUME MInv, errors = {}
                 PROVE  /\ line = 1 => {x \in Identifiers : Live(Macro(x))} =
                                          {x \in Identifiers : given[x] # Undefined}
                        /\ \A x \in Identifiers :
                              given[x] # Undefined => Live(Macro(x)) /\ ValueOf(x) = given[x]
    BY DEF CommandLineKept
  <2>2. TypeOK /\ Sound
    BY <2>1 DEF MInv, Typed, Sound
  <2>3. PICK r, end : r = Reading[line - 1] /\ end = End
    OBVIOUS
  <2>4. Agrees(r.def, r.labels, end.labels)
    BY <2>1, <2>2, <2>3 DEF MInv, Follows
  <2>5. \A x \in Identifiers : MacroAgrees(r.def[x], x) /\ given[x] \in Values \cup {Undefined}
    BY <2>2, <2>4 DEF Agrees, TypeOK
  <2>6. ASSUME line = 1
        PROVE  r.def = given
    <3>1. Reading[0] = [def |-> given, labels |-> {}, branches |-> <<>>]
      BY <2>2, ReadingSteps
    <3>2. line - 1 = 0
      BY <2>6
    <3>3. r = [def |-> given, labels |-> {}, branches |-> <<>>]
      BY <2>3, <3>1, <3>2
    <3>4. QED
      BY <3>3
  <2>7. line = 1 => \A x \in Identifiers : Live(Macro(x)) <=> given[x] # Undefined
    BY <2>5, <2>6 DEF MacroAgrees
  <2>8. ASSUME NEW x \in Identifiers, given[x] # Undefined
        PROVE  Live(Macro(x)) /\ ValueOf(x) = given[x]
    <3>1. r.def[x] = given[x] /\ given[x] \in Nat
      BY <2>5, <2>8, LiteralsTyped DEF MacroAgrees
    <3>2. r.def[x] >= 0 /\ r.def[x] # Undefined
      BY <3>1, LiteralsTyped
    <3>3. QED
      BY <2>5, <3>1, <3>2 DEF MacroAgrees, ValueOf
  <2>9. QED
    BY <2>7, <2>8
<1>2. QED
  BY <1>1, SpecMInv, PTL

=============================================================================

------------------------------- MODULE Macros -------------------------------
(***************************************************************************)
(* Single-line macros over the passes of mininasm: %DEFINE, %ASSIGN,       *)
(* %UNDEF, -D, labels that share their names, %IFDEF, and the reset before *)
(* each pass.  A macro with a value is two nodes of the label tree, itself *)
(* and a label; of the tree this module uses what LabelStore promises.     *)
(***************************************************************************)
EXTENDS Integers, Sequences, FiniteSets

CONSTANTS
    Identifiers,    \* the names in the source
    Sources,        \* the source programs considered
    Values,         \* integer literals
    LabelValue,     \* the value of labels other than macros
    LastPass        \* bound on the number of passes

Ops == {"define", "self", "assign", "undef", "label", "use",
        "ifdef", "ifndef", "else", "endif"}

\* "assign" is %ASSIGN name from+1; value is for "define" only.
Lines == [op : Ops, name : Identifiers, from : Identifiers, value : Values]

ASSUME SourcesAssumption == Sources \subseteq Seq(Lines)
ASSUME ValuesAssumption == Values \subseteq Nat /\ LabelValue \in Nat
ASSUME LastPassAssumption == LastPass \in Nat \ {0, 1}

Label(x) == <<"", x>>
Macro(x) == <<"~", x>>      \* LABEL_NAME_MACRO_PREFIX
LabelNames == {Label(x) : x \in Identifiers}
MacroNames == {Macro(x) : x \in Identifiers}
Names == LabelNames \cup MacroNames
LabelOf(m) == Label(m[2])
Undefined == -1

VARIABLES
    source,
    phase,              \* "arguments", "assemble", "assembled" or "done"
    assembler_pass, do_special_pass_1,
    line, level, avoid_level,
    names, deleted, kind,       \* the label tree
    value,                      \* the value field of label nodes
    errors,             \* kinds of the messages printed
    given,              \* history: the values given with -D
    seen                \* history: what the pass saw, line by line

treeVars == <<names, deleted, kind, value>>
levelVars == <<level, avoid_level>>
passVars == <<source, phase, assembler_pass, do_special_pass_1, given>>
vars == <<passVars, line, levelVars, treeVars, errors, seen>>

Tree == INSTANCE LabelStore WITH
    Macros <- MacroNames,
    LabelOf <- LabelOf,
    listing <- <<>>

Live(n) == n \in names \ deleted

ValueOf(x) == IF Live(Label(x)) THEN value[Label(x)] ELSE Undefined

UndefinedErrors(v) ==
    IF v = Undefined /\ assembler_pass > 1 THEN {"Undefined label"} ELSE {}

-----------------------------------------------------------------------------
(* set_macro(), unset_macro(), create_label() *)

SetSelf(x) ==
    LET m == Macro(x)
    IN  IF Live(m)
        THEN /\ errors' = errors \cup
                    (IF kind[m] = "self" THEN {} ELSE {"invalid macro override"})
             /\ UNCHANGED treeVars
        ELSE /\ names' = names \cup {m}
             /\ deleted' = deleted \ {m}
             /\ kind' = [kind EXCEPT ![m] = "self"]
             /\ UNCHANGED <<value, errors>>

ValueErrors(x, mode, v) ==
    IF Live(Label(x)) /\ ~Live(Macro(x))
    THEN {"macro name conflicts with label"}
    ELSE IF v = Undefined
    THEN {"Cannot use undefined labels"} \cup UndefinedErrors(v)
    ELSE IF Live(Macro(x)) /\ kind[Macro(x)] # mode
    THEN {"invalid macro override"}
    ELSE {}

SetValue(x, mode, v) ==
    /\ errors' = errors \cup ValueErrors(x, mode, v)
    /\ IF ValueErrors(x, mode, v) = {}
       THEN /\ names' = names \cup {Macro(x), Label(x)}
            /\ deleted' = deleted \ {Macro(x), Label(x)}
            /\ kind' = [kind EXCEPT ![Macro(x)] = mode]
            /\ value' = [value EXCEPT ![Label(x)] = v]
       ELSE UNCHANGED treeVars

\* Faulty variant: the label with the value stays.
DeletedByUndefMacroOnly(x) == {Macro(x)}

DeletedByUndef(x) ==
    {Macro(x)} \cup IF kind[Macro(x)] = "value" THEN {Label(x)} ELSE {}

UnsetMacro(x) ==
    LET m == Macro(x)
        given_in_cmdline == Live(m) /\ kind[m] = "cmdline"
    IN  /\ errors' = errors \cup
               (IF given_in_cmdline THEN {"invalid macro override"} ELSE {})
        /\ deleted' = IF Live(m) /\ ~given_in_cmdline
                      THEN deleted \cup DeletedByUndef(x) ELSE deleted
        /\ UNCHANGED <<names, kind, value>>

CreateErrors(n) ==
    IF assembler_pass <= 1
    THEN IF Live(n) THEN {"Redefined label"} ELSE {}
    ELSE IF n \in names THEN {} ELSE {"label not found"}

CreateLabel(x) ==
    LET n == Label(x)
    IN  /\ errors' = errors \cup CreateErrors(n)
        /\ IF CreateErrors(n) = {}
           THEN /\ names' = names \cup {n}
                /\ deleted' = deleted \ {n}
                /\ value' = [value EXCEPT ![n] = LabelValue]
                /\ UNCHANGED kind
           ELSE UNCHANGED treeVars

-----------------------------------------------------------------------------
(* The lines of the source. *)

Skipping == avoid_level # 0 /\ level >= avoid_level

AtLine(ops) ==
    /\ phase = "assemble"
    /\ line <= Len(source)
    /\ source[line].op \in ops
    /\ line' = line + 1
    /\ UNCHANGED passVars

OnLine(ops) == AtLine(ops) /\ ~Skipping /\ UNCHANGED levelVars

See(what) == seen' = Append(seen, [line |-> line, sees |-> what])

DefineLine ==
    /\ OnLine({"define"})
    /\ SetValue(source[line].name, "value", source[line].value)
    /\ UNCHANGED seen

SelfLine ==
    /\ OnLine({"self"})
    /\ SetSelf(source[line].name)
    /\ UNCHANGED seen

AssignLine ==
    /\ OnLine({"assign"})
    /\ LET v == ValueOf(source[line].from)
       IN  SetValue(source[line].name, "value", IF v = Undefined THEN v ELSE v + 1)
    /\ UNCHANGED seen

UndefLine ==
    /\ OnLine({"undef"})
    /\ UnsetMacro(source[line].name)
    /\ UNCHANGED seen

LabelLine ==
    /\ OnLine({"label"})
    /\ CreateLabel(source[line].name)
    /\ UNCHANGED seen

UseLine ==
    /\ OnLine({"use"})
    /\ See(ValueOf(source[line].name))
    /\ errors' = errors \cup UndefinedErrors(ValueOf(source[line].name))
    /\ UNCHANGED treeVars

IfdefLine ==
    /\ AtLine({"ifdef", "ifndef"})
    /\ level' = level + 1
    /\ IF avoid_level # 0 /\ level' >= avoid_level
       THEN UNCHANGED <<avoid_level, seen>>
       ELSE LET holds == Live(Macro(source[line].name)) = (source[line].op = "ifdef")
            IN  /\ avoid_level' = IF holds THEN avoid_level ELSE level'
                /\ See(IF holds THEN 1 ELSE 0)
    /\ UNCHANGED <<treeVars, errors>>

CloseFile(error) ==
    /\ phase = "assemble"
    /\ phase' = "assembled"
    /\ errors' = errors \cup error
    /\ UNCHANGED <<source, assembler_pass, do_special_pass_1, given, line, levelVars,
                   treeVars, seen>>

ElseLine ==
    /\ level > 1
    /\ AtLine({"else"})
    /\ avoid_level' = CASE avoid_level = level -> 0
                        [] avoid_level = 0 -> level
                        [] OTHER -> avoid_level
    /\ UNCHANGED <<level, treeVars, errors, seen>>

\* Faulty variant: what was skipped stays skipped.
EndifLineStays ==
    /\ level > 1
    /\ AtLine({"endif"})
    /\ level' = level - 1
    /\ UNCHANGED <<avoid_level, treeVars, errors, seen>>

EndifLine ==
    /\ level > 1
    /\ AtLine({"endif"})
    /\ level' = level - 1
    /\ avoid_level' = IF avoid_level = level THEN 0 ELSE avoid_level
    /\ UNCHANGED <<treeVars, errors, seen>>

UnmatchedLine ==
    /\ level = 1 /\ line <= Len(source) /\ source[line].op \in {"else", "endif"}
    /\ CloseFile({"without %IF"})

SkipLine ==
    /\ Skipping
    /\ AtLine(Ops \ {"ifdef", "ifndef", "else", "endif"})
    /\ UNCHANGED <<levelVars, treeVars, errors, seen>>

EndOfFile ==
    /\ line > Len(source)
    /\ CloseFile(IF level = 1 THEN {} ELSE {"pending %IF"})

-----------------------------------------------------------------------------
(* main() *)

DefineArgument ==
    /\ phase = "arguments"
    /\ \E x \in Identifiers, v \in Values :
          /\ SetValue(x, "cmdline", v)
          /\ given' = [given EXCEPT ![x] = v]
    /\ UNCHANGED <<source, phase, assembler_pass, do_special_pass_1, line, levelVars, seen>>

Assemble ==
    /\ phase' = "assemble"
    /\ line' = 1 /\ level' = 1 /\ avoid_level' = 0
    /\ seen' = <<>>
    /\ UNCHANGED <<source, names, kind, value, errors, given>>

StartPass0 ==
    /\ phase = "arguments"
    /\ Assemble
    /\ UNCHANGED <<assembler_pass, do_special_pass_1, deleted>>

\* Faulty variant: the labels with the values of macros stay.
ResetMacrosOnly == deleted' = deleted \cup Tree!OwnMacros

\* has_macros is always set, because of __MININASM__.
ResetMacros == deleted' = Tree!DeletedByReset(FALSE)

\* Faulty variant: the values of -D macros are not restored.
ResetLabelsAll == deleted' = deleted \cup Tree!OwnMacros \cup (names \ MacroNames)

ResetLabels == deleted' = Tree!DeletedByReset(TRUE)

\* A first ORG after a use of the address asks for the special pass.
StartSpecialPass ==
    /\ phase = "assembled" /\ errors = {}
    /\ assembler_pass = 0
    /\ assembler_pass' = 1
    /\ do_special_pass_1' = TRUE
    /\ ResetLabels
    /\ Assemble

\* Pass 2, and any pass after it that main() makes because labels have changed.
StartPass ==
    /\ phase = "assembled" /\ errors = {}
    /\ assembler_pass < LastPass
    /\ assembler_pass' = IF assembler_pass = 0 THEN 2 ELSE assembler_pass + 1
    /\ UNCHANGED do_special_pass_1
    /\ ResetMacros
    /\ Assemble

Exit ==
    /\ phase = "assembled"
    /\ errors # {} \/ assembler_pass >= 2
    /\ phase' = "done"
    /\ UNCHANGED <<source, assembler_pass, do_special_pass_1, given, line, levelVars,
                   treeVars, errors, seen>>

Done == phase = "done" /\ UNCHANGED vars

Init ==
    /\ source \in Sources
    /\ phase = "arguments" /\ assembler_pass = 0 /\ do_special_pass_1 = FALSE
    /\ line = 1 /\ level = 1 /\ avoid_level = 0
    /\ names = {} /\ deleted = {}
    /\ kind = [n \in Names |-> "none"] /\ value = [n \in Names |-> 0]
    /\ errors = {} /\ seen = <<>>
    /\ given = [x \in Identifiers |-> Undefined]

SourceLine == \/ DefineLine \/ SelfLine \/ AssignLine \/ UndefLine \/ LabelLine \/ UseLine
              \/ IfdefLine \/ ElseLine \/ EndifLine \/ UnmatchedLine \/ SkipLine

Main == StartPass0 \/ StartSpecialPass \/ StartPass \/ Exit

Next == DefineArgument \/ SourceLine \/ EndOfFile \/ Main \/ Done

Spec == Init /\ [][Next]_vars

=============================================================================

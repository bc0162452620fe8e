-------------------------- MODULE SessionProperties --------------------------
(***************************************************************************)
(* Properties of a run of mininasm, against the text that its files make   *)
(* up and against the arguments as a whole.                                *)
(***************************************************************************)
EXTENDS Session

\* Every variable has a value of its kind, and the stack stays in its memory.
TypeOK ==
    /\ phase \in {"arguments", "push", "open", "lines", "assembled", "create", "done"}
    /\ exit \in {"running", "0", "1", "3"} /\ (phase = "done" <=> exit # "running")
    /\ assembler_pass \in {0} \cup 2..MaxPass
    /\ DOMAIN cells = 1..StackSize
    /\ aip \in 1..StackSize /\ assembly_p \in 1..StackSize + 1
    /\ level > 0 /\ avoid_level \in 0..level
    /\ io.listing_fd \in {"none", "open", "closed"}
    /\ Len(io.emit) < EmitSize \/ io.failed
    /\ Len(io.message) <= MessageSize

-----------------------------------------------------------------------------
(* The text of a file f with its %include lines expanded. *)

Op(f, i) == files[f][i].op

\* How many %if blocks are open before the line i.
Depth(f, i) ==
    Cardinality({j \in 1..i - 1 : Op(f, j) = "if"})
    - Cardinality({j \in 1..i - 1 : Op(f, j) = "endif"})

\* The line at which a file is left: its end, or an %else or %endif too many.
LastLine(f) ==
    Min({Len(files[f]) + 1} \cup
        {i \in DOMAIN files[f] : Op(f, i) \in {"else", "endif"} /\ Depth(f, i) = 0})

Encloses(f, j, i) == Op(f, j) = "if" /\ \A k \in j + 1..i : Depth(f, k) > Depth(f, j)
Chosen(f, j, i) ==
    LET elses == {k \in j + 1..i - 1 : Op(f, k) = "else" /\ Depth(f, k) = Depth(f, j) + 1}
    IN  files[f][j].true <=> Cardinality(elses) % 2 = 0
Active(f, i) == \A j \in 1..i - 1 : Encloses(f, j, i) => Chosen(f, j, i)

IncludedBefore(f, i) == {j \in 1..i - 1 : Op(f, j) = "include" /\ Active(f, j)}

\* The number given to a line counts newlines that were read twice.
Number(f, i) ==
    i + IF whole THEN Cardinality(IncludedBefore(f, i) \ {Len(files[f])}) ELSE 0

\* The scope of local labels begins at a global label and ends at an %include.
Scope(f, i) ==
    LET globals == {j \in 1..i - 1 : Op(f, j) = "global" /\ Active(f, j)}
    IN  Max({0} \cup {j \in globals : \A k \in IncludedBefore(f, i) : k < j})

CodeOf(f, i, n) == [k \in 1..n |-> <<"code", f, i, Scope(f, i), k>>]
RowOf(f, i) == <<<<"row", Number(f, i)>>, <<"text", f, i>>>>
Wrong(f, i, what) == TextOf(<<f, Number(f, i)>>, what)

\* What the lines of f from i on print and emit, with `room' cells left on the
\* stack; broken stands behind a line that ends the pass.
Broken == <<"broken">>
Expansion[f \in Name, i \in Nat, room \in Nat] ==
    LET line == files[f][i]
        empty == IF whole /\ i < Len(files[f]) THEN <<<<"row", Number(f, i) + 1>>, <<"empty">>>> ELSE <<>>
        emitted == CodeOf(f, i, IF line.op = "late" THEN 1 ELSE line.n)
        row == RowOf(f, i)
    IN  IF NameAt + Len(f) >= room THEN TextOf(<<>>, "stack_overflow") \o <<Broken>>
        ELSE IF f \notin DOMAIN files THEN TextOf(<<>>, "cannot_open_input") \o <<Broken>>
        ELSE IF i = LastLine(f)
        THEN IF i <= Len(files[f]) THEN Wrong(f, i, "without_if")
             ELSE IF Depth(f, i) > 0 THEN Wrong(f, i, "pending_if") ELSE <<>>
        ELSE (IF ~Active(f, i) THEN row
              ELSE CASE line.op \in {"code", "incbin"} -> emitted \o row
                     [] line.op = "bad" -> Wrong(f, i, "bad") \o row
                     [] line.op = "late" ->
                          (IF assembler_pass > 1 THEN Wrong(f, i, "late") ELSE <<>>) \o emitted \o row
                     [] line.op = "include" ->
                          row \o Expansion[line.file, 1, room - Len(Entry(alignment, f))] \o empty
                     [] OTHER -> row)
             \o Expansion[f, i + 1, room]

Before(unit, units) == SubSeq(units, 1, Min({Len(units) + 1} \cup {k \in DOMAIN units : units[k] = unit}) - 1)
Expanded == Before(Broken, Expansion[options.input.word, 1, StackSize])

Of(kinds, units) == SelectSeq(units, LAMBDA u : u[1] \in kinds)
MessageKinds == {"message", "end"}
RowKinds == {"row", "text", "empty"}

-----------------------------------------------------------------------------

\* Every pass assembles the files as their %include lines expand: the right lines
\* in the right branches, at the right places, with the right numbers, up to an
\* %include that fails; the listing has a row for each, and the messages in between.
PassFollowsText ==
    phase = "assembled" =>
        /\ io.stderr = Of(MessageKinds, Expanded)
        /\ assembler_pass > 1 =>
              /\ io.output \o io.emit = Of({"code"}, Expanded)
              /\ options.listing # None =>
                    io.listing \o io.message = Of(MessageKinds \cup RowKinds, Expanded)

\* After success both files are complete, and those of the last pass only.
FilesAreComplete ==
    exit = "0" =>
        /\ io.output = Of({"code"}, Expanded)
        /\ options.listing # None =>
              io.listing = Of(RowKinds, Expanded) \o <<<<"totals">>, <<"labels">>>>

\* stderr has messages, whole ones, and nothing that is for the listing only;
\* it has some if and only if the run failed.  Only a full disk gives exit code 3.
ErrorsAreTold ==
    /\ \A i \in DOMAIN io.stderr :
          /\ io.stderr[i][1] \in MessageKinds
          /\ phase = "done" => io.stderr[i][1] = IF i % 2 = 1 THEN "message" ELSE "end"
    /\ phase = "done" => (exit = "0" <=> io.stderr = <<>>)
    /\ exit = "3" => io.full # {}

-----------------------------------------------------------------------------
(* The arguments as a whole. *)

Arg(args, i, letters) == ~IsWord(args[i]) /\ args[i].letter \in letters
TakesNext(args, i) == Arg(args, i, {"f", "o", "l"}) /\ args[i].rest = <<>>

\* A run of such flags ending before i makes i a value if it is odd.
IsValue(args, i) ==
    LET first == Min({j \in 1..i : \A k \in j..i - 1 : TakesNext(args, k)})
    IN  (i - first) % 2 = 1
Flags(args, letter) ==
    {i \in DOMAIN args : ~IsValue(args, i) /\ TakesNext(args, i) /\ Arg(args, i, {letter})}
Inputs(args) == {i \in DOMAIN args : ~IsValue(args, i) /\ IsWord(args[i])}
LevelArgs(args, levels) ==
    {i \in DOMAIN args : ~IsValue(args, i) /\ Arg(args, i, {"o"})
                         /\ \E t \in levels : args[i].rest = Levels[t]}

Acceptable(args) ==
    /\ \A i \in DOMAIN args : ~IsValue(args, i) /\ ~IsWord(args[i]) =>
          \/ args[i].letter = "w"
          \/ args[i].letter = "d" /\ args[i].rest # BadMacro
          \/ i \in LevelArgs(args, DOMAIN Levels)
          \/ TakesNext(args, i) /\ i < Len(args)
    /\ \A i \in Flags(args, "f") : args[i + 1] \in {[word |-> Bin], [word |-> Com]}
    /\ Cardinality(Inputs(args)) = 1
    /\ Cardinality(Flags(args, "o")) <= 1 /\ Cardinality(Flags(args, "l")) <= 1

\* What the last argument of each kind says.
OptionsOf(args) ==
    LET ValueOf(flags) == IF flags = {} THEN None ELSE args[Max(flags) + 1]
        levels == LevelArgs(args, {"O0", "O1", "O9", "A"})
    IN  [input |-> args[Max(Inputs(args))],
         output |-> ValueOf(Flags(args, "o")), listing |-> ValueOf(Flags(args, "l")),
         com |-> ValueOf(Flags(args, "f")) = [word |-> Com],
         opt_level |-> IF levels = {} THEN 0
                       ELSE CASE args[Max(levels)].rest = Levels.O0 -> 0
                              [] args[Max(levels)].rest = Levels.O1 -> 1
                              [] OTHER -> 9,
         opt_int |-> LevelArgs(args, {"O1", "I", "A"}) # {},
         opt_lea |-> LevelArgs(args, {"L", "A"}) # {},
         opt_segreg |-> LevelArgs(args, {"G", "A"}) # {}]

\* mininasm has ended at an argument, or for want of a source file.
Refused == phase = "done" /\ (argument <= Len(argv) \/ options.input = None)

\* The arguments are accepted if they are well-formed as a whole, and then the
\* options are what each argument, or the last of its kind, says.
ArgumentsAreRight ==
    /\ phase = "push" /\ assembler_pass = 0 =>
          Acceptable(argv) /\ options = OptionsOf(argv)
    /\ Refused => ~Acceptable(argv)

\* Every run ends, also if a file includes itself.
SessionEnds == <>(phase = "done")

=============================================================================

------------------------------- MODULE Session -------------------------------
(***************************************************************************)
(* A run of mininasm seen from outside: its arguments, the files it reads  *)
(* and includes in each pass, and the output file, listing and messages it *)
(* writes.  What a line assembles to is left out but for its length, and   *)
(* whether labels have changed in a pass is left open: see Passes.         *)
(***************************************************************************)
EXTENDS IncludeStack, Streams

CONSTANTS
    Sessions,      \* the runs considered: arguments and files
    Alignments,    \* 1 where the CPU can read unaligned words, else off_t's
    MaxPass        \* bound: labels no longer change in this pass

\* assembly_stack is an array of structures where they are aligned.
ASSUME StackAssumption ==
    /\ StackSize \in Nat \ {0}
    /\ Alignments \subseteq {1, 2, 4, 8} /\ \A a \in Alignments : StackSize % a = 0
ASSUME PassAssumption == MaxPass \in Nat \ {0, 1}

(***************************************************************************)
(* A file is a sequence of lines; the last ends without a newline, and     *)
(* mininasm puts one behind it in its buffer.  code emits n bytes; late is *)
(* wrong from pass 2 on (an undefined label), bad in each pass; global is  *)
(* a label that does not begin with a dot; if has a constant condition.    *)
(***************************************************************************)
Name == Seq(Nat \ {0})
Line == [op : {"code", "incbin"}, n : Nat] \cup [op : {"if"}, true : BOOLEAN]
        \cup [op : {"include"}, file : Name]
        \cup [op : {"late", "bad", "global", "else", "endif"}]

\* An argument -Xrest, where X is a letter of either case, or a word.
Argument ==
    [letter : {"d", "w", "o", "f", "l", "z"}, rest : Name] \cup [word : Name \ {<<>>}]

\* No file has an empty name: open() does not find it.
ASSUME SessionsAssumption ==
    \A s \in Sessions :
        /\ s.argv \in Seq(Argument)
        /\ DOMAIN s.files \subseteq Name \ {<<>>}
        /\ \A name \in DOMAIN s.files : s.files[name] \in Seq(Line)

IsWord(arg) == "word" \in DOMAIN arg
None == [word |-> <<>>]

VARIABLES
    files,                \* what open() finds (never changes)
    whole,                \* are files read to their end before the first line?
    alignment,
    argv, argument,       \* the arguments (never change), and the next one to read
    options,              \* what those before it asked for
    phase, exit,
    assembler_pass,
    cells, assembly_p, aip,    \* the include stack
    input_filename,            \* the file to push
    input_fd, next,            \* the file being read, and where: see AtLine
    level, avoid_level, line_number,
    global_label,              \* the line of the last global label, or 0
    errors,                    \* have there been any?
    io

sessionVars == <<files, whole, alignment, argv>>
stackVars == <<cells, assembly_p, aip>>
readVars == <<input_filename, input_fd, next, level, avoid_level, line_number, global_label>>
vars == <<sessionVars, argument, options, phase, exit, assembler_pass, stackVars,
          readVars, errors, io>>

-----------------------------------------------------------------------------
(* Steps that all parts take. *)

Exit(code) == phase' = "done" /\ exit' = code

\* On to phase p, unless exit(3) was called.
GoOn(p) == IF io'.failed THEN Exit("3") ELSE phase' = p /\ UNCHANGED exit

\* message_start() names the file and the line, if there is one.
At(number) == IF number = 0 THEN <<>> ELSE <<NameIn(cells, aip), number>>

Report(state, number, what) == errors' = TRUE /\ io' = Message(state, At(number), what)
Silently == io' = io /\ UNCHANGED errors

-----------------------------------------------------------------------------
(* main(): the arguments. *)

ThisArgument == argv[argument]
AllRead == phase = "arguments" /\ argument > Len(argv)
Reading(words) ==
    /\ phase = "arguments" /\ argument <= Len(argv)
    /\ IsWord(ThisArgument) = words

unchangedByArgument == <<sessionVars, assembler_pass, stackVars, readVars>>

Accept(count, changed) ==
    /\ options' = changed
    /\ argument' = argument + count
    /\ Silently
    /\ UNCHANGED <<phase, exit, unchangedByArgument>>

Reject(what) ==
    /\ Report(io, line_number, what)
    /\ Exit("1")
    /\ UNCHANGED <<options, argument, unchangedByArgument>>

\* Names and texts that mean something.
Bin == <<1>>
Com == <<2>>
BadMacro == <<9>>
Levels == [O0 |-> <<10>>, O1 |-> <<11>>, O9 |-> <<12>>, L |-> <<13>>, G |-> <<14>>,
           I |-> <<15>>, A |-> <<16>>]

\* The options after -O and one of Levels.
Optimized(text) ==
    [options EXCEPT
        !.opt_level = CASE text = Levels.O0 -> 0 [] text = Levels.O1 -> 1
                        [] text \in {Levels.O9, Levels.A} -> 9 [] OTHER -> @,
        !.opt_int = @ \/ text \in {Levels.O1, Levels.I, Levels.A},
        !.opt_lea = @ \/ text \in {Levels.L, Levels.A},
        !.opt_segreg = @ \/ text \in {Levels.G, Levels.A}]

InputArgument ==
    /\ Reading(TRUE)
    /\ IF options.input # None THEN Reject("more_than_one_input")
       ELSE Accept(1, [options EXCEPT !.input = ThisArgument])

\* -D, -w and -O with a level.
PlainFlag ==
    /\ Reading(FALSE)
    /\ LET letter == ThisArgument.letter
           rest == ThisArgument.rest
       IN  \/ letter = "d" /\ IF rest = BadMacro THEN Reject("bad_macro") ELSE Accept(1, options)
           \/ letter = "w" /\ Accept(1, options)
           \/ /\ letter = "o" /\ rest # <<>>
              /\ IF \E t \in DOMAIN Levels : Levels[t] = rest
                 THEN Accept(1, Optimized(rest))
                 ELSE Reject("bad_optimization")
           \/ letter \in {"f", "l"} /\ rest # <<>> /\ Reject("flag_too_long")
           \/ letter = "z" /\ Reject("unknown_argument")

\* Faulty variant: a second -o or -l replaces the first.
GivenNever(kind) == FALSE

Given(kind) == options[kind] # None

\* -f, -o and -l take the next argument, whatever it looks like.
FlagWithValue ==
    /\ Reading(FALSE)
    /\ ThisArgument.rest = <<>>
    /\ LET letter == ThisArgument.letter
           value == argv[argument + 1]
           kind == IF letter = "o" THEN "output" ELSE "listing"
       IN  /\ letter \in {"f", "o", "l"}
           /\ IF argument = Len(argv) THEN Reject("no_argument")
              ELSE IF letter = "f"
              THEN IF value \in {[word |-> Bin], [word |-> Com]}
                   THEN Accept(2, [options EXCEPT !.com = (value = [word |-> Com])])
                   ELSE Reject("bad_format")
              ELSE IF Given(kind) THEN Reject("argument_present")
              ELSE Accept(2, [options EXCEPT ![kind] = value])

NoInput ==
    /\ AllRead /\ options.input = None
    /\ Reject("no_input")

-----------------------------------------------------------------------------
(* do_assembly(): files. *)

unchangedInFile == <<sessionVars, argument, options, assembler_pass>>

\* The pass p starts with an empty stack.
BeginAssembly(p) ==
    /\ assembler_pass' = p
    /\ assembly_p' = 1
    /\ input_filename' = options.input.word
    /\ UNCHANGED <<cells, aip, input_fd, next, level, avoid_level, line_number, global_label>>

Push ==
    /\ phase = "push"
    /\ line_number' = 0
    /\ IF Overflows(assembly_p, input_filename)
       THEN /\ Report(io, 0, "stack_overflow")
            /\ GoOn("assembled")
            /\ UNCHANGED stackVars
       ELSE /\ LET entry == Entry(alignment, input_filename)
               IN  /\ cells' = Stored(cells, assembly_p, entry)
                   /\ assembly_p' = Above(assembly_p, entry)
            /\ aip' = assembly_p
            /\ Silently
            /\ GoOn("open")
    /\ UNCHANGED <<unchangedInFile, input_filename, input_fd, next, level, avoid_level,
                   global_label>>

\* do_open_again: also the including file is opened, and read on from file_offset.
Open ==
    /\ phase = "open"
    /\ LET name == NameIn(cells, aip)
       IN  IF name \in DOMAIN files
           THEN /\ input_fd' = name
                /\ next' = cells[aip]
                /\ level' = cells[aip + 1]
                /\ avoid_level' = cells[aip + 2]
                /\ line_number' = cells[aip + 3]
                /\ global_label' = 0
                /\ Silently
                /\ GoOn("lines")
           ELSE /\ line_number' = 0
                /\ Report(io, 0, "cannot_open_input")
                /\ GoOn("assembled")
                /\ UNCHANGED <<input_fd, next, level, avoid_level, global_label>>
    /\ UNCHANGED <<unchangedInFile, stackVars, input_filename>>

\* close_return: back to the including file, if there is one.
CloseReturn ==
    IF aip = 1
    THEN line_number' = 0 /\ GoOn("assembled") /\ UNCHANGED stackVars
    ELSE /\ line_number' = line_number + 1
         /\ aip' = EntryBelow(alignment, cells, aip)
         /\ assembly_p' = aip
         /\ GoOn("open")
         /\ UNCHANGED cells

-----------------------------------------------------------------------------
(* do_assembly(): lines.  next is twice the number of lines read, less one if  *)
(* the newline of the last of them is to be read again.                        *)

ThisNumber == line_number + 1
Here == next \div 2 + 1      \* the line at next
AtEnd == Here > Len(files[input_fd])
Text == files[input_fd][Here]

AtLine(op) == phase = "lines" /\ next % 2 = 0 /\ ~AtEnd /\ Text.op = op

Skipping == avoid_level # 0 /\ level >= avoid_level
OnLine(op) == AtLine(op) /\ ~Skipping

Code(n) == [k \in 1..n |-> <<"code", input_fd, Here, global_label, k>>]
Emitted(state, n) == IF assembler_pass > 1 THEN EmitWrite(state, Code(n)) ELSE state

\* The row of the listing for a line, or for none.
Row(state, text) ==
    Then(state, LAMBDA now :
        IF assembler_pass > 1 /\ now.listing_fd # "none"
        THEN BBPrintf(now, <<<<"row", ThisNumber>>, text>>) ELSE now)
RowOfLine(state) == Row(state, <<"text", input_fd, Here>>)

AfterLine == next' = next + 2 /\ line_number' = ThisNumber /\ GoOn("lines")

unchangedByLine == <<unchangedInFile, stackVars, input_filename, input_fd>>
unchangedByCode == <<unchangedByLine, level, avoid_level>>

CodeLine ==
    /\ OnLine("code")
    /\ io' = RowOfLine(Emitted(io, Text.n))
    /\ AfterLine
    /\ UNCHANGED <<unchangedByCode, errors, global_label>>

WrongLine ==
    /\ OnLine("bad") \/ OnLine("late")
    /\ LET wrong == Text.op = "bad" \/ assembler_pass > 1
           told == IF wrong THEN Message(io, At(ThisNumber), Text.op) ELSE io
       IN  /\ io' = RowOfLine(Then(told, LAMBDA now :
                         IF Text.op = "bad" THEN now ELSE Emitted(now, 1)))
           /\ errors' = (errors \/ wrong)
    /\ AfterLine
    /\ UNCHANGED <<unchangedByCode, global_label>>

GlobalLine ==
    /\ OnLine("global")
    /\ global_label' = Here
    /\ io' = RowOfLine(io)
    /\ AfterLine
    /\ UNCHANGED <<unchangedByCode, errors>>

IncbinLine ==
    /\ OnLine("incbin")
    /\ io' = Then(RowOfLine(io), LAMBDA listed :
                 IF assembler_pass > 1 THEN EmitFile(listed, Code(Text.n))
                 ELSE MessageFlush(listed))
    /\ AfterLine
    /\ UNCHANGED <<unchangedByCode, errors, global_label>>

SkipLine ==
    /\ \E op \in {"code", "incbin", "bad", "late", "global", "include"} : AtLine(op)
    /\ Skipping
    /\ io' = RowOfLine(io)
    /\ AfterLine
    /\ UNCHANGED <<unchangedByCode, errors, global_label>>

\* The newline of the line with the %include, read again.
EmptyLine ==
    /\ phase = "lines" /\ next % 2 = 1
    /\ next' = next + 1 /\ line_number' = ThisNumber
    /\ io' = Row(io, <<"empty">>)
    /\ GoOn("lines")
    /\ UNCHANGED <<unchangedByCode, errors, global_label>>

If ==
    /\ AtLine("if")
    /\ level' = level + 1
    /\ avoid_level' = IF ~(avoid_level # 0 /\ level' >= avoid_level) /\ ~Text.true
                      THEN level' ELSE avoid_level
    /\ io' = RowOfLine(io)
    /\ AfterLine
    /\ UNCHANGED <<unchangedByLine, errors, global_label>>

Else ==
    /\ AtLine("else") /\ level > 1
    /\ avoid_level' = IF avoid_level = level THEN 0
                      ELSE IF avoid_level = 0 THEN level ELSE avoid_level
    /\ io' = RowOfLine(io)
    /\ AfterLine
    /\ UNCHANGED <<unchangedByLine, level, errors, global_label>>

Endif ==
    /\ AtLine("endif") /\ level > 1
    /\ level' = level - 1
    /\ avoid_level' = IF avoid_level = level THEN 0 ELSE avoid_level
    /\ io' = RowOfLine(io)
    /\ AfterLine
    /\ UNCHANGED <<unchangedByLine, errors, global_label>>

\* The rest of the file is not read.
Unmatched ==
    /\ AtLine("else") \/ AtLine("endif")
    /\ level = 1
    /\ Report(io, ThisNumber, "without_if")
    /\ CloseReturn
    /\ UNCHANGED <<unchangedInFile, input_filename, input_fd, next, level, avoid_level,
                   global_label>>

EndOfFile ==
    /\ phase = "lines" /\ next % 2 = 0 /\ AtEnd
    /\ IF level = 1 THEN Silently ELSE Report(io, ThisNumber, "pending_if")
    /\ CloseReturn
    /\ UNCHANGED <<unchangedInFile, input_filename, input_fd, next, level, avoid_level,
                   global_label>>

\* Where reading will go on.  Behind the newline that was put behind the file, all
\* positions are one byte too low.
Resume == IF whole /\ Here < Len(files[input_fd]) THEN 2 * Here - 1 ELSE 2 * Here

\* Faulty variant: the %if blocks of the including file are forgotten.
IncludeLineForgetsLevel ==
    /\ OnLine("include")
    /\ io' = RowOfLine(io)
    /\ cells' = Stored(cells, aip, <<Resume, 1, 0, ThisNumber>>)
    /\ input_filename' = Text.file /\ line_number' = ThisNumber
    /\ GoOn("push")
    /\ UNCHANGED <<unchangedInFile, assembly_p, aip, input_fd, next, level, avoid_level,
                   errors, global_label>>

IncludeLine ==
    /\ OnLine("include")
    /\ io' = RowOfLine(io)
    /\ cells' = Stored(cells, aip, <<Resume, level, avoid_level, ThisNumber>>)
    /\ input_filename' = Text.file /\ line_number' = ThisNumber
    /\ GoOn("push")
    /\ UNCHANGED <<unchangedInFile, assembly_p, aip, input_fd, next, level, avoid_level,
                   errors, global_label>>

-----------------------------------------------------------------------------
(* main(): passes. *)

unchangedByMain == <<sessionVars, argument, options>>

StartPass0 ==
    /\ AllRead /\ options.input # None
    /\ BeginAssembly(0)
    /\ phase' = "push"
    /\ UNCHANGED <<unchangedByMain, exit, errors, io>>

EndPass0 ==
    /\ phase = "assembled" /\ assembler_pass = 0
    /\ LET removed == [MessageFlush(io) EXCEPT !.output =
                         IF options.output = None THEN @ ELSE Absent]
       IN  IF errors THEN io' = removed /\ Exit("1") /\ UNCHANGED errors
           ELSE IF options.output = None
           THEN Report(io, line_number, "no_output") /\ Exit("1")
           ELSE phase' = "create" /\ UNCHANGED <<exit, errors, io>>
    /\ UNCHANGED <<unchangedByMain, assembler_pass, stackVars, readVars>>

\* The do loop of main() up to do_assembly().
StartPass ==
    /\ phase = "create"
    /\ io' = CreateOutput(IF options.listing = None THEN io ELSE CreateListing(io))
    /\ BeginAssembly(IF assembler_pass = 0 THEN 2 ELSE assembler_pass + 1)
    /\ phase' = "push"
    /\ UNCHANGED <<unchangedByMain, exit, errors>>

CreateFails ==
    /\ phase = "create"
    /\ \/ /\ options.listing # None
          /\ Report([io EXCEPT !.listing_fd = "none"], line_number, "could_not_open_listing")
       \/ Report(IF options.listing = None THEN io ELSE CreateListing(io),
                 line_number, "could_not_open_output")
    /\ Exit("1")
    /\ UNCHANGED <<unchangedByMain, assembler_pass, stackVars, readVars>>

\* The numbers and labels at the end of the listing.
Trailer(state) ==
    IF state.listing_fd = "none" THEN state
    ELSE CloseListing(BBPrintf(state, <<<<"totals">>, <<"labels">>>>))

EndPass ==
    /\ phase = "assembled" /\ assembler_pass > 1
    /\ \E again \in BOOLEAN :
          LET failing == again /\ options.opt_level <= 1
              Told(flushed) ==
                  IF failing THEN Message(flushed, At(line_number), "labels_changed") ELSE flushed
              wrong == errors \/ failing
          IN  \E listed \in {Then(Then(EmitFlush(io), Told), Trailer)} :
              /\ again => assembler_pass < MaxPass
              /\ errors' = wrong
              /\ IF listed.failed THEN io' = listed /\ Exit("3")
                 ELSE IF wrong THEN io' = [listed EXCEPT !.output = Absent] /\ Exit("1")
                 ELSE /\ io' = listed
                      /\ IF again THEN phase' = "create" /\ UNCHANGED exit ELSE Exit("0")
    /\ UNCHANGED <<unchangedByMain, assembler_pass, stackVars, readVars>>

\* From now on no write() to the file succeeds.
DiskFull ==
    /\ phase = "lines" /\ assembler_pass > 1
    /\ \E file \in {"output", "listing"} \ io.full : io' = [io EXCEPT !.full = @ \cup {file}]
    /\ UNCHANGED <<sessionVars, argument, options, phase, exit, assembler_pass, stackVars,
                   readVars, errors>>

Done == phase = "done" /\ UNCHANGED vars

-----------------------------------------------------------------------------

Init ==
    /\ \E s \in Sessions : argv = s.argv /\ files = s.files
    /\ whole \in BOOLEAN /\ alignment \in Alignments
    /\ argument = 1
    /\ options = [input |-> None, output |-> None, listing |-> None, com |-> FALSE,
                  opt_level |-> 0, opt_int |-> FALSE, opt_lea |-> FALSE, opt_segreg |-> FALSE]
    /\ phase = "arguments" /\ exit = "running"
    /\ assembler_pass = 0
    /\ cells = [a \in 1..StackSize |-> 0] /\ assembly_p = 1 /\ aip = 1
    /\ input_filename = <<>> /\ input_fd = <<>> /\ next = 0
    /\ level = 1 /\ avoid_level = 0 /\ line_number = 0 /\ global_label = 0
    /\ errors = FALSE
    /\ io = NewStreams

Arguments == InputArgument \/ PlainFlag \/ FlagWithValue \/ NoInput
Assemble == \/ Push \/ Open \/ CodeLine \/ WrongLine \/ GlobalLine \/ IncbinLine
            \/ SkipLine \/ EmptyLine \/ If \/ Else \/ Endif \/ Unmatched
            \/ IncludeLine \/ EndOfFile
MainPasses == StartPass0 \/ EndPass0 \/ StartPass \/ EndPass

Next == Arguments \/ Assemble \/ MainPasses \/ CreateFails \/ DiskFull \/ Done

\* mininasm never waits: as long as it can take a step, it takes one.
Spec == Init /\ [][Next]_vars /\ WF_vars(Arguments \/ Assemble \/ MainPasses)

=============================================================================

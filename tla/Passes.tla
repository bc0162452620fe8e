------------------------------- MODULE Passes -------------------------------
(***************************************************************************)
(* The multi-pass core of mininasm: the pass loop of main() and the line   *)
(* loop of do_assembly(), with every handler that moves the current        *)
(* address, defines or uses a label, or decides the size of an             *)
(* instruction.  A source program is a sequence of abstract lines; the     *)
(* text of a line, its operands' registers and the bytes themselves are    *)
(* left out.  Sizes, displacements and label values are the real ones.     *)
(***************************************************************************)
EXTENDS Integers, Sequences, WideList

CONSTANTS
    Labels,        \* label names
    Invocations,   \* the source programs considered, each with a value of -O and
                   \* the default_start_address of -f: 0 for bin, 256 for com
    IOFailures     \* the programs with which creat() and write() may fail

(***************************************************************************)
(* Source lines.                                                           *)
(*   label    L:                     equ    L equ M                        *)
(*   jmp      jmp L                  jcc    jz L (0x70..0x7f)              *)
(*   short    jmp short L, jcxz L, loop L, jz short L                      *)
(*   near     jmp near L, call L     dw     dw L                           *)
(*   ea       mov cx,[bx+L]          imm    add bx,L                       *)
(*   fill     times n nop            pad    times n-($-$$) nop             *)
(*   align    align n                incbin incbin of an n-byte file       *)
(*   org      org n                  bss    section .bss align=1           *)
(*   resb     resb n                                                       *)
(*   if       %if ($-$$)/n, true when $-$$ >= n;  else, endif              *)
(***************************************************************************)
RefOps == {"jmp", "jcc", "short", "near", "dw", "ea", "imm"}
NumOps == {"fill", "pad", "align", "incbin", "org", "resb"}
PreprocOps == {"if", "else", "endif"}

Line == [op : RefOps \cup {"label"}, l : Labels]
        \cup [op : {"equ"}, l : Labels, m : Labels]
        \cup [op : NumOps, n : Nat]
        \cup [op : {"if"}, n : Nat \ {0}]
        \cup [op : {"bss", "else", "endif"}]

Invocation == [source : Seq(Line), opt_level : {0, 1, 9}, origin : {0, 256}]

ASSUME InvocationsAssumption == Invocations \subseteq Invocation

VARIABLES
    source,                 \* the input file (never changes)
    opt_level,              \* -O (never changes)
    phase,                  \* where main() is: see TypeOK
    line,                   \* number of the next line of source
    assembler_pass,
    level, avoid_level,     \* %if nesting of do_assembly()
    is_bss,
    labels,                 \* the label table
    current_address, start_address, default_start_address,
    is_address_used, is_start_address_set, do_special_pass_1,
    wide_blocks,            \* file offsets recorded by add_wide_instr_in_pass_1
    wide_instr_read_at,     \* position of the last one read back
    wide_lines,             \* history: the lines those offsets came from
    have_labels_changed,
    jump_range_bits,        \* bits 1 and 2 of jump_range_bits, as a set
    errors,                 \* kinds of error messages printed so far
    prev_address, delta_acc, delta_acc_max, cur_dir, delta_violation_count,
    emitted,                \* what this pass wrote, or would write, line by line
    bytes,                  \* bytes emitted so far
    output,                 \* the output file
    exit                    \* exit code, or "running"

lineVars == <<level, avoid_level, is_bss>>
addressVars == <<current_address, start_address, default_start_address,
                 is_address_used, is_start_address_set, do_special_pass_1>>
wideVars == <<wide_blocks, wide_instr_read_at, wide_lines>>
deltaVars == <<prev_address, delta_acc, delta_acc_max, cur_dir,
               delta_violation_count>>
fileVars == <<output, exit>>
vars == <<source, opt_level, phase, line, assembler_pass, lineVars, labels,
          addressVars, wideVars, have_labels_changed, jump_range_bits, errors,
          deltaVars, emitted, bytes, fileVars>>

-----------------------------------------------------------------------------
(* Label table and expressions. *)

Undefined(l) == labels[l].state # "live"

\* match_expression() yields 0 for an expression with an undefined label.
Value(l) == IF Undefined(l) THEN 0 ELSE labels[l].value

UndefinedErrors(l) ==
    IF assembler_pass > 1 /\ Undefined(l) THEN {"undefined_label"} ELSE {}

\* The table after create_label(l) with instruction_value = v.
Created(l, v) == [labels EXCEPT ![l] = [state |-> "live", value |-> v]]

\* Faulty variant: the last label of the file decides whether any has changed.
CreateLabelLastWins(l, v) ==
    IF assembler_pass <= 1
    THEN /\ labels' = IF labels[l].state = "live" THEN labels ELSE Created(l, v)
         /\ UNCHANGED have_labels_changed
    ELSE /\ labels' = IF labels[l].state = "none" THEN labels ELSE Created(l, v)
         /\ have_labels_changed' =
               (labels[l].state = "live" /\ labels[l].value # v)

CreateLabel(l, v) ==
    IF assembler_pass <= 1
    THEN /\ IF labels[l].state = "live"
            THEN labels' = labels
            ELSE labels' = Created(l, v)
         /\ UNCHANGED have_labels_changed
    ELSE /\ IF labels[l].state = "none"
            THEN labels' = labels
            ELSE labels' = Created(l, v)
         /\ have_labels_changed' = \/ have_labels_changed
                                   \/ /\ labels[l].state = "live"
                                      /\ labels[l].value # v

CreateErrors(l) ==
    IF assembler_pass <= 1
    THEN IF labels[l].state = "live" THEN {"redefined_label"} ELSE {}
    ELSE IF labels[l].state = "none" THEN {"oops_label_not_found"} ELSE {}

-----------------------------------------------------------------------------
(* Wide instructions: sizes guessed in pass 0 and repeated at -O0 and -O1. *)

Fpos(add) == current_address - start_address + add

AddWide(add) ==
    /\ wide_blocks' = AddEntry(wide_blocks, Fpos(add))
    /\ wide_lines' = wide_lines \cup {line}
    /\ UNCHANGED wide_instr_read_at

WideQuery(add) ==
    LET answer == Query(wide_blocks, wide_instr_read_at, Fpos(add))
    IN  [wide |-> answer.wide,
         read_at |-> answer.read_at,
         errors |-> IF answer.bad_order THEN {"oops_bad_instr_order"} ELSE {}]

Guessed(wide) == [wide |-> wide, read_at |-> wide_instr_read_at, errors |-> {}]
NoGuess == Guessed(FALSE)

\* Is this operand, which refers to l, wide only because pass 0 did not know
\* l?  Pass 0 decides, the later passes ask what it recorded.
Guess(l, add) ==
    IF opt_level > 1 THEN NoGuess
    ELSE IF assembler_pass = 0 THEN Guessed(Undefined(l))
    ELSE WideQuery(add)

RecordGuess(guess, add) ==
    IF assembler_pass = 0 /\ guess.wide
    THEN AddWide(add)
    ELSE /\ wide_instr_read_at' = guess.read_at
         /\ UNCHANGED <<wide_blocks, wide_lines>>

-----------------------------------------------------------------------------
(* Emitting and moving on. *)

Entry(size, to) == [line |-> line, at |-> current_address, size |-> size, to |-> to]

\* emit_bytes(): the address moves in every pass, bytes are written from
\* pass 2 on.
Emit(size, to) ==
    /\ current_address' = current_address + size
    /\ IF assembler_pass > 1
       THEN /\ emitted' = Append(emitted, Entry(size, to))
            /\ bytes' = bytes + size
       ELSE UNCHANGED <<emitted, bytes>>

EmitNothing == UNCHANGED <<current_address, emitted, bytes>>

\* A line that emits no bytes but gives a label its value.
EmitDefinition(to) ==
    /\ IF assembler_pass > 1
       THEN emitted' = Append(emitted, Entry(0, to))
       ELSE UNCHANGED emitted
    /\ UNCHANGED <<current_address, bytes>>

Report(errs) == errors' = errors \cup errs

\* Faulty variant: only the nested blocks of a false branch are skipped.
SkippingDeeper == avoid_level # 0 /\ level > avoid_level

\* %if ... %else: is the line being skipped?
Skipping == avoid_level # 0 /\ level >= avoid_level

AtLine(op) ==
    /\ phase = "assemble"
    /\ line <= Len(source)
    /\ source[line].op = op

\* A line that is not a preprocessor directive, not being skipped.
OnLine(op) == AtLine(op) /\ ~Skipping

\* An instruction or a directive that .bss does not allow.
OnCode(op) == OnLine(op) /\ ~is_bss

NextLine == line' = line + 1 /\ UNCHANGED phase

\* goto close_return: the rest of the file is not read.
AbandonFile == phase' = "assembled" /\ line' = line

unchangedByLine == <<source, opt_level, assembler_pass, deltaVars, fileVars>>

(* Displacements: a jump of the given size at the current address. *)
Displacement(to, size) == to - (current_address + size)
IsInt8(v) == v \in -128..127
NearErrors(disp) ==
    IF assembler_pass > 1 /\ disp \notin -65536..65535
    THEN {"near_jump_too_long"} ELSE {}

\* v + 0x80 & 0xff00, for the 16-bit operands of `ea' and `imm'.
IsInt8In16(v) == (v + 128) % 65536 < 256

\* Bytes that the offset of an effective address takes.
OffsetWidth(v) == IF v % 65536 = 0 THEN 0 ELSE IF IsInt8In16(v) THEN 1 ELSE 2

-----------------------------------------------------------------------------
(* Instructions. *)

unchangedByCode == <<unchangedByLine, lineVars, labels, start_address,
                     default_start_address, is_start_address_set,
                     do_special_pass_1, have_labels_changed>>

\* With an undefined label a jump of pass 0 or 1 goes to itself.
JumpTarget(l) == IF Undefined(l) THEN current_address ELSE Value(l)

\* jmp L, pattern "c EBa" or "b E9b".
Jmp ==
    /\ OnCode("jmp")
    /\ LET l == source[line].l
           guess == Guess(l, 1)
           short == ~guess.wide /\ IsInt8(Displacement(JumpTarget(l), 2))
           errs == guess.errors \cup UndefinedErrors(l)
       IN  /\ IF short
              THEN Emit(2, JumpTarget(l)) /\ Report(errs)
              ELSE /\ Emit(3, Value(l))
                   /\ Report(errs \cup NearErrors(Displacement(Value(l), 3)))
           /\ RecordGuess(guess, 1)
    /\ is_address_used' = TRUE
    /\ NextLine
    /\ UNCHANGED <<unchangedByCode, jump_range_bits>>

\* jz L, pattern "a 74a": 5 bytes (inverse jump over a near jump) when the
\* target is known and out of range.
Jcc ==
    /\ OnCode("jcc")
    /\ LET l == source[line].l
           to == JumpTarget(l)
       IN  IF IsInt8(Displacement(to, 2))
           THEN Emit(2, to) /\ Report(UndefinedErrors(l))
           ELSE Emit(5, to) /\ Report(NearErrors(Displacement(to, 5)))
    /\ is_address_used' = TRUE
    /\ NextLine
    /\ UNCHANGED <<unchangedByCode, jump_range_bits, wideVars>>

\* Faulty variant: a displacement of 127 is taken for too long.
OutOfReachOffByOne(to) == assembler_pass > 1 /\ Displacement(to, 2) \notin -128..126

OutOfReach(to) == assembler_pass > 1 /\ ~IsInt8(Displacement(to, 2))

\* Jumps with no longer form: range errors are reported only once bit 2 of
\* jump_range_bits is set.
ShortJump ==
    /\ OnCode("short")
    /\ LET l == source[line].l
           to == JumpTarget(l)
           far == OutOfReach(to)
       IN  /\ Emit(2, to)
           /\ jump_range_bits' = IF far THEN jump_range_bits \cup {1} ELSE jump_range_bits
           /\ Report(UndefinedErrors(l) \cup
                     IF far /\ 2 \in jump_range_bits
                     THEN {"short_jump_out_of_range"} ELSE {})
    /\ is_address_used' = TRUE
    /\ NextLine
    /\ UNCHANGED <<unchangedByCode, wideVars>>

\* jmp near L and call L, pattern "b".
NearJump ==
    /\ OnCode("near")
    /\ LET l == source[line].l
       IN  /\ Emit(3, Value(l))
           /\ Report(UndefinedErrors(l) \cup NearErrors(Displacement(Value(l), 3)))
    /\ is_address_used' = TRUE
    /\ NextLine
    /\ UNCHANGED <<unchangedByCode, jump_range_bits, wideVars>>

DefineWord ==
    /\ OnCode("dw")
    /\ Emit(2, Value(source[line].l))
    /\ Report(UndefinedErrors(source[line].l))
    /\ NextLine
    /\ UNCHANGED <<unchangedByCode, is_address_used, jump_range_bits, wideVars>>

\* update_need_origin_count(): the size of this operand depends on an origin
\* that this pass has not seen yet.
OriginErrors ==
    IF do_special_pass_1 > 0 /\ assembler_pass > 0 /\ is_start_address_set <= 1
    THEN {"origin_not_yet_defined"} ELSE {}

\* mov cx,[bx+L]: a displacement of 0, 1 or 2 bytes.
EffectiveAddress ==
    /\ OnCode("ea")
    /\ LET l == source[line].l
           guess == Guess(l, 0)
           width == IF guess.wide THEN 2 ELSE OffsetWidth(Value(l))
       IN  /\ Emit(2 + width, Value(l))
           /\ RecordGuess(guess, 0)
           /\ Report(guess.errors \cup UndefinedErrors(l) \cup OriginErrors)
    /\ NextLine
    /\ UNCHANGED <<unchangedByCode, is_address_used, jump_range_bits>>

\* add bx,L: an immediate of 1 byte (sign-extended) or 2.  -O0 always uses 2.
Immediate ==
    /\ OnCode("imm")
    /\ LET l == source[line].l
           guess == IF opt_level = 0 THEN NoGuess ELSE Guess(l, 1)
           byte == opt_level # 0 /\ ~guess.wide /\ IsInt8In16(Value(l))
       IN  /\ Emit(IF byte THEN 3 ELSE 4, Value(l))
           /\ RecordGuess(guess, 1)
           /\ Report(guess.errors \cup UndefinedErrors(l) \cup OriginErrors)
    /\ NextLine
    /\ UNCHANGED <<unchangedByCode, is_address_used, jump_range_bits>>

-----------------------------------------------------------------------------
(* Data and padding. *)

Fill ==
    /\ OnCode("fill")
    /\ Emit(source[line].n, 0)
    /\ NextLine
    /\ UNCHANGED <<unchangedByCode, is_address_used, jump_range_bits, wideVars, errors>>

\* times n-($-$$) nop
Pad ==
    /\ OnCode("pad")
    /\ LET times == source[line].n - (current_address - start_address)
       IN  IF times < 0
           THEN EmitNothing /\ Report({"times_negative"})
           ELSE Emit(times, 0) /\ UNCHANGED errors
    /\ is_address_used' = TRUE
    /\ NextLine
    /\ UNCHANGED <<unchangedByCode, jump_range_bits, wideVars>>

AlignTimes(n) == (n - (current_address % n)) % n

Align ==
    /\ OnCode("align")
    /\ LET n == source[line].n
       IN  IF n = 0
           THEN EmitNothing /\ Report({"align_not_positive"})
           ELSE Emit(AlignTimes(n), 0) /\ UNCHANGED errors
    /\ NextLine
    /\ UNCHANGED <<unchangedByCode, is_address_used, jump_range_bits, wideVars>>

\* The included file is copied even in .bss.
Incbin ==
    /\ OnLine("incbin")
    /\ Emit(source[line].n, 0)
    /\ NextLine
    /\ UNCHANGED <<unchangedByCode, is_address_used, jump_range_bits, wideVars, errors>>

\* A code line in .bss, and RESB outside of it.
MisplacedLine ==
    /\ \/ /\ is_bss
          /\ \E op \in RefOps \cup {"fill", "pad", "align"} : OnLine(op)
          /\ Report({"unsupported_bss_instruction"})
       \/ OnCode("resb") /\ Report({"unknown_instruction"})
    /\ EmitNothing
    /\ NextLine
    /\ UNCHANGED <<unchangedByCode, is_address_used, jump_range_bits, wideVars>>

Resb ==
    /\ OnLine("resb")
    /\ is_bss
    /\ current_address' = current_address + source[line].n
    /\ NextLine
    /\ UNCHANGED <<unchangedByCode, emitted, bytes, is_address_used,
                   jump_range_bits, wideVars, errors>>

-----------------------------------------------------------------------------
(* Labels. *)

unchangedByLabel == <<unchangedByLine, lineVars, start_address,
                      default_start_address, is_address_used,
                      is_start_address_set, do_special_pass_1, wideVars,
                      jump_range_bits>>

LabelLine ==
    /\ OnLine("label")
    /\ LET l == source[line].l
       IN  /\ CreateLabel(l, current_address)
           /\ Report(CreateErrors(l))
    /\ EmitDefinition(current_address)
    /\ NextLine
    /\ UNCHANGED unchangedByLabel

\* L equ M.  An undefined M counts as 0 in passes 0 and 1.
EquLine ==
    /\ OnLine("equ")
    /\ LET l == source[line].l
           m == source[line].m
       IN  /\ CreateLabel(l, Value(m))
           /\ Report(CreateErrors(l) \cup UndefinedErrors(m))
           /\ EmitDefinition(Value(m))
    /\ NextLine
    /\ UNCHANGED unchangedByLabel

-----------------------------------------------------------------------------
(* Directives. *)

unchangedByDirective == <<unchangedByLine, labels, emitted, bytes, wideVars,
                          have_labels_changed, jump_range_bits>>

\* The origin is already known, from the command line or an earlier org.
OrgAgain ==
    /\ OnLine("org")
    /\ is_start_address_set > 0
    /\ is_start_address_set' = IF do_special_pass_1 > 0 /\ assembler_pass > 0
                               THEN 2 ELSE is_start_address_set
    /\ IF source[line].n = default_start_address
       THEN NextLine /\ UNCHANGED errors
       ELSE AbandonFile /\ Report({"origin_redefined"})
    /\ UNCHANGED <<unchangedByDirective, lineVars, current_address,
                   start_address, default_start_address, is_address_used,
                   do_special_pass_1>>

\* The first org of pass 0.  If an address has been used already, all labels
\* are recomputed in a special pass 1.
OrgFirst ==
    /\ OnLine("org")
    /\ is_start_address_set = 0
    /\ is_start_address_set' = 1
    /\ default_start_address' = source[line].n
    /\ IF source[line].n = default_start_address \/ is_address_used
       THEN UNCHANGED <<current_address, start_address>>
       ELSE /\ current_address' = source[line].n
            /\ start_address' = source[line].n
    /\ do_special_pass_1' =
          IF source[line].n # default_start_address /\ is_address_used
          THEN 1 ELSE do_special_pass_1
    /\ NextLine
    /\ UNCHANGED <<unchangedByDirective, lineVars, is_address_used, errors>>

SectionBss ==
    /\ OnLine("bss")
    /\ is_bss' = TRUE
    /\ IF is_bss
       THEN UNCHANGED <<is_address_used, start_address>>
       ELSE is_address_used' = TRUE /\ start_address' = current_address
    /\ NextLine
    /\ UNCHANGED <<unchangedByDirective, level, avoid_level, current_address,
                   default_start_address, is_start_address_set,
                   do_special_pass_1, errors>>

(* Preprocessor conditions, which are read even in skipped lines. *)

unchangedByCondition == <<unchangedByDirective, is_bss, current_address,
                          start_address, default_start_address,
                          is_start_address_set, do_special_pass_1>>

\* %if ($-$$)/n
If ==
    /\ AtLine("if")
    /\ level' = level + 1
    /\ IF avoid_level # 0 /\ level' >= avoid_level
       THEN UNCHANGED <<avoid_level, is_address_used>>
       ELSE /\ avoid_level' = IF current_address - start_address >= source[line].n
                              THEN avoid_level ELSE level'
            /\ is_address_used' = TRUE
    /\ NextLine
    /\ UNCHANGED <<unchangedByCondition, errors>>

Else ==
    /\ AtLine("else")
    /\ IF level = 1
       THEN AbandonFile /\ Report({"else_without_if"}) /\ UNCHANGED avoid_level
       ELSE /\ NextLine
            /\ avoid_level' = IF avoid_level = level THEN 0
                              ELSE IF avoid_level = 0 THEN level ELSE avoid_level
            /\ UNCHANGED errors
    /\ UNCHANGED <<unchangedByCondition, level, is_address_used>>

\* Faulty variant: an unmatched endif is reported, and the file read on.
EndifGoesOn ==
    /\ AtLine("endif")
    /\ level' = level - 1
    /\ avoid_level' = IF avoid_level = level THEN 0 ELSE avoid_level
    /\ Report(IF level = 1 THEN {"endif_without_if"} ELSE {})
    /\ NextLine
    /\ UNCHANGED <<unchangedByCondition, is_address_used>>

Endif ==
    /\ AtLine("endif")
    /\ level' = level - 1
    /\ avoid_level' = IF avoid_level = level THEN 0 ELSE avoid_level
    /\ IF level = 1
       THEN AbandonFile /\ Report({"endif_without_if"})
       ELSE NextLine /\ UNCHANGED errors
    /\ UNCHANGED <<unchangedByCondition, is_address_used>>

\* Faulty variant: a skipped line is not left.
SkipLineAgain ==
    /\ phase = "assemble"
    /\ line <= Len(source)
    /\ source[line].op \notin PreprocOps
    /\ Skipping
    /\ UNCHANGED <<phase, line>>
    /\ UNCHANGED <<unchangedByDirective, lineVars, addressVars, errors>>

SkipLine ==
    /\ phase = "assemble"
    /\ line <= Len(source)
    /\ source[line].op \notin PreprocOps
    /\ Skipping
    /\ NextLine
    /\ UNCHANGED <<unchangedByDirective, lineVars, addressVars, errors>>

EndOfFile ==
    /\ phase = "assemble"
    /\ line > Len(source)
    /\ AbandonFile
    /\ Report(IF level = 1 THEN {} ELSE {"pending_if"})
    /\ UNCHANGED <<unchangedByDirective, lineVars, addressVars>>

-----------------------------------------------------------------------------
(* main(): the passes. *)

\* The start of do_assembly(), in the pass p.
BeginAssembly(p) ==
    /\ phase' = "assemble"
    /\ assembler_pass' = p
    /\ line' = 1
    /\ level' = 1
    /\ avoid_level' = 0
    /\ is_bss' = FALSE
    /\ have_labels_changed' = FALSE
    /\ jump_range_bits' = (jump_range_bits \ {1})
                          \cup (IF opt_level <= 1 THEN {2} ELSE {})
    /\ emitted' = <<>>

\* Faulty variant: the list is read on from where pass 1 left off.
ForgetRewindWide == UNCHANGED wide_instr_read_at

RewindWide == wide_instr_read_at' = NoPosition

ResetAddress ==
    /\ current_address' = default_start_address
    /\ start_address' = default_start_address

\* Faulty variant: the output file of a failed run stays.
RemoveOutputNot ==
    /\ phase' = "done"
    /\ output' = output
    /\ exit' = "1"

\* remove(output_filename); return 1.
RemoveOutput ==
    /\ phase' = "done"
    /\ output' = "absent"
    /\ exit' = "1"

unchangedByMain == <<source, opt_level, default_start_address,
                     is_address_used, wide_blocks, wide_lines, bytes>>

\* goto do_remove after pass 0 or the special pass 1.
FailEarly ==
    /\ phase = "assembled"
    /\ errors # {}
    /\ assembler_pass <= 1
    /\ RemoveOutput
    /\ UNCHANGED <<line, assembler_pass, lineVars, labels, addressVars, wideVars,
                   have_labels_changed, jump_range_bits, errors, deltaVars,
                   emitted, bytes, source, opt_level>>

\* The special pass 1 starts over with the right origin and no labels.
StartSpecialPass ==
    /\ phase = "assembled" /\ errors = {}
    /\ assembler_pass = 0
    /\ do_special_pass_1 = 1
    /\ BeginAssembly(1)
    /\ ResetAddress
    /\ is_start_address_set' = 1
    /\ RewindWide
    /\ labels' = [l \in Labels |->
                    IF labels[l].state = "none" THEN labels[l]
                    ELSE [state |-> "deleted", value |-> labels[l].value]]
    /\ UNCHANGED <<unchangedByMain, do_special_pass_1, errors, deltaVars, fileVars>>

EndOffsetPasses ==
    /\ phase = "assembled" /\ errors = {}
    /\ \/ assembler_pass = 0 /\ do_special_pass_1 = 0
       \/ assembler_pass = 1
    /\ phase' = "reassemble"
    /\ assembler_pass' = 1
    /\ is_start_address_set' = IF assembler_pass = 0 THEN 1 ELSE is_start_address_set
    /\ do_special_pass_1' = 2 * do_special_pass_1
    /\ RewindWide
    /\ delta_violation_count' = 0
    /\ delta_acc' = 0
    /\ delta_acc_max' = 0
    /\ cur_dir' = 1
    /\ UNCHANGED <<unchangedByMain, line, lineVars, labels, current_address,
                   start_address, have_labels_changed, jump_range_bits, errors,
                   prev_address, emitted, fileVars>>

\* assembler_pass is 16 bits wide and stays at its largest value.
MaxPass == 65535

StartPass ==
    /\ phase = "reassemble"
    /\ BeginAssembly(IF assembler_pass = MaxPass THEN MaxPass ELSE assembler_pass + 1)
    /\ do_special_pass_1' = IF assembler_pass = MaxPass THEN 2 ELSE do_special_pass_1
    /\ output' = "partial"
    /\ prev_address' = current_address
    /\ ResetAddress
    /\ UNCHANGED <<unchangedByMain, labels, is_start_address_set,
                   wide_instr_read_at, errors, delta_acc, delta_acc_max, cur_dir,
                   delta_violation_count, exit>>

OpenFails ==
    /\ phase = "reassemble"
    /\ source \in IOFailures
    /\ phase' = "done"
    /\ exit' = "1"
    /\ Report({"could_not_open_output"})
    /\ UNCHANGED <<source, opt_level, line, assembler_pass, lineVars, labels,
                   addressVars, wideVars, have_labels_changed, jump_range_bits,
                   deltaVars, emitted, bytes, output>>

\* emit_flush() cannot write the bytes buffered so far.
WriteFails ==
    /\ phase \in {"assemble", "assembled"}
    /\ \E i \in DOMAIN emitted : emitted[i].size > 0
    /\ source \in IOFailures
    /\ phase' = "done"
    /\ exit' = "3"
    /\ Report({"write_error"})
    /\ UNCHANGED <<source, opt_level, line, assembler_pass, lineVars, labels,
                   addressVars, wideVars, have_labels_changed, jump_range_bits,
                   deltaVars, emitted, bytes, output>>

Delta == current_address - prev_address
DeltaDir == IF Delta = 0 THEN 0 ELSE IF Delta < 0 THEN -1 ELSE 1
AbsDelta == IF Delta < 0 THEN -Delta ELSE Delta

\* Faulty variant: a turn counts only if something was added since the last one.
CountDeltaViolationsAbove ==
    /\ UNCHANGED prev_address
    /\ cur_dir' = IF DeltaDir = 0 THEN cur_dir ELSE DeltaDir
    /\ delta_acc' = IF DeltaDir = cur_dir THEN delta_acc + AbsDelta ELSE delta_acc
    /\ LET turned == DeltaDir \notin {0, cur_dir}
           record == turned /\ delta_acc > delta_acc_max
       IN  /\ delta_acc_max' = IF record THEN delta_acc ELSE delta_acc_max
           /\ delta_violation_count' = IF DeltaDir = 0 \/ record
                                       THEN delta_violation_count + 1
                                       ELSE delta_violation_count

\* Heuristics against endless changes, -O9 only.  delta_acc is not set back at a
\* turn, although the comment at 3858 sums up each run of one sign alone.
CountDeltaViolations ==
    /\ UNCHANGED prev_address
    /\ cur_dir' = IF DeltaDir = 0 THEN cur_dir ELSE DeltaDir
    /\ delta_acc' = IF DeltaDir = cur_dir THEN delta_acc + AbsDelta ELSE delta_acc
    /\ LET turned == DeltaDir \notin {0, cur_dir}
           record == turned /\ delta_acc >= delta_acc_max
       IN  /\ delta_acc_max' = IF record THEN delta_acc ELSE delta_acc_max
           /\ delta_violation_count' = IF DeltaDir = 0 \/ record
                                       THEN delta_violation_count + 1
                                       ELSE delta_violation_count

\* Faulty variant: range errors are reported although labels still move.
RangeReportAtOnce == jump_range_bits = {1}

\* The range errors of short jumps wait for a pass without label changes.
RangeReportDue == ~have_labels_changed /\ jump_range_bits = {1}

\* One more pass is an error at -O0 and -O1, and the seventh violation at -O9.
AgainErrors ==
    IF opt_level <= 1 THEN {"oops_labels_changed"}
    ELSE IF delta_violation_count' = 7 THEN {"could_not_stabilize"} ELSE {}

\* The end of a pass that generated code.  `again' asks for one more pass.
EndPass ==
    /\ phase = "assembled"
    /\ assembler_pass > 1
    /\ LET report == RangeReportDue
           again == have_labels_changed \/ report
           errs == errors \cup IF again THEN AgainErrors ELSE {}
       IN  /\ have_labels_changed' = again
           /\ jump_range_bits' = IF report THEN {2} ELSE jump_range_bits
           /\ IF again /\ opt_level > 1
              THEN CountDeltaViolations
              ELSE UNCHANGED deltaVars
           /\ errors' = errs
           /\ \/ errs # {} /\ RemoveOutput
              \/ errs = {} /\ again
                 /\ phase' = "reassemble" /\ output' = "complete" /\ UNCHANGED exit
              \/ errs = {} /\ ~again
                 /\ phase' = "done" /\ output' = "complete" /\ exit' = "0"
    /\ UNCHANGED <<unchangedByMain, line, assembler_pass, lineVars, labels,
                   current_address, start_address, is_start_address_set,
                   do_special_pass_1, wide_instr_read_at, emitted>>

Done == phase = "done" /\ UNCHANGED vars

-----------------------------------------------------------------------------

Init ==
    /\ \E i \in Invocations :
          source = i.source /\ opt_level = i.opt_level /\ default_start_address = i.origin
    /\ phase = "assemble"
    /\ line = 1
    /\ assembler_pass = 0
    /\ level = 1
    /\ avoid_level = 0
    /\ is_bss = FALSE
    /\ labels = [l \in Labels |-> [state |-> "none", value |-> 0]]
    /\ current_address = default_start_address
    /\ start_address = default_start_address
    /\ is_address_used = FALSE
    /\ is_start_address_set = IF default_start_address = 0 THEN 0 ELSE 1
    /\ do_special_pass_1 = 0
    /\ wide_blocks = <<>>
    /\ wide_instr_read_at = NoPosition
    /\ wide_lines = {}
    /\ have_labels_changed = FALSE
    /\ jump_range_bits = IF opt_level <= 1 THEN {2} ELSE {}
    /\ errors = {}
    /\ prev_address = 0
    /\ delta_acc = 0
    /\ delta_acc_max = 0
    /\ cur_dir = 1
    /\ delta_violation_count = 0
    /\ emitted = <<>>
    /\ bytes = 0
    /\ output = "stale"
    /\ exit = "running"

Code == \/ Jmp \/ Jcc \/ ShortJump \/ NearJump
        \/ DefineWord \/ EffectiveAddress \/ Immediate
        \/ Fill \/ Pad \/ Align \/ Incbin \/ MisplacedLine \/ Resb
Directive == \/ LabelLine \/ EquLine \/ OrgAgain \/ OrgFirst \/ SectionBss
             \/ If \/ Else \/ Endif
AssembleLine == Code \/ Directive \/ SkipLine \/ EndOfFile
MainStep == \/ FailEarly \/ StartSpecialPass \/ EndOffsetPasses
            \/ StartPass \/ EndPass
Failure == OpenFails \/ WriteFails

Next == AssembleLine \/ MainStep \/ Failure \/ Done

\* The program never blocks and never waits: as long as it can take a step of
\* its own, it takes one.
Spec == Init /\ [][Next]_vars /\ WF_vars(AssembleLine \/ MainStep)

-----------------------------------------------------------------------------
(* Properties. *)

EntrySet == [line : Nat \ {0}, at : Int, size : Nat, to : Int]
LabelSet == [state : {"none", "live", "deleted"}, value : Int]

SourceTyped == source \in Seq(Line) /\ opt_level \in {0, 1, 9}
MainTyped ==
    /\ phase \in {"assemble", "assembled", "reassemble", "done"}
    /\ line \in Nat \ {0}
    /\ assembler_pass \in Nat /\ assembler_pass <= MaxPass
    /\ have_labels_changed \in BOOLEAN
    /\ jump_range_bits \subseteq {1, 2}
    /\ output \in {"stale", "absent", "partial", "complete"}
    /\ exit \in {"running", "0", "1", "3"}
NestingTyped == level \in Nat /\ avoid_level \in Nat /\ is_bss \in BOOLEAN
LabelsTyped == labels \in [Labels -> LabelSet]
AddressTyped ==
    /\ current_address \in Int /\ start_address \in Int
    /\ default_start_address \in Nat
    /\ is_address_used \in BOOLEAN
    /\ is_start_address_set \in 0..2 /\ do_special_pass_1 \in 0..2
WideTyped ==
    /\ wide_blocks \in Blocks /\ wide_instr_read_at \in Position
    /\ wide_lines \subseteq Nat
DeltaTyped ==
    /\ prev_address \in Int /\ delta_acc \in Nat /\ delta_acc_max \in Nat
    /\ cur_dir \in {-1, 1} /\ delta_violation_count \in Nat
EmittedTyped == emitted \in Seq(EntrySet) /\ bytes \in Nat

\* Every variable has a value of its kind.
TypeOK == /\ SourceTyped /\ MainTyped /\ NestingTyped /\ LabelsTyped
          /\ AddressTyped /\ WideTyped /\ DeltaTyped /\ EmittedTyped

\* An emitted line agrees with the label table: the value it was encoded from,
\* or gave to its label, is the one in the table, ...
Holds(l, v) == labels[l].state = "live" /\ labels[l].value = v
LabelsAgree(e) ==
    /\ source[e.line].op \in RefOps \cup {"label", "equ"} => Holds(source[e.line].l, e.to)
    /\ source[e.line].op = "equ" => Holds(source[e.line].m, e.to)

\* ... and a short displacement fits.
ShortFits(e) ==
    source[e.line].op \in {"jmp", "jcc", "short"} /\ e.size = 2 =>
        IsInt8(e.to - (e.at + 2))

\* When mininasm reports success, every jump, address and immediate in the
\* output was encoded from the final value of its label, although forward
\* references are encoded before the label is reached and labels move from
\* pass to pass.
OutputResolved == exit = "0" => 
    \A i \in DOMAIN emitted : LabelsAgree(emitted[i]) /\ ShortFits(emitted[i])

=============================================================================

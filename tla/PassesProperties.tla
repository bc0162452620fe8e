--------------------------- MODULE PassesProperties ---------------------------
(***************************************************************************)
(* Properties of the passes that are model-checked, and the refinement of  *)
(* Assembler by Passes.                                                    *)
(***************************************************************************)
EXTENDS Passes

\* Exit code 0 comes with a complete output file and no message; after any
\* other error the file is removed, also a stale one of an earlier run; only
\* I/O failures leave an unfinished file.
ExitCodeTellsOutput ==
    /\ exit = "0" => output = "complete" /\ errors = {}
    /\ exit = "1" => \/ output = "absent" /\ errors # {}
                     \/ "could_not_open_output" \in errors
    /\ exit = "3" => output = "partial"

(***************************************************************************)
(* The wide instructions of pass 0, in the later passes.                   *)
(***************************************************************************)
Entries(blocks) ==
    {at \in [block : DOMAIN blocks, index : 1..BlockSize] :
        at.index \in DOMAIN blocks[at.block]}

IsBefore(p, q) == p.block < q.block \/ (p.block = q.block /\ p.index < q.index)

Growing(blocks) ==
    \A p, q \in Entries(blocks) :
        IsBefore(p, q) => Offset(blocks, p) < Offset(blocks, q)

OffsetsGrow == Growing(wide_blocks)

\* Is this offset in the list?
IsIn(fpos, blocks) == \E p \in Entries(blocks) : Offset(blocks, p) = fpos

IsRecorded(fpos) == IsIn(fpos, wide_blocks)

\* Is the emitted line e as wide as its offset, recorded or not, and its operand
\* make it?
WidthIsRight(e) ==
    LET op == source[e.line].op
        recorded == IsRecorded(e.at - default_start_address + (IF op = "ea" THEN 0 ELSE 1))
    IN  /\ op = "jmp" => (e.size = 3 <=> recorded \/ ~IsInt8(e.to - (e.at + 2)))
        /\ op = "ea" => e.size = 2 + (IF recorded THEN 2 ELSE OffsetWidth(e.to))
        /\ op = "imm" => (e.size = 4 <=> \/ opt_level = 0
                                         \/ recorded
                                         \/ ~IsInt8In16(e.to))

\* At -O0 and -O1 an instruction of a later pass that prints no error is wide if
\* pass 0 recorded one at its offset, and otherwise only if its operand needs it.
\* Excepted are lists whose offsets do not grow, after a late org.
WideRepeats ==
    opt_level <= 1 /\ errors = {} /\ OffsetsGrow =>
        \A i \in DOMAIN emitted : WidthIsRight(emitted[i])

LongJcc == \E i \in DOMAIN emitted : source[emitted[i].line].op = "jcc" /\ emitted[i].size = 5

\* What the comments at is_wide_instr_in_pass_2 and add_wide_instr_in_pass_1
\* promise: the offsets asked for increase in step with the ones recorded, even
\* before org.  Excepted are programs in which a conditional jump takes its long
\* form, which pass 0 could not know.
NoBadInstrOrder == "oops_bad_instr_order" \in errors => LongJcc

\* An org line after others, which starts the addresses over; or, when the
\* special pass 1 does that, a line whose size went by the wrong addresses in
\* pass 0.
OriginComesLate ==
    /\ \E i \in DOMAIN source : source[i].op = "org" /\ source[1].op # "org"
    /\ \/ do_special_pass_1 = 0
       \/ \E i \in 1..line-1 : source[i].op = "align"
       \/ \E i \in (1..line-1) \ wide_lines : source[i].op \in {"ea", "imm"}

\* The wide instructions are read back in the order recorded, unless a later
\* line of the pass is moved by something pass 0 could not know: a long
\* conditional jump, a label whose value has changed since, or an org line
\* after code.  None is passed over in a program without conditions, in which
\* the passes read the same lines.
ReadsInOrder ==
    /\ "oops_bad_instr_order" \in errors =>
          LongJcc \/ have_labels_changed \/ OriginComesLate
    /\ opt_level <= 1 /\ errors = {} /\ ~have_labels_changed /\ ~OriginComesLate
       /\ (\A i \in DOMAIN source : source[i].op # "if") =>
          \A i \in DOMAIN emitted :
              LET e == emitted[i]
                  op == source[e.line].op
              IN  e.line \in wide_lines =>
                      /\ op = "jmp" => e.size = 3
                      /\ op \in {"ea", "imm"} => e.size = 4

\* The extra pass that reports range errors at -O9 finds the layout of the
\* pass before it.
ReportPassIsStable ==
    2 \in jump_range_bits /\ phase = "assembled" /\ errors \subseteq {"short_jump_out_of_range"}
    => ~have_labels_changed /\ current_address = prev_address

\* At -O9 the range error is reported only when the layout is final and the
\* jump is out of range in it; earlier passes may see it out of range.
RangeErrorIsReal ==
    opt_level = 9 =>
        /\ ReportPassIsStable
        /\ exit = "1" /\ "short_jump_out_of_range" \in errors =>
              \E i \in DOMAIN emitted :
                  LET e == emitted[i]
                      item == source[e.line]
                  IN  item.op = "short" /\ ~IsInt8(labels[item.l].value - (e.at + 2))

(***************************************************************************)
(* Each turn from growing to shrinking or back is a violation, whatever    *)
(* came before, so that seven turns end the program.  The code departs     *)
(* here from the comment at 3858, by which each run of passes of one       *)
(* direction is summed up alone and counts only if it is not below the     *)
(* largest so far: a layout that grows once and then swings by less for    *)
(* ever would then not be stopped, against 3865.  In the code delta_acc    *)
(* goes on from turn to turn, and is never below delta_acc_max.            *)
(***************************************************************************)
EveryTurnIsCounted ==
    [][cur_dir' # cur_dir => delta_violation_count' = delta_violation_count + 1]_vars

\* The passes implement an assembler.
Abs == INSTANCE Assembler WITH
    result <- CASE exit = "running" -> "working"
                [] exit = "0" -> "assembled"
                [] exit = "1" /\ "could_not_open_output" \notin errors -> "rejected"
                [] OTHER -> "io_failure",
    file <- IF exit = "0" \/ (exit = "1" /\ "could_not_open_output" \notin errors)
            THEN output ELSE "any",
    table <- IF exit = "0"
             THEN [l \in {k \in Labels : labels[k].state = "live"} |-> labels[l].value]
             ELSE [l \in {} |-> 0],
    assembly <- IF exit = "0" THEN emitted ELSE <<>>
ImplementsAssembler == Abs!Spec

\* Every run of the program ends.
Terminates == Abs!Answers

=============================================================================

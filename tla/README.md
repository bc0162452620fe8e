# A TLA+ model of mininasm

mininasm assembles 8086 source text into a raw binary. All of it is one C
program, `src/mininasm.c`: single-threaded, with no input but its command line
and files. What makes it hard is not concurrency but *repetition*: the source
is read again and again, each pass works with the label values of the pass
before, and a pass is accepted as the last one by a few flags that are set and
cleared in many places. The modules here model that, and say what it must
guarantee.

## The system

| Component | Source (`src/mininasm.c`) | State | Operations |
|---|---|---|---|
| Pass loop | `main` from 3779 | `assembler_pass`, `do_special_pass_1`, `have_labels_changed`, `jump_range_bits`, `errors`, the delta counters, the output file | pass 0, special pass 1, code passes, stop or go on, remove the output |
| Line handlers | `do_assembly` from 3164, `process_instruction`, `match`, `match_addressing` | `current_address`, `start_address`, `default_start_address`, `is_address_used`, `is_start_address_set`, `level`, `avoid_level`, `is_bss` | one per directive and per kind of operand whose size depends on a label |
| Labels | `create_label`, `match_expression` | value and deleted bit of each label | define, redefine, use, delete all |
| Wide instruction list | 1720-1814 | offsets recorded in pass 0 and a read cursor | add, query |
| Instruction encoder | `process_instruction`, `match`, `match_addressing`, `instruction_set` | `instruction_*`, the variables that a matched operand sets | match an alternative, encode it |
| Label tree | 771-1105 | red-black tree, threaded during a traversal | insert, find, traverse |
| Macros | 2810-2990 | two labels per macro, `has_macros` | `%define`, `%assign`, `%undef`, `-D`, reset between passes |
| Line reader | 3062-3150 | `line_buf`, `linep`, `line_rend`, `discarded_after_read` | read more, shorten, next line |
| Include stack | 2761-2826, 3578-3590 | `assembly_stack`, `assembly_p` | push, pop, re-open and seek |
| Command line | `main` from 3687 | options, file names | one argument |
| Expressions | 1275-1640 | own stack of values and operators | evaluate |
| Output, messages | 1928-1990, 2516-2600, `bbprintf.c` | `emit_buf`, `message_buf`, `listing_fd` | append, start and end a message, flush |

The pass loop calls `do_assembly` once per pass; that reads lines through the
line reader and the include stack and hands each to a handler, which evaluates
expressions over the labels, may ask the wide list for a size guessed earlier,
defines labels and emits bytes. The handlers talk back to the pass loop only
through global variables: a label that moved sets `have_labels_changed`, a
short jump out of range sets bit 1 of `jump_range_bits`, a first `org` after a
use of the address sets `do_special_pass_1`, a message increments `errors`.

What is hard:

* a forward reference is encoded before its label is reached, from the value of
  an earlier pass; the program may only stop when that value was final;
* sizes depend on displacements and displacements on sizes, so a label may move
  in every pass, and for ever; `-O9` stops it by counting violations;
* `-O0` and `-O1` make two passes only: what pass 0 guessed must be repeated
  exactly, from a list read in step with a pass that may go astray;
* a short jump that is out of range in one pass may be in range in the next, so
  that its error must wait, and be true when it comes;
* the origin may become known only after addresses have been used;
* `%if` may depend on an address, so that the passes may read different lines;
* an instruction is matched by trying alternatives, and what a failed one has left in
  the variables stays there;
* listing, messages and included binary files share one buffer, which is flushed to
  one or two files, or to none;
* whatever fails, and whenever, no wrong output file may be left behind.

There are no threads, callbacks across components (other than flushing a full
buffer), messages or restarts. I/O failures are the only events from outside.

## Modules

| Module | What it is |
|---|---|
| `Passes` | The detailed model: pass loop, line handlers, labels, wide list |
| `Assembler` | The abstract specification: what an assembler promises, with no passes |
| `PassesProperties` | Model-checked properties of `Passes`, and the refinement mapping to `Assembler` |
| `MCPasses` | The bounded sets of source programs, one per question |
| `LabelTree` | The label tree, a loop round per step: insertion, search, listing, reset of macros |
| `LabelStore` | Its abstract specification: a set of names, one step per operation |
| `LabelTreeProperties` | Properties of the tree, and its refinement of `LabelStore` |
| `Macros` | Macros with their labels, over the passes; uses `LabelStore` for the tree |
| `MacrosProperties`, `MCMacros` | One reading of the source without passes and the properties that compare each pass with it; bounded source programs |
| `LineReader` | The buffer in which `do_assembly` finds lines, and resuming a file behind `%include` |
| `LineReaderProperties`, `MCLineReader` | The lines of a whole file, and the properties that compare; bounded files |
| `Expression` | `match_expression`: the evaluation of an expression in one scan with an explicit stack |
| `ExpressionProperties`, `MCExpression` | The grammar, the documented forms of literals, and the properties that compare; bounded texts |
| `WideList` | The list of wide instructions, in blocks; used by `Passes` and `Instructions` |
| `InstructionSet` | The table of instructions: patterns and encodes |
| `Instructions` | `process_instruction` and `match`: a line is matched, encoded and its size guessed, in pass 0 and in a later pass |
| `Decoder` | The opcode map of the processor, from code to instruction: the reference for `InstructionSet` |
| `InstructionsProperties`, `MCInstructions` | What a line says, and the properties that compare code and text; bounded programs |
| `IncludeStack` | The memory of the include stack |
| `Streams` | The two buffers, and the three files they are written to |
| `Session` | A run as a whole: arguments, files, passes, output, listing and messages; uses the two above |
| `SessionProperties`, `MCSession` | The expanded text, the arguments as a whole, and the properties that compare; bounded sessions |
| `PassesProofs`, `AssemblerProofs` | Theorems about `Passes` for all constants, proved with TLAPS; that it implements `Assembler` |
| `LabelTreeProofs`, `MacrosProofs`, `LineReaderProofs`, `ExpressionProofs`, `SessionProofs` | The theorems about the other components, each in the module behind its properties |
| `Induction` | Lemmas on induction over numbers and subsets, folds and powers of two that these proofs share |

### Passes

A source program is a sequence of abstract lines. A line has an operation and
what the operation's size and effects depend on: a label, two labels (`equ`), or
a number. Text, registers and byte values are left out; sizes, displacements
and label values are the real ones. Of the instruction set there is one
operation for each way a size or a message can depend on a label (every instruction is in
`Instructions`): `jmp` (2 or
3 bytes), `jcc` (2 or 5), `short` (always 2, with a range error), `near` (3),
`dw`, `ea` (an effective address with an offset of 0, 1 or 2 bytes), `imm` (a
sign-extended immediate of 1 or 2 bytes). An instruction of fixed size behaves
like `fill`. `pad` is `times n-($-$$) nop` and fails when the code before it has
outgrown n; `if` is `%if ($-$$)/n`, the shortest condition on the address.

Each handler is an action; it fires for the line `line` when its op is that
line's. The pass loop's steps are the actions `FailEarly`, `StartSpecialPass`,
`EndOffsetPasses`, `StartPass` and `EndPass`; `OpenFails` and `WriteFails` are
the environment's. The correspondence of state:

| Model | Code |
|---|---|
| `phase` | where `main` is: inside `do_assembly` ("assemble"), behind its return ("assembled"), at the head of the do loop ("reassemble"), "done" |
| `labels[l].state` | not in the tree ("none"), in it ("live"), with its deleted bit ("deleted") |
| `errors` | the kinds of message printed; the code counts them, and tests only for 0 |
| `wide_blocks`, `wide_instr_read_at` | the blocks, each a sequence; the pointer as a block and an index in it, NULL as 0 and 0 |
| `jump_range_bits` | the set of the bits that are set |
| `emitted` | what the pass wrote: line, address, size, and the label value it was encoded from; label definitions have size 0 |
| `output` | the output file: left from earlier ("stale"), opened in this run ("partial"), written ("complete"), "absent" |
| `wide_lines` | history only: which lines `wide_blocks` came from |

`assembler_pass` is a 16-bit counter that stays at its largest value
(`MaxPass`). Values and addresses are unbounded integers: the programs
considered stay far below the 32 bits of the code's `value_t`. An output file
name is always given. The operators marked *Faulty variant* are not part of the
model: each is a plausible mistake in the definition it stands next to, and
serves to show that a property would notice it.

### Assembler

An assembler *produces* an assembly, *rejects* the source, or gives up on an I/O
failure. An assembly is a table of label values and a list of lines with their
addresses and sizes; it is `Correct` when reading the source *once*, with that
table, yields exactly those lines, each encoded in a form that can hold the
final value of its label, each label at its address, each `%if` branch the one
its condition selects at that address. Rejecting removes the file. `Assembler`
knows nothing of passes, guesses or flags; it does not require the shortest
encoding, only one that is right. It also does not require that a label of the
table be defined by a line of the assembly: a label in a branch that is taken in
an earlier pass only keeps its last value, and references to it are accepted by
the code.

`Passes` implements it (`ImplementsAssembler`): while `exit` is "running" it is
"working", and with exit code 0 the live part of `labels` is the table and
`emitted` the assembly.

### LabelTree

Labels and macros share one binary tree, ordered by `strcmp`; a macro's name is
the label's with `~` in front. In the model names are numbers in that order. The
nodes' fields are the functions `left`, `right`, `red`, `deleted`; for a macro
node, `kind` is the `value` field (`MACRO_CMDLINE`, `MACRO_SELF`, `MACRO_VALUE`).
`define_label` goes down recording `path` (`Descend`) and up again, turning and
colouring (`FixLeft`, `FixRight`, one round of the `while` per `Ascend`). Both
traversals are the same loop, written twice in the code; the model has it once, with
`task` telling which one it is. A traversal threads the tree: the rightmost node
under the left child points back to the node. `reset_macros` searches for labels
in that state, so `Search` and the steps of a traversal work on the same fields.
`StartTraversal` has the guard `ValuesDefined`, because `set_macro` defines the
macro and then its label before anything else happens. Callers may define any
name that is not there, delete and undelete macros and the labels they use, in any
order. Memory always suffices: `fatal_out_of_memory` ends the program.

### Macros

A macro `X` with a value is two nodes: `~X`, whose value tells how it was defined
(`kind`), and a label `X` with the integer (`value`). `%undef` and `reset_macros`
set deleted bits and never remove a node, so that what a name meant in the last
pass is still there in the next. `SetValue`, `SetSelf`, `UnsetMacro` and `CreateLabel`
are `set_macro`, `unset_macro` and `create_label` with their error exits in the
code's order; the reset is `DeletedByReset` of `LabelStore`, which `LabelTree`
implements with its traversal. Label values do not move here (that is the subject
of `Passes`): every label has the value `LabelValue`, different from any macro's.
The pass loop makes the special pass or not, and any number of passes up to
`LastPass`; three are enough, since passes after pass 2 all begin with the same
reset. `seen` records what each `%ifdef` and each use of a name saw.

`MacrosProperties` defines `Reading`: one walk over the source with a scope and a
stack of branches, in place of deleted bits, `level` and `avoid_level`.

### LineReader

A file is a sequence of classes of bytes: ordinary, quote, semicolon, white space,
newline, NUL. `line_buf` holds the bytes up to `line_rend`; `line`, `linep` and `p` are
indexes into it. `pc` tells which part of the loop of 3065 comes next: the search for
a newline ("find_eol"), `read_more` ("read"), the scan ("scan", one token per step),
or the work on a line ("line"). Behind a line the code either goes on, or, if it is an
`%include`, closes the file, and later opens it again and seeks to `ResumeOffset`.
`delivered` records the lines handed on. There is one kind of quote where the
code has two. `read()` may fail; it returns as much as it can, or less if `ShortReads`.

`LineReaderProperties` defines the lines of the whole file with no buffer: where
each line starts, where its code ends, and its text with white space collapsed.

### Expression

A text is a sequence of tokens, separated by spaces: operators, parentheses,
literals with their characters, character constants, `$`, `$$`, labels, and "register"
for a name that is none of these. `p` counts tokens; `column` is not 0 if a literal was
left in the middle. `match_stack` has the code's items, with a name in place of
`casei`: the operator, a sign, or "(" with the number of parentheses still `open`
(negative `casei`). `level` says from which rank on operators may follow; `rank` is the
one of the six loops behind `have_value1` that is running. The jump from `do_pop` into
the middle of such a loop is `ApplyOperator`, which sets `rank`. Each token is one step;
`Literal` reads the characters of a literal as the code does, including where it starts
again in base 16. Arithmetic is modulo 2^`Bits`. Signed division of the smallest value by
-1 is undefined in C; it gives a value in builds with `value_div`, and traps
(`DivisionTraps`) in builds that use the x86 instruction.

`ExpressionProperties` defines `Readings`: the derivations of a text in a grammar with
seven levels, one recursive function from the number of tokens, with their values and flaws.

`IsDefineValue` is `is_define_value`, which decides whether a text may be the value of a
macro before it is evaluated; it reads the same literals once more, in its own way.

### WideList

`wide_blocks` is a sequence of blocks of at most `BlockSize` offsets (128 in the code, 2
in the runs), of which only the last is not full. A position is a block and an index. At
the end of a full last block `wide_instr_add_at` is behind it, and there is no next block
yet: `Behind` tells that end from the end of a block with a successor. `Query` is
`is_wide_instr_in_pass_2`: its answer, the new position, and its message.

### Instructions

A line is a sequence of tokens: names, sizes, registers, numbers and effective
addresses, which are one token with segment, registers and value. The table is that of
the code, row by row; a pattern is a sequence of its letters, and an encode a sequence of
bytes, modrm bytes and letters. `Encode` turns the binary encodes (`dxxxd`, `drd`, `xxxxxr`)
into bytes with the register and the addressing bits. Each step of a line is one action
or token: `NextLine` takes up a line, `Separate` a name, which may be a prefix or have no
row, and `Match` one letter of a pattern. `instruction` has the variables that a match
sets (`instruction_value`, `_offset`, `_addressing`, `_register`, `_segment`,
`instruction_offset_width` as `width`, `has_undefined`, `was_strict`). They are not reset
when an alternative fails, except for the two that the code resets; `trial` has what
`match()` keeps for one call. A program is assembled twice, in pass 0 and in pass 2, which stands
for the last one; between them only the wide list survives. A label has the same value
in both, but a `forward` one is unknown in pass 0: labels that move are in `Passes`.

`Decoder` reads the code as a processor does, by its opcode: it was laid out from the
map of the 8086 and 186 and shares nothing with the table. `InstructionsProperties`
compares what it finds with the tokens of the line, up to the synonyms of names (`Synonym`), operands
that may be exchanged (`xchg`, `test`) and what `-OL` does with `lea` and, unintended, with `bound`.
`IsInstruction` says independently which tokens are an instruction at all.

The model was compared with a built mininasm on all single lines of the run and some 700
programs of two to four lines, each under the seven settings, 16947 in all: code and
messages were the same.

White space is left out: `add [si] , word 1` is refused, because 2071 looks for the
comma right behind the bracket, and `add [si],word 1` is not; the model has the second.
Text behind a prefix that does not begin like a name is ignored without a message
(`rep ,movsb`), also in the model.

### IncludeStack, Streams, Session

`IncludeStack` is the memory `assembly_stack`, a cell for each field of an entry and each
character of a name. Entries have no links: `EntryBelow` walks back over the padding, the
name and the field `zero` before it. `Streams` is `emit_buf` and `message_buf` and what is
in the output file, the listing and stderr; its operators take and return that state, so
that a handler can emit, list and report in one step in the code's order. Both are used by
`Session`: `main` with its arguments, and `do_assembly` with its files, over all passes. What
a line assembles to is only a number of bytes here, and whether labels have changed is left
open, up to `MaxPass`. `next` is the offset in a file, counted in half lines: an odd one is
the newline of a line already read (see `include_numbers`). `whole` tells whether files are
short enough to be read at once, which makes that happen. A disk is full from some line on
(`DiskFull`), for either file or both.

Three assumptions say what the program can count on. `assembly_stack` is an array
of structures, so that its size is a multiple of their alignment (`StackAssumption`).
Each text that is appended at once is one unit or two, and fits in `message_buf`
(`BuffersAssumption`); the code checks for that nowhere. And no file has an empty name
(`SessionsAssumption`): `open("")` fails. An empty name can be *asked for*, by an argument or by
an `%include`; it stands on the stack without a character, where the walk back over
NULs would run past it, and only the failing `open` keeps that from happening.

`SessionProperties` defines `Expansion`, the lines of all files with `%include` replaced by
the file's, as what they emit and print, and `OptionsOf`, the meaning of the arguments as a whole.

## Runs

| Run | Instance | Shows |
|---|---|---|
| `passes` | labels A and B. At `-O9`: all programs of 6 lines out of 7 that define A and B once; jumps pushed out of range by other jumps growing. At `-O0` and `-O9`: any nesting of `%if`/`%else`/`%endif` in 5 lines; two branches chosen by the address, with labels, fills and alignment in them; layouts that swing for ever. At `-O0`, `-O1` and `-O9`: all 6-line programs of jumps, effective addresses and immediates around 126 bytes; and, with both `-f` formats, a late or repeated `org`, `.bss`, `resb`, `incbin`; I/O failures | what is accepted is a correct assembly, also when passes read different lines; `short jump is out of range` is reported only in a pass that repeats the layout before it and then is true (`RangeErrorIsReal`); at `-O0` and `-O1` an instruction of a later pass is wide if its offset was recorded or its operand needs it, and not otherwise (`WideRepeats`); in programs without `%if`, moved labels or a late origin, these are exactly the lines that were wide in pass 0 (`ReadsInOrder`); exit code, file and messages agree; each turn of the layout is counted, also where the comment has it otherwise (see below); every run ends |
| `late_org` | a first `org` after code | violates `NoBadInstrOrder`, which only this run checks; see below |
| `tree` | up to 10 labels in every order of insertion, with listings; 3 labels and 2 macros with all traversals | the tree stays sorted and balanced, searches are right, and the path needs two entries per doubling of the nodes, as its declaration has it; listing and reset do what `LabelStore` does in one step, also the searches in the threaded tree; all operations end |
| `macros` | all programs of up to 5 lines that define (as integer or itself), assign, undefine, label and use one name; conditions nested, unbalanced and with `%else`; values passed between two names; any `-D` of either name | every pass sees what one reading sees and takes the same branches; until an error is printed, `-D` macros keep their values; if macros and labels have different names, as the README demands, passes after the first print no new error |
| `undef` | the programs about one name | violates `LabelsSurvive`, see below |
| `lines` | files of up to 5 or 6 pieces of one to three bytes, a buffer of 6 bytes, lines below 3, reads of any size, any line an `%include` | the lines found are those of the file, none split, joined, lost or repeated; "line too long" is said of lines that are, give or take a byte; reading ends |
| `expression` | values of 8 bits, a stack of 9 items, 2 parentheses per item. All texts of up to 3 tokens, all pairs of operators, parentheses and signs in up to 6 tokens, all ranks at once, literals of up to 5 characters, values for `%define` | end, value, messages and flags of every text are those of the grammar; only nesting makes the stack deep; literals have the values of their documented forms; `%define` takes those literals (`DefineValuesAreLiterals`, with exceptions, see below) |
| `session` | any 3 of 19 arguments, 5 out of 5 with values; a main file that includes one or two others, nested and twice, with blocks, labels, errors and binary files on both sides; buffers of 3 units, a stack of 32 cells, aligned or not; a full disk from any line on | each pass assembles, lists and reports the expanded text, in order and with the right numbers; after success both files are complete and of the last pass, and stderr is empty; after failure stderr has whole messages and nothing of the listing; arguments mean what they say as a whole; a file that includes itself ends in an error |
| `instructions` | every mnemonic; some 1700 lines of up to three operands of all kinds, known and unknown; all sequences of three of 18 lines that leave something behind, and of four with two far jumps in front; 7 settings of `-O`, `-OL`, `-OG`, `-OI` and CPU; blocks of 2 offsets | the code of every accepted line, read by a processor, is what the line says, except for `bound` with `-OL` (see below); what is accepted and refused depends on the operands alone; at `-O0` and `-O1` each instruction is as long in the last pass as in pass 0, up to the first far forward conditional jump; the wide list is in order, with two exceptions (see below) |
| `division` | signed division, all pairs of operators | violates `DivisionIsDefined`, see below |
| `last_line` | the files of `lines` without quotes, full reads, no `%include` | violates `LastLineIsFound`, see below |
| `include_numbers` | files with pieces of every kind, any line an `%include` | violates `NumbersAreRight`, see below |

The bounds of `passes` are chosen at the thresholds: fills of 122 to 127
bytes put a jump with others in between just within or just out of reach of 8 bits,
so that growing happens in 2 to 4 further passes; two labels give every relation of a
reference to its label (forward, backward, around the other). A 16-byte alignment and
a 200-byte fill make conditions flip between passes; `-O9` runs there until the
seventh violation. Origins are 0 and 256, equal to and different from both defaults.
Programs with `equ` have five lines (`EquPrograms`), enough for a definition between
a use and the label it refers to, with code before and between them.

What the passes at `-O0` and `-O1` may rely on is less than one would think, and the
conditions of `WideRepeats` and `ReadsInOrder` say what. Reading the same offset again
is not reading the same line again: a `%if` on an address may flip between pass 0 and
the last pass, so that another instruction, or none, is found at a recorded offset. A
first `org` after code starts the offsets over (`late_org`); if it comes after `align` or
after instructions that looked at an address, the special pass 1 gives them other sizes.
And a label defined by `equ` from one that moves changes in the last pass, which prints
"oops: labels changed". What holds in all these cases, as long as the recorded offsets
grow, is that the cursor loses no entry: an offset is answered with "wide" if and only
if it is in the list.

Ten nodes are enough for every case of an insertion at depth up to 4, and for
rotations that pass a red node up two levels. With three labels and two macros the trees
have a label to the left, to the right and above the node whose macro is
visited; `ImplementsStore` breaks at once if `~` came before letters, which is what
the comment at 1054 says. Since `~` is last, labels are visited before macros, and a
search that starts at a macro has only threads behind it that it never meets: the
stop at 1039 is not needed in the trees of this run.

A buffer of 6 bytes, twice the largest line as in the code, is filled by 6 pieces
with every kind of byte on either side of its end; files of up to 15 bytes are read
into it several times. The three passes of `macros` are enough, since each pass after
pass 2 begins with the same reset. The two of `instructions` are, since no more than the
list goes from pass to pass.

Eight bits are enough to tell signed from unsigned division and shifts in reach from
others; the stack of 9 items is reached by all six ranks, a sign and parentheses.
A stack of 32 cells holds up to four files with names of one and three characters, and a text of
two units, one behind the other, takes every position in a buffer of three.
In `instructions`, values lie on both sides of -128, 127, 0 and 65535; blocks of two
offsets are filled by one instruction.

`Terminates`, and the liveness half of `Assembler`, assume weak fairness of the
program's own steps: it is one process that never waits. Nothing is assumed of
`OpenFails` and `WriteFails`. `Ends` assumes the same of `Reader`, not of
`ReadFails`, and `SessionEnds` of all but `CreateFails` and `DiskFull`. `OperationsEnd`
assumes weak fairness of `Step`, the rounds of the loop
that has begun; callers need not call. Deadlock is checked in every run (`Done` is
the only stuttering state).

### Where the code and its comments disagree

Five of these are violated by a run of their own:

* `late_org`: the comments of `add_wide_instr_in_pass_1` and
  `is_wide_instr_in_pass_2` (1740, 1770, 1775) call `current_address -
  start_address` an increasing output offset, "valid even before org". A first
  `org` after code calls `reset_address`, and the offset starts over: mininasm
  then fails with "oops: bad instr order" at `-O0` and `-O1`.
* `division`: `0x80000000 // -1` and `%% -1` end mininasm by a signal where the build
  uses the machine's division (1240, 1514), against "deterministic behavior" in the
  README; the portable `value_div` is defined for it, as its comment says.
* `undef`: after `%define X 5`, `%undef X`, `X:` the label is deleted before each
  pass as if it still held the macro's value (2857), although `create_label`
  says it expects labels of that name (2728): an earlier use of X is undefined.
* `last_line`: if the last `read()` fills the buffer exactly, a last line without a
  newline is dropped in silence (3090); in all other cases a newline is put behind it.
* `include_numbers`: the newline put behind the end of the file is counted as a byte of
  it in `(linep - line_rend) - discarded_after_read` (3576), so that behind an
  `%include` the file resumes one byte early, at an empty line. The lines are right
  (`ResumesBetweenLines`), their numbers one too large, against `test/INCLUDE.LST`.

Two are stated by properties of passing runs, which say what the code does:

* `EveryTurnIsCounted` (`passes`): the comment at 3858-3863 sums up each run of
  passes that grow, or that shrink, alone, and counts it as a violation only if it is
  not below the largest so far. The code never sets `delta_acc` back (3879-3886), so it
  is never below `delta_acc_max`, and each turn counts. The comment's rule would
  not do: a layout that grows by 300 bytes and then shrinks and grows by 200 for
  ever (`SwingingPrograms`) has one violation by it, and would never be given up,
  against the guarantee at 3865. The price is that a layout whose swings get smaller
  is given up after seven turns, although it might settle.
* `CodeIsRight` (`instructions`): `bound` has the pattern letter `o` of `lea` (3944), so
  that `-OL` and `-OA`, said to be for `lea` (README 326), apply to it: `bound ax,[si]` becomes
  `mov ax,si`, `bound ax,[1000]` becomes `mov ax,1000`, and `bound ax,[es:di+5]` loses
  its segment (2061, 2331-2354). A build of mininasm does the same. The property states
  this as what happens to `bound` (`IsTakenForLea`), and not as a case left open.

Seen while modelling, and not kept as runs: a far forward conditional jump makes
`-O0` fail with "oops: labels changed", since pass 0 takes it as 2 bytes (2394) and
not as the longest form that the comment at 616 promises, often after "oops: bad
instr order", since what stands behind it is asked for at other offsets (`HasGrown` in
`OrderIsKept` and `SizesAgree`); "PROGRAM BYTES" in the listing (3902) prints a
counter that adds up all code passes; and a line of exactly the size that the README allows is refused if its comment or trailing white space
crosses the end of the buffer (3073, 3119), because the byte that stands for what was
cut counts: `TooLongIsNearlyTrue` bounds that error. A literal `12b` is accepted with the
value 2, since the scan for binary digits takes 2 as one (1428), and `17O` is refused
(1395) although the line before expects an O. A sign in front of a parenthesis takes an
item of the stack, though the README does not count unary operators.

`%define X 5h+2` and `%define X 'a'+2` are accepted, and X becomes 7 and 99, although the
README (266) says that a macro value must be an integer literal: `is_define_value`
returns as soon as it has seen the quote (1667) or the suffix (1672) and looks at
nothing behind it. `DefineValuesAreLiterals` states the rule with that exception
(`EndsUnchecked`). At `-O0` `push byte foo`
reaches the code for an immediate behind a memory operand, for which 2215 assumes "m,s" or "m,u",
and looks at `instruction_addressing` (2206). Before the first operand of a pass, that is
what the last instruction of the pass before has left: `push byte foo`, `mov [bx],ax`,
`mov ax,bx`, `foo equ 5` records the push in pass 0, does not ask for it in pass 2, and
fails with "oops: bad instr order". `OrderIsKept` excepts this case alone (`IsStalePush`). The
message about a listing that cannot be opened names the output file (3824).

## Proofs

TLC checks the instances above; the theorems here hold for every value of the
constants that the named assumptions admit: any source programs, any labels, any
buffer sizes, any files. Each is an induction over steps. The invariant that is
inductive was checked by TLC on the instance of the run before it was proved, and
there is one lemma per action. `Spec` is used for its `Init` and `Next` only; the
theorems need no fairness.

| Module | Theorem | Property | Says |
|---|---|---|---|
| `PassesProofs` | `TypeCorrect` | `TypeOK` | types, and the bounds of the counters |
| | `OutputIsResolved` | `OutputResolved` | exit code 0: each operand has its label's final value, each short jump fits |
| | `ExitCodeIsRight` | `ExitCodeTellsOutput` | exit code, output file and messages agree, whatever fails |
| | `TurnsAreCounted` | `EveryTurnIsCounted` | each change of direction is a violation |
| | `WideIsRepeated` | `WideRepeats` | wide exactly if recorded or needed, if the offsets grow |
| | `RecordedOffsetsGrow` | | they grow if `org`, where there is one, is the first line |
| | `RangeErrorsAreReal` | `RangeErrorIsReal` | what is reported as out of range is so in the final layout |
| `AssemblerProofs` | `PassesImplementAssembler` | `ImplementsAssembler` | the passes refine `Assembler` |
| `MacrosProofs` | `MacrosTyped` | `TypeOK` | types |
| | `PassesReadTheSame` | `PassesAgree` | each pass sees what one reading sees |
| | `PassZeroFindsErrors` | `LaterPassesAccept` | later passes add only "undefined label" |
| | `ArgumentsStay` | `CommandLineKept` | `-D` macros are back in each pass and keep their values |
| `LabelTreeProofs` | `LabelTreeTyped` | `TypeOK` | links and positions are nodes |
| | `TreeIsRedBlack` | `RedBlackTree` | sorted, balanced, leaning left, without threads |
| | `TreeSearchFinds` | `SearchFinds` | searches are right, also in a threaded tree |
| | `TreePathFits` | `PathFits` | the path fits in its array |
| | `TreeImplementsStore` | `ImplementsStore` | the tree refines `LabelStore` |
| `LineReaderProofs` | `ReaderTyped` | `TypeOK` | indexes stay in the buffer, the offset in the file |
| | `ReaderResumes` | `ResumesBetweenLines` | a file is resumed between two lines |
| `ExpressionProofs` | `LevelsAlwaysGrow` | `LevelsGrow` | what waits on the stack waits in the order of ranks |
| | `FlatTextFits` | | without parentheses, eight items are enough for any text |
| | `ExpressionTyped` | `TypeOK` | each value fits its width, the last place of the stack stays free |
| | `ExpressionsAreRight` | `ResultIsRight` | one scan reads what the grammar derives, and as much of it as there is |
| `SessionProofs` | `ErrorsAreAlwaysTold` | `ErrorsAreTold` | stderr has whole messages, and one exactly after an error |
| | `SessionTyped` | `TypeOK` | the include stack stays in its memory, buffers are never too full |
| | `ArgumentsAreUnderstood` | `ArgumentsAreRight` | arguments read one by one mean what they say as a whole |
| | `IncluderIsFound` | | the walk back from an entry finds the includer's |

### Passes

* **Types.** They are not inductive alone: that
  `avoid_level` and `level` stay natural numbers needs that a file is not read
  past an unmatched `%endif`, that `emitted` is read safely needs that its
  entries name lines of the source. `Control` states what the control flow
  guarantees, and `TInv == TypeOK /\ Control` is inductive.
* **Operands.** `OutputResolved` speaks of the end only; the invariant behind it,
  `Resolving`, must hold in the middle of a pass, where the table is partly of
  this pass and partly of the one before. It says that *unless* an error has been
  printed or `have_labels_changed` is set, each emitted line agrees with the
  table as it is now (`EmittedAgree`) and each short jump fits or has set bit 1
  of `jump_range_bits` (`EmittedFit`, `RangeReported`). A label definition
  either leaves the value in the table alone, or sets `have_labels_changed`, or
  concerns a label undefined so far, to which no emitted line can refer without
  an error: that is the central step (`LabelLineStep`, `EquLineStep`). The last
  pass ends with neither flag nor error, hence the theorem.
* **The whole output.** `Assembler` reads the source once, by a recursive function.
  `IsReading(t, ...)` says that `t` is the sequence of its states, and `RInv` adds
  `ReadSoFar` to the invariant: in a pass that is clean so far, such a `t` exists for the lines
  before `line`, with the *present* table and the *present* `emitted`, and its last state is that of
  the pass (`Now`: address, nesting, `.bss`). A step must both extend `t` by its own line
  (one lemma per action, against `Abs!ReadLine`) and keep the old part a reading
  although table and list have grown (`ReadingExtended`), which is where
  the flags come in once more: without a flag the table only gains labels. `OriginKnown`
  and `OriginPossible` say where the addresses start. `ReadingComputed` connects
  `t` with the recursive definition.
* **The wide list.** `WInv` says that all blocks but the last are full, that the cursor
  is an entry of the list (`ListKept`), and that offsets count from an origin which
  no later line changes (`OffsetsFromOrigin`); then a query is right for *any* position of the
  cursor that the rewind rule allows, and `WideRepeats` follows line by line. `GInv` is for pass
  0: what is recorded lies below the current address (`RecordedBelow`), hence new entries
  are larger. It needs that `org` is not still to come (`OriginAwaited`).
* **Range errors.** The pass that reports a short jump is compared with the pass before it, which
  has left nothing but its last address. At `-O9` this is enough, because a pass that changes no label and prints
  nothing is a function of the label table alone: a *layout* gives the place before each line (address,
  nesting, `.bss`), each line is one that such a pass `Accepts`, and `After` gives the next place. `Traced` says that the
  lines read so far have a layout, while no flag is set; at the end of such a pass it is one of all lines. A
  pass that may report begins only with no flag set and the table unchanged, and so repeats that layout line by line
  (`Repeated`; `GoesAgain` is the step). Hence its `have_labels_changed` stays FALSE, it ends at the same address, and a jump
  it reports is too far in the layout itself (`ShortIsFar`). `FarInv` is the invariant.
* **Turns.** Whatever the comment at 3858 says, a turn is counted because `delta_acc` is never below `delta_acc_max`
  (`TurnInv`), so that the test of the code at a turn is always true.

### Macros

`Reading` is one walk over the source. `MInv` relates the state at `line` to
`Reading[line - 1]` (`Follows`): nesting (`NestedAs`), macros (`MacroAgrees`),
labels (`LabelAgrees`). Labels are where passes differ: the first two passes know
the labels met so far; later ones may know any that the reading *ever* meets. That the
deleted bits at the start of a pass are right needs what a pass that has ended without error
has established, which is a fact about all lines, not the state: `PassZeroKnows` keeps it (`Accepted` of
every line, all its labels in the tree). `LabelsStay` and `UndefinedOnly` add that with
separate names no reset deletes a label.

### Label tree

Nodes have links only, so the proofs carry two functions that the code does not
have: `S`, the names below a node, and `B`, the number of black nodes below
it. `IsTree` and `EvenTree` say that they fit the links. On the way up of an insertion the tree is
not linked: the new subtree hangs at no node yet. `Climbing` is stated about
the links `L` and `R` *as they will be* when the next round has linked it, and allows
two red nodes in a row only there. The rotations and the change of colours are lemmas
about any functions `L`, `R` (`TurnsRight`, `TurnsLeft`, `Splits`). The
path is short because at each of its nodes `k - 1 <= 2 * (B[root] - B[node])`
(`Descending`), and a tree has at least `2^B[root] - 1` names.

A traversal is proved against a tree `br` that it does not change: `right` differs from `br` only in threads
from the last node of a left subtree to the node `Above` it (`Threaded`), exactly those above the present node
(`Reached`), and the names visited are those before it (`Walking`, `Visiting`). `Seeking` says that
a search keeps the name below `explore`, and that threads lead out of the tree only by
way of `milestone`, where the loop stops. With this, `TreeImplementsStore` maps the last
step of each operation to the operation of `LabelStore`, all others to stuttering.

### Line reader

A newline put behind the end of the file is in the buffer and not in the file. `ReaderInv`
therefore says that for an `end` of 0 or 1 the buffer has bytes that stand before
`offset` (`Fits`), and each *newline* in it is the one of the file at that distance (`Aligned`; other
bytes are moved by the cutting of comments and white space). `Waiting` says that nothing is cut
before a newline that has not been delivered. From it, `ResumeOffset` lies
behind a newline of the file, or one byte before that (`include_numbers`).

### Expression

`WaitInv` says that the levels of the stack items grow between parentheses, and that when
a value is awaited the signs before it are all read, so that no sign is put on top of
another. Levels are below 7 and each rank has one level, whence `FlatTextFits`.

`Typed` adds what the operators and the literals leave in the variables: a lemma each for
the operators (`ApplyIs`), literals (`LiteralIs`), character constants and runs of signs. Division and the
bitwise operators stay within 2^`Bits` without being reduced to it, which is why they
need one: a quotient is at most the dividend, a sum of different powers of two below 2^`Bits` is less
than it. `Number`, `Signs` and `Bitwise` are folds, each unfolded as described under induction over data.

The result is right by three invariants, of which each needs the one above to start from.

* `Walks`: whether an operand is next and how many parentheses are open is what a run over the tokens
  says that knows no ranks (`TokenStep`); the items on the stack say how many (`Depths`). Every
  expression of the grammar is covered by that run (`RunCovers`, by induction on its length). So where
  the scan gives up no expression goes on, and one that ended before has an operator behind it:
  the scan took it, or would have.
* `Means`: each item stands for a part of a derivation (`Stands`): parentheses to close; a
  sign that turns every reading of what follows into one of the whole; an operator whose left side has been
  read. `Marks` says where the tokens of each begin and what was wrong with those before. A value
  in hand is a reading of the tokens behind the last mark, both at the rank of the loop that runs and at the level of
  the top, which is what lets the scan go on with either. Signs that share an item
  are unfolded one by one (`SignsMean`).
* `OpsTaken`: an operator in front is for a loop that is running, or binds less than what waits; at the end
  of the scan nothing waits, so that there is none. `UsedRight` is the same kind of
  statement about the flags of addresses.

All four speak of scans that have read each literal as a whole; once one has not been, this is never made up for
(`WholeBefore`). The result is one of the readings that the grammar has; that it has no other
one of the same tokens is not claimed.

### Session

`TellInv`: between operations `message_buf` holds the listing, never a message; the flag for
errors and the contents of stderr agree; and the listing is closed only when no pass follows, since a
message printed later would otherwise not find its way (`Quiet`, `Keeps`, `Told` say what each
operation of `Streams` does).
`PlaceInv` has the include stack, as a set `B` of entries with name lengths `len` that lie one
behind the other up to `assembly_p` (`IsStack`). All but the one being opened have a name that is not empty; so the
walk back over NULs, which knows neither `B` nor `len`, ends at the last character of a name, and the walk
over that name at the field `zero` before it. Messages of any length fit because each text is started in
an empty or a flushed buffer (`Fits`).

For the arguments, `ArgumentsRead` says that the options are those of the arguments before the next one
(`OptionsTo`, which is `OptionsOf` at the end), and that these were all well-formed (`Right`). That the next one is not the value of
the flag before it is the point: `IsValue` counts a run of flags back to its beginning, and
`ValuesFollowFlags` shows that it alternates, as the reading does.

### What the attempts showed

Three properties that TLC had accepted were false in general, and were restated, after the
proof showed what was missing and TLC had found an instance:

* `CommandLineKept` held for all errors. After one in pass 0 an `%ifdef` may go another way
  and define a label with the name of a `-D` macro. It now speaks of the time before errors.
* `WideRepeats` said that each line that was wide is wide again. If an `%if` flips, or a late
  `org` comes before an `align`, it need not be. It now speaks of offsets, and what is left of the old form is in
  `ReadsInOrder`, with its conditions.
* `ArgumentsAreRight` recognised a refused command line by an empty `input_filename`; so
  ends a run as well in which an `%include` has an empty name.

Others needed an assumption that the code justifies and the model had left open: that
texts, literals and character constants are sequences, the last ones of bytes
(`SourcesAssumption` of `Expression`), and the three above of `Session`.

### Induction over data

The induction theorems of the library take an operator as a parameter, which
the provers cannot instantiate. `Induction` states what is needed with sets
instead: a set of numbers that has 0 and with each number the next is everything
up to `n` (`UpTo`), and a set that is not empty has a smallest element (`Smallest`). A recursive function is unfolded from its
definition by `CHOOSE`, after a function that satisfies the equation has been shown
to exist. This is how `Abs!Reading`, `Reading` of `Macros` and the sets of the tree are reasoned
about. For the folds of the libraries, which take elements out of a set one by one, `FoldExists`
gives that function and `EverySubset` the induction; the choice of the elements and the
operation are functions there. What 2^k is follows from the number of subsets (`PowersDouble`).

### Only model-checked

* Liveness: `Terminates`, `Ends`, `SessionEnds`, `OperationsEnd`; fairness and ENABLED are out
  of the prover's reach.
* Of `Passes`: `ReadsInOrder`. It compares a pass at `-O0` or `-O1` with pass 0, whose lines are no longer
  in the state and, unlike those of a pass at `-O9`, are not a function of the table at its end.
* `LinesAreRight` and `TooLongIsNearlyTrue`: the lines with their white space and
  comments, through the recursive scan of the whole file.
* Of `Expression`: `LiteralsAreRight`, `DefineValuesAreLiterals`, which compare scans over the
  characters of a literal with the documented forms of numbers.
* Of `Session`: `PassFollowsText`, `FilesAreComplete`. They compare with
  recursive definitions over the text, several at once.
* All of `Instructions`: each property is about the contents of the whole instruction
  table, of which TLC tries every mnemonic.

## Not modelled

Inside the components modelled:

* the directives `db`, `bits` and `absolute`, `times` in front of an instruction
  with a label, and two label operands in one instruction: `db` and `times` add lines
  of the kinds that `Passes` has, `bits` accepts 16 only, `absolute $` does what
  `section .bss` does without a new origin;
* `cpu` between lines: `Instructions` has the level as a constant of each program;
* the text of local label names (`Session` has their scope, not how the name is put together), warnings,
  and the content of listing rows: nothing that is decided depends on them;
* `casematch` and `match_label_prefix`, the scanning of characters in names, and
  how `message_start` and `bbprintf` format numbers: data, not control.

Whole parts:

* the configuration macros at the head of `mininasm.c`, and the variants they choose:
  packed far pointers, the label tree without balancing, the heap of the DOS build;
* `bbprintf.c`, the libc replacements and the start-up code of the platforms:
  sequential, local, and in part assembly;
* `tinasm.c`, mininasm's ancestor, which is not part of the program;
* the build and test scripts.

## Plan

Done: `Passes` with `Assembler` and their proofs; `LabelTree` against `LabelStore`;
`Macros`; `LineReader`; `Expression`; `WideList`, which `Passes` and `Instructions` use; `IncludeStack` and
`Streams`, composed in `Session`; `InstructionSet`, `Decoder` and `Instructions`. The
counter of delta violations is part of `Passes`.

Left, in this order:

1. `ReadsInOrder`: with the offsets of pass 0 kept as history.
2. `absolute` and `cpu` between lines, and instructions with two labels.

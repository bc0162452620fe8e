---------------------------- MODULE PassesProofs ----------------------------
(***************************************************************************)
(* Proofs about Passes, for every set of labels, programs, optimisation    *)
(* levels and origins.                                                     *)
(***************************************************************************)
EXTENDS PassesProperties, TLAPS

\* The fields of a source line.
LEMMA LineFields ==
    ASSUME NEW item \in Line
    PROVE  /\ item.op \in RefOps \cup {"label", "equ"} => item.l \in Labels
           /\ item.op = "equ" => item.m \in Labels
           /\ item.op \in NumOps \cup {"if"} => item.n \in Nat
BY DEF Line, RefOps, NumOps

LEMMA NoPositionTyped == NoPosition \in Position
BY DEF NoPosition, At, Position

LEMMA PassLimit == MaxPass \in Nat /\ MaxPass > 1
BY DEF MaxPass

\* Where main() is, and what follows from it.
Control ==
    /\ phase = "done" <=> exit # "running"
    /\ phase = "assemble" => level > 0
    /\ phase \in {"assemble", "assembled"} /\ assembler_pass <= 1 =>
          do_special_pass_1 <= 1
    /\ phase = "reassemble" => assembler_pass > 0
    /\ assembler_pass <= 1 => emitted = <<>>
    /\ \A i \in DOMAIN emitted : emitted[i].line \in DOMAIN source

TInv == TypeOK /\ Control


LEMMA EmitTyped ==
    ASSUME AddressTyped, EmittedTyped, line \in Nat \ {0},
           NEW size \in Nat, NEW to \in Int, Emit(size, to)
    PROVE  current_address' \in Int /\ EmittedTyped'
<1>1. Entry(size, to) \in EntrySet
  BY DEF Entry, EntrySet, AddressTyped
<1>2. current_address' \in Int
  BY DEF Emit, AddressTyped
<1>3. CASE assembler_pass > 1
  BY <1>1, <1>3 DEF Emit, EmittedTyped
<1>4. CASE ~(assembler_pass > 1)
  BY <1>4 DEF Emit, EmittedTyped
<1>5. QED
  BY <1>2, <1>3, <1>4

LEMMA ValueInt ==
    ASSUME LabelsTyped, AddressTyped, NEW l \in Labels
    PROVE  Value(l) \in Int /\ JumpTarget(l) \in Int
<1>1. labels[l].value \in Int
  BY DEF LabelsTyped, LabelSet
<1>2. QED
  BY <1>1 DEF Value, JumpTarget, AddressTyped

-----------------------------------------------------------------------------
(* What the lines of code have in common. *)

\* The new line agrees with the table unless it printed a message, or asked
\* for a range report.
NewLineAgrees(size, to) ==
    assembler_pass > 1 /\ errors' = {} =>
        /\ LabelsAgree(Entry(size, to))
        /\ 1 \notin jump_range_bits' => ShortFits(Entry(size, to))

EmitsLine == \E size \in Nat, to \in Int : Emit(size, to) /\ NewLineAgrees(size, to)

SameLineState ==
    /\ UNCHANGED <<source, opt_level, assembler_pass, prev_address, delta_acc,
                   delta_acc_max, cur_dir, delta_violation_count, output, exit>>
    /\ phase = "assemble"
    /\ errors \subseteq errors'

CodeFrame ==
    /\ SameLineState
    /\ UNCHANGED <<phase, level, avoid_level, is_bss, labels, start_address,
                   default_start_address, is_start_address_set,
                   do_special_pass_1, have_labels_changed>>
    /\ line \in DOMAIN source /\ line' = line + 1
    /\ is_address_used' \in BOOLEAN
    /\ jump_range_bits \subseteq jump_range_bits'
    /\ jump_range_bits' \subseteq {1, 2}
    /\ 1 \in jump_range_bits' /\ 2 \in jump_range_bits' /\ errors' = {} =>
          1 \in jump_range_bits /\ 2 \in jump_range_bits
    /\ WideTyped'

LEMMA LineInSource ==
    ASSUME TypeOK, line <= Len(source)
    PROVE  line \in DOMAIN source /\ source[line] \in Line
BY DEF TypeOK, SourceTyped, MainTyped

LEMMA AddTyped ==
    ASSUME NEW blocks \in Blocks, NEW fpos \in Int
    PROVE  AddEntry(blocks, fpos) \in Blocks
<1>1. CASE BlockIsFull(blocks)
  BY <1>1 DEF AddEntry, Blocks
<1>2. CASE ~BlockIsFull(blocks)
  <2>1. Len(blocks) \in DOMAIN blocks
    BY <1>2 DEF BlockIsFull, Blocks
  <2>2. Append(blocks[Len(blocks)], fpos) \in Seq(Int)
    BY <2>1 DEF Blocks
  <2>3. QED
    BY <1>2, <2>1, <2>2 DEF AddEntry, Blocks
<1>3. QED
  BY <1>1, <1>2

LEMMA QueryTyped ==
    ASSUME NEW blocks \in Blocks, NEW at \in Position, NEW fpos \in Int
    PROVE  /\ Query(blocks, at, fpos).wide \in BOOLEAN
           /\ Query(blocks, at, fpos).read_at \in Position
<1>1. Behind(blocks, at) \in Position
  BY BlockAssumption DEF Behind, Position, At, NoPosition
<1>2. QED
  BY <1>1 DEF Query

LEMMA GuessTyped ==
    ASSUME TypeOK, NEW l \in Labels, NEW add \in 0..1
    PROVE  /\ Guess(l, add).wide \in BOOLEAN
           /\ Guess(l, add).read_at \in Position
           /\ NoGuess.read_at \in Position
<1>1. wide_instr_read_at \in Position /\ wide_blocks \in Blocks /\ Fpos(add) \in Int
  BY DEF TypeOK, WideTyped, AddressTyped, Fpos
<1>2. ASSUME NEW wide \in BOOLEAN
      PROVE  /\ Guessed(wide).wide \in BOOLEAN
             /\ Guessed(wide).read_at \in Position
  BY <1>1 DEF Guessed
<1>3. /\ WideQuery(add).wide \in BOOLEAN
      /\ WideQuery(add).read_at \in Position
  BY <1>1, QueryTyped DEF WideQuery
<1>4. Undefined(l) \in BOOLEAN
  BY DEF Undefined
<1>5. QED
  BY <1>2, <1>3, <1>4 DEF Guess, NoGuess

LEMMA RecordTyped ==
    ASSUME TypeOK, NEW guess, NEW add \in 0..1, RecordGuess(guess, add),
           guess.read_at \in Position
    PROVE  WideTyped'
<1>1. Fpos(add) \in Int /\ line \in Nat
  BY DEF Fpos, TypeOK, AddressTyped, MainTyped
<1>2. WideTyped
  BY DEF TypeOK
<1>3. CASE AddWide(add)
  BY <1>1, <1>2, <1>3, AddTyped DEF AddWide, WideTyped
<1>4. CASE wide_instr_read_at' = guess.read_at /\ UNCHANGED <<wide_blocks, wide_lines>>
  BY <1>2, <1>4 DEF WideTyped
<1>5. QED
  BY <1>3, <1>4, Zenon DEF RecordGuess

\* A reference that prints no message is to a live label.
LEMMA Referenced ==
    ASSUME NEW l \in Labels, assembler_pass > 1, UndefinedErrors(l) = {}
    PROVE  Holds(l, Value(l)) /\ JumpTarget(l) = Value(l)
BY DEF UndefinedErrors, Undefined, Value, JumpTarget, Holds

LEMMA JmpStep ==
    ASSUME TypeOK, Jmp
    PROVE  CodeFrame /\ EmitsLine
<1> DEFINE l == source[line].l
           guess == Guess(l, 1)
           short == ~guess.wide /\ IsInt8(Displacement(JumpTarget(l), 2))
<1>1. /\ line \in DOMAIN source /\ l \in Labels /\ source[line].op = "jmp"
      /\ phase = "assemble"
  BY LineInSource, LineFields DEF Jmp, OnCode, OnLine, AtLine, RefOps
<1>2. guess.read_at \in Position
  BY <1>1, GuessTyped
<1>3. WideTyped'
  <2>1. RecordGuess(guess, 1)
    BY DEF Jmp
  <2>2. QED
    BY <1>2, <2>1, RecordTyped
<1>4. /\ UndefinedErrors(l) \subseteq errors' /\ errors \subseteq errors'
      /\ short => Emit(2, JumpTarget(l))
      /\ ~short => Emit(3, Value(l))
  BY DEF Jmp, Report
<1>5. Value(l) \in Int /\ JumpTarget(l) \in Int
  BY <1>1, ValueInt DEF TypeOK
<1>6. CodeFrame
  BY <1>1, <1>3, <1>4
     DEF CodeFrame, SameLineState, Jmp, NextLine, unchangedByCode, unchangedByLine,
         deltaVars, fileVars, lineVars, TypeOK, MainTyped
<1>7. CASE short
  <2>1. NewLineAgrees(2, JumpTarget(l))
    BY <1>1, <1>4, <1>5, <1>7, Referenced
       DEF NewLineAgrees, LabelsAgree, ShortFits, Entry, Displacement, RefOps,
           TypeOK, AddressTyped
  <2>2. QED
    BY <1>4, <1>5, <1>6, <1>7, <2>1 DEF EmitsLine
<1>8. CASE ~short
  <2>1. NewLineAgrees(3, Value(l))
    BY <1>1, <1>4, <1>5, Referenced
       DEF NewLineAgrees, LabelsAgree, ShortFits, Entry, RefOps
  <2>2. QED
    BY <1>4, <1>5, <1>6, <1>8, <2>1 DEF EmitsLine
<1>9. QED
  BY <1>7, <1>8

LEMMA JccStep ==
    ASSUME TypeOK, Jcc
    PROVE  CodeFrame /\ EmitsLine
<1> DEFINE l == source[line].l
           to == JumpTarget(l)
           short == IsInt8(Displacement(to, 2))
<1>1. /\ line \in DOMAIN source /\ l \in Labels /\ source[line].op = "jcc"
      /\ phase = "assemble"
  BY LineInSource, LineFields DEF Jcc, OnCode, OnLine, AtLine, RefOps
<1>2. /\ errors \subseteq errors'
      /\ short => Emit(2, to) /\ UndefinedErrors(l) \subseteq errors'
      /\ ~short => Emit(5, to)
  BY DEF Jcc, Report
<1>3. to \in Int
  BY <1>1, ValueInt DEF TypeOK
<1>4. WideTyped'
  BY DEF Jcc, wideVars, WideTyped, TypeOK
<1>5. CodeFrame
  BY <1>1, <1>2, <1>4
     DEF CodeFrame, SameLineState, Jcc, NextLine, unchangedByCode, unchangedByLine,
         deltaVars, fileVars, lineVars, TypeOK, MainTyped
<1>6. CASE short
  <2>1. NewLineAgrees(2, to)
    BY <1>1, <1>2, <1>3, <1>6, Referenced
       DEF NewLineAgrees, LabelsAgree, ShortFits, Entry, Displacement, RefOps,
           TypeOK, AddressTyped
  <2>2. QED
    BY <1>2, <1>3, <1>5, <1>6, <2>1 DEF EmitsLine
<1>7. CASE ~short
  <2>1. ~Undefined(l) /\ to = Value(l)
    BY <1>7 DEF JumpTarget, Displacement, IsInt8, TypeOK, AddressTyped
  <2>2. NewLineAgrees(5, to)
    BY <1>1, <2>1
       DEF NewLineAgrees, LabelsAgree, ShortFits, Entry, RefOps, Holds, Undefined, Value
  <2>3. QED
    BY <1>2, <1>3, <1>5, <1>7, <2>2 DEF EmitsLine
<1>8. QED
  BY <1>6, <1>7

LEMMA ShortJumpStep ==
    ASSUME TypeOK, ShortJump
    PROVE  CodeFrame /\ EmitsLine
<1> DEFINE l == source[line].l
           to == JumpTarget(l)
           far == OutOfReach(to)
<1>1. /\ line \in DOMAIN source /\ l \in Labels /\ source[line].op = "short"
      /\ phase = "assemble"
  BY LineInSource, LineFields DEF ShortJump, OnCode, OnLine, AtLine, RefOps
<1>2. /\ UndefinedErrors(l) \subseteq errors' /\ errors \subseteq errors'
      /\ far /\ 2 \in jump_range_bits => errors' # {}
      /\ jump_range_bits' = IF far THEN jump_range_bits \cup {1} ELSE jump_range_bits
      /\ Emit(2, to)
  BY DEF ShortJump, Report
<1>3. to \in Int
  BY <1>1, ValueInt DEF TypeOK
<1>4. WideTyped'
  BY DEF ShortJump, wideVars, WideTyped, TypeOK
<1>5. /\ jump_range_bits \subseteq jump_range_bits'
      /\ jump_range_bits' \subseteq {1, 2}
      /\ 1 \in jump_range_bits' /\ 2 \in jump_range_bits' /\ errors' = {} =>
            1 \in jump_range_bits /\ 2 \in jump_range_bits
  BY <1>2 DEF TypeOK, MainTyped
<1>6. CodeFrame
  BY <1>1, <1>2, <1>4, <1>5
     DEF CodeFrame, SameLineState, ShortJump, NextLine, unchangedByCode, unchangedByLine,
         deltaVars, fileVars, lineVars
<1>7. NewLineAgrees(2, to)
  <2>1. CASE far
    BY <1>1, <1>2, <1>3, <2>1, Referenced
       DEF NewLineAgrees, LabelsAgree, ShortFits, Entry, RefOps
  <2>2. CASE ~far
    BY <1>1, <1>2, <1>3, <2>2, Referenced
       DEF NewLineAgrees, LabelsAgree, ShortFits, Entry, OutOfReach, Displacement,
           RefOps, TypeOK, AddressTyped
  <2>3. QED
    BY <2>1, <2>2
<1>8. QED
  BY <1>2, <1>3, <1>6, <1>7 DEF EmitsLine

LEMMA NearJumpStep ==
    ASSUME TypeOK, NearJump
    PROVE  CodeFrame /\ EmitsLine
<1> DEFINE l == source[line].l
<1>1. /\ line \in DOMAIN source /\ l \in Labels /\ source[line].op = "near"
      /\ phase = "assemble"
  BY LineInSource, LineFields DEF NearJump, OnCode, OnLine, AtLine, RefOps
<1>2. /\ UndefinedErrors(l) \subseteq errors' /\ errors \subseteq errors'
      /\ Emit(3, Value(l))
  BY DEF NearJump, Report
<1>3. Value(l) \in Int
  BY <1>1, ValueInt DEF TypeOK
<1>4. WideTyped'
  BY DEF NearJump, wideVars, WideTyped, TypeOK
<1>5. CodeFrame
  BY <1>1, <1>2, <1>4
     DEF CodeFrame, SameLineState, NearJump, NextLine, unchangedByCode, unchangedByLine,
         deltaVars, fileVars, lineVars, TypeOK, MainTyped
<1>6. NewLineAgrees(3, Value(l))
  BY <1>1, <1>2, <1>3, Referenced
     DEF NewLineAgrees, LabelsAgree, ShortFits, Entry, RefOps
<1>7. QED
  BY <1>2, <1>3, <1>5, <1>6 DEF EmitsLine

LEMMA DefineWordStep ==
    ASSUME TypeOK, DefineWord
    PROVE  CodeFrame /\ EmitsLine
<1> DEFINE l == source[line].l
<1>1. /\ line \in DOMAIN source /\ l \in Labels /\ source[line].op = "dw"
      /\ phase = "assemble"
  BY LineInSource, LineFields DEF DefineWord, OnCode, OnLine, AtLine, RefOps
<1>2. /\ UndefinedErrors(l) \subseteq errors' /\ errors \subseteq errors'
      /\ Emit(2, Value(l))
  BY DEF DefineWord, Report
<1>3. Value(l) \in Int
  BY <1>1, ValueInt DEF TypeOK
<1>4. WideTyped'
  BY DEF DefineWord, wideVars, WideTyped, TypeOK
<1>5. CodeFrame
  BY <1>1, <1>2, <1>4
     DEF CodeFrame, SameLineState, DefineWord, NextLine, unchangedByCode, unchangedByLine,
         deltaVars, fileVars, lineVars, TypeOK, MainTyped, AddressTyped
<1>6. NewLineAgrees(2, Value(l))
  BY <1>1, <1>2, <1>3, Referenced
     DEF NewLineAgrees, LabelsAgree, ShortFits, Entry, RefOps
<1>7. QED
  BY <1>2, <1>3, <1>5, <1>6 DEF EmitsLine

LEMMA EffectiveAddressStep ==
    ASSUME TypeOK, EffectiveAddress
    PROVE  CodeFrame /\ EmitsLine
<1> DEFINE l == source[line].l
           guess == Guess(l, 0)
           width == IF guess.wide THEN 2 ELSE OffsetWidth(Value(l))
<1>1. /\ line \in DOMAIN source /\ l \in Labels /\ source[line].op = "ea"
      /\ phase = "assemble"
  BY LineInSource, LineFields DEF EffectiveAddress, OnCode, OnLine, AtLine, RefOps
<1>2. /\ UndefinedErrors(l) \subseteq errors' /\ errors \subseteq errors'
      /\ Emit(2 + width, Value(l)) /\ RecordGuess(guess, 0)
  BY DEF EffectiveAddress, Report
<1>3. Value(l) \in Int
  BY <1>1, ValueInt DEF TypeOK
<1>4. guess.wide \in BOOLEAN /\ guess.read_at \in Position
  BY <1>1, GuessTyped
<1>5. WideTyped'
  BY <1>2, <1>4, RecordTyped
<1>6. width \in 0..2
  BY DEF OffsetWidth
<1>7. CodeFrame
  BY <1>1, <1>2, <1>5
     DEF CodeFrame, SameLineState, EffectiveAddress, NextLine, unchangedByCode,
         unchangedByLine, deltaVars, fileVars, lineVars, TypeOK, MainTyped, AddressTyped
<1>8. NewLineAgrees(2 + width, Value(l))
  BY <1>1, <1>2, <1>3, Referenced
     DEF NewLineAgrees, LabelsAgree, ShortFits, Entry, RefOps
<1>9. QED
  <2>1. 2 + width \in Nat
    BY <1>6
  <2>2. QED
    BY <1>2, <1>3, <1>7, <1>8, <2>1 DEF EmitsLine

LEMMA ImmediateStep ==
    ASSUME TypeOK, Immediate
    PROVE  CodeFrame /\ EmitsLine
<1> DEFINE l == source[line].l
           guess == IF opt_level = 0 THEN NoGuess ELSE Guess(l, 1)
           byte == opt_level # 0 /\ ~guess.wide /\ IsInt8In16(Value(l))
           size == IF byte THEN 3 ELSE 4
<1>1. /\ line \in DOMAIN source /\ l \in Labels /\ source[line].op = "imm"
      /\ phase = "assemble"
  BY LineInSource, LineFields DEF Immediate, OnCode, OnLine, AtLine, RefOps
<1>2. /\ UndefinedErrors(l) \subseteq errors' /\ errors \subseteq errors'
      /\ Emit(size, Value(l)) /\ RecordGuess(guess, 1)
  BY DEF Immediate, Report
<1>3. Value(l) \in Int
  BY <1>1, ValueInt DEF TypeOK
<1>4. guess.read_at \in Position
  BY <1>1, GuessTyped
<1>5. WideTyped'
  BY <1>2, <1>4, RecordTyped
<1>6. CodeFrame
  BY <1>1, <1>2, <1>5
     DEF CodeFrame, SameLineState, Immediate, NextLine, unchangedByCode,
         unchangedByLine, deltaVars, fileVars, lineVars, TypeOK, MainTyped, AddressTyped
<1>7. NewLineAgrees(size, Value(l))
  BY <1>1, <1>2, <1>3, Referenced
     DEF NewLineAgrees, LabelsAgree, ShortFits, Entry, RefOps
<1>8. QED
  BY <1>2, <1>3, <1>6, <1>7 DEF EmitsLine

\* Data lines refer to no label: they always agree with the table.
DataOps == {"fill", "pad", "align", "incbin"}

LEMMA DataAgrees ==
    ASSUME source[line].op \in DataOps, NEW size, NEW to
    PROVE  NewLineAgrees(size, to)
BY DEF DataOps, NewLineAgrees, LabelsAgree, ShortFits, Entry, RefOps

LEMMA FillStep ==
    ASSUME TypeOK, Fill \/ Incbin
    PROVE  CodeFrame /\ EmitsLine
<1> DEFINE n == source[line].n
<1>1. /\ line \in DOMAIN source /\ source[line].op \in DataOps /\ n \in Nat
      /\ phase = "assemble" /\ Emit(n, 0)
  BY LineInSource, LineFields DEF Fill, Incbin, OnCode, OnLine, AtLine, NumOps, DataOps
<1>2. WideTyped'
  BY DEF Fill, Incbin, wideVars, WideTyped, TypeOK
<1>3. /\ NextLine
      /\ UNCHANGED <<unchangedByCode, is_address_used, jump_range_bits, errors>>
  BY DEF Fill, Incbin
<1>4. CodeFrame
  BY <1>1, <1>2, <1>3
     DEF CodeFrame, SameLineState, NextLine, unchangedByCode, unchangedByLine,
         deltaVars, fileVars, lineVars, TypeOK, MainTyped, AddressTyped
<1>5. NewLineAgrees(n, 0)
  BY <1>1, DataAgrees
<1>6. QED
  BY <1>1, <1>4, <1>5 DEF EmitsLine

\* A code line that emits nothing.
EmitsNothing == current_address' \in Int /\ UNCHANGED <<emitted, bytes>>

LEMMA PadStep ==
    ASSUME TypeOK, Pad
    PROVE  CodeFrame /\ (EmitsLine \/ EmitsNothing)
<1> DEFINE times == source[line].n - (current_address - start_address)
<1>1. /\ line \in DOMAIN source /\ source[line].op \in DataOps
      /\ source[line].n \in Nat /\ phase = "assemble"
  BY LineInSource, LineFields DEF Pad, OnCode, OnLine, AtLine, NumOps, DataOps
<1>2. /\ errors \subseteq errors'
      /\ times < 0 => EmitNothing
      /\ ~(times < 0) => Emit(times, 0)
  BY DEF Pad, Report
<1>3. WideTyped'
  BY DEF Pad, wideVars, WideTyped, TypeOK
<1>4. CodeFrame
  BY <1>1, <1>2, <1>3
     DEF CodeFrame, SameLineState, Pad, NextLine, unchangedByCode, unchangedByLine,
         deltaVars, fileVars, lineVars, TypeOK, MainTyped
<1>5. CASE times < 0
  BY <1>2, <1>4, <1>5 DEF EmitsNothing, EmitNothing, TypeOK, AddressTyped
<1>6. CASE ~(times < 0)
  <2>1. times \in Nat
    BY <1>1, <1>6 DEF TypeOK, AddressTyped
  <2>2. NewLineAgrees(times, 0)
    BY <1>1, DataAgrees
  <2>3. QED
    BY <1>2, <1>4, <1>6, <2>1, <2>2 DEF EmitsLine
<1>7. QED
  BY <1>5, <1>6

LEMMA AlignStep ==
    ASSUME TypeOK, Align
    PROVE  CodeFrame /\ (EmitsLine \/ EmitsNothing)
<1> DEFINE n == source[line].n
           size == AlignTimes(n)
<1>1. /\ line \in DOMAIN source /\ source[line].op \in DataOps /\ n \in Nat
      /\ phase = "assemble"
  BY LineInSource, LineFields DEF Align, OnCode, OnLine, AtLine, NumOps, DataOps
<1>2. /\ errors \subseteq errors'
      /\ n = 0 => EmitNothing
      /\ n # 0 => Emit(size, 0)
  BY DEF Align, Report
<1>3. WideTyped'
  BY DEF Align, wideVars, WideTyped, TypeOK
<1>4. CodeFrame
  BY <1>1, <1>2, <1>3
     DEF CodeFrame, SameLineState, Align, NextLine, unchangedByCode, unchangedByLine,
         deltaVars, fileVars, lineVars, TypeOK, MainTyped, AddressTyped
<1>5. CASE n = 0
  BY <1>2, <1>4, <1>5 DEF EmitsNothing, EmitNothing, TypeOK, AddressTyped
<1>6. CASE n # 0
  <2>1. size \in Nat
    BY <1>1, <1>6 DEF AlignTimes, TypeOK, AddressTyped
  <2>2. NewLineAgrees(size, 0)
    BY <1>1, DataAgrees
  <2>3. QED
    BY <1>2, <1>4, <1>6, <2>1, <2>2 DEF EmitsLine
<1>7. QED
  BY <1>5, <1>6

LEMMA MisplacedStep ==
    ASSUME TypeOK, MisplacedLine \/ Resb
    PROVE  CodeFrame /\ EmitsNothing
<1>1. /\ line \in DOMAIN source /\ phase = "assemble"
      /\ source[line].op = "resb" => source[line].n \in Nat
  BY LineInSource, LineFields DEF MisplacedLine, Resb, OnCode, OnLine, AtLine, NumOps
<1>2. EmitsNothing /\ errors \subseteq errors'
  BY <1>1 DEF MisplacedLine, Resb, OnLine, AtLine, EmitsNothing, EmitNothing, Report,
              TypeOK, AddressTyped
<1>3. WideTyped'
  BY DEF MisplacedLine, Resb, wideVars, WideTyped, TypeOK
<1>4. NextLine /\ UNCHANGED <<unchangedByCode, is_address_used, jump_range_bits>>
  BY DEF MisplacedLine, Resb
<1>5. CodeFrame
  BY <1>1, <1>2, <1>3, <1>4
     DEF CodeFrame, SameLineState, NextLine, unchangedByCode, unchangedByLine,
         deltaVars, fileVars, lineVars, TypeOK, MainTyped, AddressTyped
<1>6. QED
  BY <1>2, <1>5

LEMMA CodeStep ==
    ASSUME TypeOK, Code
    PROVE  CodeFrame /\ (EmitsLine \/ EmitsNothing)
BY JmpStep, JccStep, ShortJumpStep, NearJumpStep, DefineWordStep,
   EffectiveAddressStep, ImmediateStep, FillStep, PadStep, AlignStep,
   MisplacedStep, Zenon DEF Code

-----------------------------------------------------------------------------
(* What the directives have in common. *)

DirectiveFrame ==
    /\ SameLineState
    /\ UNCHANGED <<labels, emitted, bytes, wide_blocks, wide_instr_read_at,
                   wide_lines, have_labels_changed, jump_range_bits>>
    /\ phase' \in {"assemble", "assembled"}
    /\ line' \in Nat \ {0}
    /\ NestingTyped' /\ AddressTyped'
    /\ phase' = "assemble" => level' > 0
    /\ do_special_pass_1 <= 1 => do_special_pass_1' <= 1

\* Where the file is read on, or abandoned.
ReadsOn == phase' \in {"assemble", "assembled"} /\ line' \in Nat \ {0}

LEMMA NextOrAbandon ==
    ASSUME TypeOK, phase = "assemble", NextLine \/ AbandonFile
    PROVE  ReadsOn
BY DEF NextLine, AbandonFile, ReadsOn, TypeOK, MainTyped

\* What no directive changes.
DirectiveKeeps ==
    UNCHANGED <<source, opt_level, assembler_pass, prev_address, delta_acc,
                delta_acc_max, cur_dir, delta_violation_count, output, exit,
                labels, emitted, bytes, wide_blocks, wide_instr_read_at,
                wide_lines, have_labels_changed, jump_range_bits>>

LEMMA KeptByDirective ==
    ASSUME UNCHANGED unchangedByDirective
    PROVE  DirectiveKeeps
BY DEF unchangedByDirective, unchangedByLine, deltaVars, fileVars, wideVars,
       DirectiveKeeps

LEMMA OrgAgainStep ==
    ASSUME TInv, OrgAgain
    PROVE  DirectiveFrame
<1>1. /\ phase = "assemble" /\ errors \subseteq errors'
      /\ NextLine \/ AbandonFile
  BY DEF OrgAgain, OnLine, AtLine, Report
<1>2. ReadsOn
  BY <1>1, NextOrAbandon DEF TInv
<1>3. DirectiveKeeps
  BY KeptByDirective DEF OrgAgain
<1>4. AddressTyped'
  BY DEF OrgAgain, TInv, TypeOK, AddressTyped
<1>5. UNCHANGED <<level, avoid_level, is_bss, do_special_pass_1>>
  BY DEF OrgAgain, lineVars
<1>6. NestingTyped' /\ level' > 0
  BY <1>1, <1>5 DEF TInv, TypeOK, NestingTyped, Control
<1>7. QED
  BY <1>1, <1>2, <1>3, <1>4, <1>5, <1>6
     DEF DirectiveFrame, SameLineState, DirectiveKeeps, ReadsOn

LEMMA OrgFirstStep ==
    ASSUME TInv, OrgFirst
    PROVE  DirectiveFrame
<1>1. phase = "assemble" /\ errors \subseteq errors' /\ NextLine
  BY DEF OrgFirst, OnLine, AtLine
<1>2. ReadsOn
  BY <1>1, NextOrAbandon DEF TInv
<1>3. DirectiveKeeps
  BY KeptByDirective DEF OrgFirst
<1>4. source[line].n \in Nat
  BY LineInSource, LineFields DEF OrgFirst, OnLine, AtLine, TInv, NumOps
<1>5. AddressTyped' /\ (do_special_pass_1 <= 1 => do_special_pass_1' <= 1)
  BY <1>4 DEF OrgFirst, TInv, TypeOK, AddressTyped
<1>6. UNCHANGED <<level, avoid_level, is_bss>>
  BY DEF OrgFirst, lineVars
<1>7. NestingTyped' /\ level' > 0
  BY <1>1, <1>6 DEF TInv, TypeOK, NestingTyped, Control
<1>8. QED
  BY <1>1, <1>2, <1>3, <1>5, <1>7
     DEF DirectiveFrame, SameLineState, DirectiveKeeps, ReadsOn

LEMMA SectionBssStep ==
    ASSUME TInv, SectionBss
    PROVE  DirectiveFrame
<1>1. phase = "assemble" /\ errors \subseteq errors' /\ NextLine
  BY DEF SectionBss, OnLine, AtLine
<1>2. ReadsOn
  BY <1>1, NextOrAbandon DEF TInv
<1>3. DirectiveKeeps
  BY KeptByDirective DEF SectionBss
<1>4. AddressTyped' /\ UNCHANGED do_special_pass_1
  BY DEF SectionBss, TInv, TypeOK, AddressTyped
<1>5. NestingTyped' /\ level' > 0
  BY <1>1 DEF SectionBss, TInv, TypeOK, NestingTyped, Control
<1>6. QED
  BY <1>1, <1>2, <1>3, <1>4, <1>5
     DEF DirectiveFrame, SameLineState, DirectiveKeeps, ReadsOn

LEMMA IfStep ==
    ASSUME TInv, If
    PROVE  DirectiveFrame
<1>1. phase = "assemble" /\ errors \subseteq errors' /\ NextLine
  BY DEF If, AtLine
<1>2. ReadsOn
  BY <1>1, NextOrAbandon DEF TInv
<1>3. DirectiveKeeps
  BY KeptByDirective DEF If, unchangedByCondition
<1>4. AddressTyped' /\ UNCHANGED do_special_pass_1
  BY DEF If, unchangedByCondition, TInv, TypeOK, AddressTyped
<1>5. NestingTyped' /\ level' > 0
  BY DEF If, unchangedByCondition, TInv, TypeOK, NestingTyped
<1>6. QED
  BY <1>1, <1>2, <1>3, <1>4, <1>5
     DEF DirectiveFrame, SameLineState, DirectiveKeeps, ReadsOn

LEMMA ElseStep ==
    ASSUME TInv, Else
    PROVE  DirectiveFrame
<1>1. /\ phase = "assemble" /\ errors \subseteq errors'
      /\ NextLine \/ AbandonFile
  BY DEF Else, AtLine, Report
<1>2. ReadsOn
  BY <1>1, NextOrAbandon DEF TInv
<1>3. DirectiveKeeps
  BY KeptByDirective DEF Else, unchangedByCondition
<1>4. AddressTyped' /\ UNCHANGED do_special_pass_1
  BY DEF Else, unchangedByCondition, TInv, TypeOK, AddressTyped
<1>5. NestingTyped' /\ level' > 0
  BY <1>1 DEF Else, unchangedByCondition, TInv, TypeOK, NestingTyped, Control
<1>6. QED
  BY <1>1, <1>2, <1>3, <1>4, <1>5
     DEF DirectiveFrame, SameLineState, DirectiveKeeps, ReadsOn

LEMMA EndifStep ==
    ASSUME TInv, Endif
    PROVE  DirectiveFrame
<1>1. /\ phase = "assemble" /\ errors \subseteq errors'
      /\ NextLine \/ AbandonFile
  BY DEF Endif, AtLine, Report
<1>2. ReadsOn
  BY <1>1, NextOrAbandon DEF TInv
<1>3. DirectiveKeeps
  BY KeptByDirective DEF Endif, unchangedByCondition
<1>4. AddressTyped' /\ UNCHANGED do_special_pass_1
  BY DEF Endif, unchangedByCondition, TInv, TypeOK, AddressTyped
<1>5. level \in Nat /\ level > 0
  BY <1>1 DEF TInv, TypeOK, NestingTyped, Control
<1>6. NestingTyped'
  BY <1>5 DEF Endif, unchangedByCondition, TInv, TypeOK, NestingTyped
<1>7. phase' = "assemble" => level' > 0
  BY <1>5 DEF Endif, AbandonFile
<1>8. QED
  BY <1>1, <1>2, <1>3, <1>4, <1>6, <1>7
     DEF DirectiveFrame, SameLineState, DirectiveKeeps, ReadsOn

LEMMA SkipOrEndStep ==
    ASSUME TInv, SkipLine \/ EndOfFile
    PROVE  DirectiveFrame
<1>1. /\ phase = "assemble" /\ errors \subseteq errors'
      /\ NextLine \/ AbandonFile
      /\ UNCHANGED unchangedByDirective /\ UNCHANGED lineVars /\ UNCHANGED addressVars
  BY DEF SkipLine, EndOfFile, Report
<1>2. ReadsOn
  BY <1>1, NextOrAbandon DEF TInv
<1>3. DirectiveKeeps
  BY <1>1, KeptByDirective
<1>4. AddressTyped' /\ UNCHANGED do_special_pass_1
  BY <1>1 DEF addressVars, TInv, TypeOK, AddressTyped
<1>5. NestingTyped' /\ level' > 0
  BY <1>1 DEF lineVars, TInv, TypeOK, NestingTyped, Control
<1>6. QED
  BY <1>1, <1>2, <1>3, <1>4, <1>5
     DEF DirectiveFrame, SameLineState, DirectiveKeeps, ReadsOn

-----------------------------------------------------------------------------
(* Lines that define a label. *)

\* A line that gives l the value v, taken from the label from.
Defines(l, v, errs) ==
    /\ CreateLabel(l, v)
    /\ CreateErrors(l) \cup errs \subseteq errors'
    /\ EmitDefinition(v)

LabelFrame ==
    /\ SameLineState
    /\ UNCHANGED <<phase, level, avoid_level, is_bss, start_address,
                   default_start_address, is_address_used,
                   is_start_address_set, do_special_pass_1, wide_blocks,
                   wide_instr_read_at, wide_lines, jump_range_bits>>
    /\ line \in DOMAIN source /\ line' = line + 1

LEMMA KeptByLabel ==
    ASSUME TypeOK, UNCHANGED unchangedByLabel, NextLine, line \in DOMAIN source,
           phase = "assemble", errors \subseteq errors'
    PROVE  LabelFrame
BY DEF unchangedByLabel, unchangedByLine, deltaVars, fileVars, lineVars, wideVars,
       NextLine, LabelFrame, SameLineState

LEMMA LabelLineStep ==
    ASSUME TypeOK, LabelLine
    PROVE  /\ LabelFrame
           /\ source[line].op = "label" /\ source[line].l \in Labels
           /\ Defines(source[line].l, current_address, {})
<1>1. /\ line \in DOMAIN source /\ source[line].op = "label"
      /\ source[line].l \in Labels /\ phase = "assemble"
  BY LineInSource, LineFields DEF LabelLine, OnLine, AtLine
<1>2. Defines(source[line].l, current_address, {}) /\ errors \subseteq errors'
  BY DEF LabelLine, Defines, Report
<1>3. LabelFrame
  BY <1>1, <1>2, KeptByLabel DEF LabelLine
<1>4. QED
  BY <1>1, <1>2, <1>3

LEMMA EquLineStep ==
    ASSUME TypeOK, EquLine
    PROVE  /\ LabelFrame
           /\ source[line].op = "equ"
           /\ source[line].l \in Labels /\ source[line].m \in Labels
           /\ Defines(source[line].l, Value(source[line].m),
                      UndefinedErrors(source[line].m))
<1>1. /\ line \in DOMAIN source /\ source[line].op = "equ"
      /\ source[line].l \in Labels /\ source[line].m \in Labels
      /\ phase = "assemble"
  BY LineInSource, LineFields DEF EquLine, OnLine, AtLine
<1>2. /\ Defines(source[line].l, Value(source[line].m),
                 UndefinedErrors(source[line].m))
      /\ errors \subseteq errors'
  BY DEF EquLine, Defines, Report
<1>3. LabelFrame
  BY <1>1, <1>2, KeptByLabel DEF EquLine
<1>4. QED
  BY <1>1, <1>2, <1>3

LEMMA CreatedTyped ==
    ASSUME LabelsTyped, NEW l \in Labels, NEW v \in Int
    PROVE  /\ Created(l, v) \in [Labels -> LabelSet]
           /\ Created(l, v)[l].state = "live" /\ Created(l, v)[l].value = v
           /\ \A k \in Labels \ {l} : Created(l, v)[k] = labels[k]
BY DEF LabelsTyped, LabelSet, Created

LEMMA DefinesTyped ==
    ASSUME TInv, NEW l \in Labels, NEW v \in Int, NEW errs, Defines(l, v, errs)
    PROVE  /\ LabelsTyped' /\ have_labels_changed' \in BOOLEAN
           /\ EmittedTyped' /\ UNCHANGED current_address
<1>1. LabelsTyped'
  <2>1. labels' = labels \/ labels' = Created(l, v)
    BY DEF Defines, CreateLabel
  <2>2. QED
    BY <2>1, CreatedTyped DEF LabelsTyped, TInv, TypeOK
<1>2. have_labels_changed' \in BOOLEAN
  <2>1. have_labels_changed \in BOOLEAN
    BY DEF TInv, TypeOK, MainTyped
  <2>2. \/ have_labels_changed' = have_labels_changed
        \/ have_labels_changed' = (have_labels_changed \/
              (labels[l].state = "live" /\ labels[l].value # v))
    BY DEF Defines, CreateLabel
  <2>3. (have_labels_changed \/
           (labels[l].state = "live" /\ labels[l].value # v)) \in BOOLEAN
    OBVIOUS
  <2>4. QED
    BY <2>1, <2>2, <2>3, Zenon
<1>3. EmittedTyped' /\ UNCHANGED current_address
  <2>1. Entry(0, v) \in EntrySet
    BY DEF Entry, EntrySet, TInv, TypeOK, AddressTyped, MainTyped
  <2>2. QED
    BY <2>1 DEF Defines, EmitDefinition, EmittedTyped, TInv, TypeOK
<1>4. QED
  BY <1>1, <1>2, <1>3

-----------------------------------------------------------------------------
(* Type correctness: every step preserves TInv. *)

\* What a line can do to the list of emitted lines.
Extends ==
    \/ UNCHANGED emitted
    \/ /\ assembler_pass > 1
       /\ \E size \in Nat, to \in Int : emitted' = Append(emitted, Entry(size, to))

LEMMA LineControl ==
    ASSUME TInv, SameLineState, Extends, line \in DOMAIN source \/ UNCHANGED emitted,
           phase' \in {"assemble", "assembled"},
           phase' = "assemble" => level' > 0,
           do_special_pass_1 <= 1 => do_special_pass_1' <= 1
    PROVE  Control'
<1>1. phase' # "done" /\ exit' = "running" /\ phase' # "reassemble"
  BY DEF SameLineState, TInv, Control
<1>2. assembler_pass' <= 1 => do_special_pass_1' <= 1 /\ emitted' = <<>>
  BY DEF SameLineState, TInv, Control, Extends, TypeOK, MainTyped
<1>3. \A i \in DOMAIN emitted' : emitted'[i].line \in DOMAIN source'
  <2>1. emitted \in Seq(EntrySet)
    BY DEF TInv, TypeOK, EmittedTyped
  <2>2. source' = source /\ \A i \in DOMAIN emitted : emitted[i].line \in DOMAIN source
    BY DEF SameLineState, TInv, Control
  <2>3. CASE UNCHANGED emitted
    BY <2>2, <2>3
  <2>4. CASE ~UNCHANGED emitted
    <3>1. PICK size \in Nat, to \in Int : emitted' = Append(emitted, Entry(size, to))
      BY <2>4 DEF Extends
    <3>2. Entry(size, to).line \in DOMAIN source
      BY <2>4 DEF Entry
    <3>3. Entry(size, to) \in EntrySet
      BY DEF Entry, EntrySet, TInv, TypeOK, AddressTyped, MainTyped
    <3>4. QED
      BY <2>1, <2>2, <3>1, <3>2, <3>3
  <2>5. QED
    BY <2>3, <2>4
<1>4. QED
  BY <1>1, <1>2, <1>3 DEF Control

LEMMA LineTyped ==
    ASSUME TypeOK, SameLineState, phase' \in {"assemble", "assembled"},
           line' \in Nat \ {0}, have_labels_changed' \in BOOLEAN,
           jump_range_bits' \subseteq {1, 2}
    PROVE  SourceTyped' /\ MainTyped' /\ DeltaTyped'
BY DEF SameLineState, TypeOK, SourceTyped, MainTyped, DeltaTyped

LEMMA CodeTyped ==
    ASSUME TInv, CodeFrame, EmitsLine \/ EmitsNothing
    PROVE  TInv'
<1>1. phase' = "assemble" /\ SameLineState /\ line \in DOMAIN source
  BY DEF CodeFrame, SameLineState
<1>2. SourceTyped' /\ MainTyped' /\ DeltaTyped'
  <2>1. /\ line' \in Nat \ {0} /\ have_labels_changed' \in BOOLEAN
        /\ jump_range_bits' \subseteq {1, 2}
    BY DEF CodeFrame, TInv, TypeOK, MainTyped
  <2>2. QED
    BY <1>1, <2>1, LineTyped DEF TInv
<1>3. NestingTyped' /\ LabelsTyped'
  BY DEF CodeFrame, TInv, TypeOK, NestingTyped, LabelsTyped
<1>4. current_address' \in Int /\ EmittedTyped'
  <2>1. CASE EmitsLine
    BY <2>1, EmitTyped DEF EmitsLine, TInv, TypeOK, MainTyped
  <2>2. CASE EmitsNothing
    BY <2>2 DEF EmitsNothing, TInv, TypeOK, EmittedTyped
  <2>3. QED
    BY <2>1, <2>2
<1>5. AddressTyped'
  BY <1>4 DEF CodeFrame, TInv, TypeOK, AddressTyped
<1>6. WideTyped'
  BY DEF CodeFrame
<1>7. Extends
  BY DEF EmitsLine, EmitsNothing, Emit, Extends
<1>8. level' > 0 /\ do_special_pass_1' = do_special_pass_1
  BY <1>1 DEF CodeFrame, SameLineState, TInv, Control
<1>9. Control'
  BY <1>1, <1>7, <1>8, LineControl
<1>10. QED
  BY <1>2, <1>3, <1>4, <1>5, <1>6, <1>9 DEF TInv, TypeOK

LEMMA DirectiveTyped ==
    ASSUME TInv, DirectiveFrame
    PROVE  TInv'
<1>1. /\ SameLineState /\ phase' \in {"assemble", "assembled"}
      /\ UNCHANGED emitted
      /\ phase' = "assemble" => level' > 0
      /\ do_special_pass_1 <= 1 => do_special_pass_1' <= 1
  BY DEF DirectiveFrame
<1>2. SourceTyped' /\ MainTyped' /\ DeltaTyped'
  <2>1. /\ line' \in Nat \ {0} /\ have_labels_changed' \in BOOLEAN
        /\ jump_range_bits' \subseteq {1, 2}
    BY DEF DirectiveFrame, TInv, TypeOK, MainTyped
  <2>2. QED
    BY <1>1, <2>1, LineTyped DEF TInv
<1>3. NestingTyped' /\ AddressTyped'
  BY DEF DirectiveFrame
<1>4. LabelsTyped' /\ WideTyped' /\ EmittedTyped'
  BY DEF DirectiveFrame, TInv, TypeOK, LabelsTyped, WideTyped, EmittedTyped
<1>5. Control'
  BY <1>1, LineControl DEF Extends
<1>6. QED
  BY <1>2, <1>3, <1>4, <1>5 DEF TInv, TypeOK

LEMMA LabelTyped ==
    ASSUME TInv, LabelFrame, NEW l \in Labels, NEW v \in Int, NEW errs,
           Defines(l, v, errs)
    PROVE  TInv'
<1>1. /\ SameLineState /\ phase' = "assemble" /\ line \in DOMAIN source
      /\ UNCHANGED <<level, do_special_pass_1>>
  BY DEF LabelFrame, SameLineState
<1>2. /\ LabelsTyped' /\ have_labels_changed' \in BOOLEAN /\ EmittedTyped'
      /\ UNCHANGED current_address
  BY DefinesTyped
<1>3. SourceTyped' /\ MainTyped' /\ DeltaTyped'
  <2>1. line' \in Nat \ {0} /\ jump_range_bits' \subseteq {1, 2}
    BY DEF LabelFrame, TInv, TypeOK, MainTyped
  <2>2. QED
    BY <1>1, <1>2, <2>1, LineTyped DEF TInv
<1>4. NestingTyped' /\ WideTyped'
  BY DEF LabelFrame, TInv, TypeOK, NestingTyped, WideTyped
<1>5. AddressTyped'
  BY <1>2 DEF LabelFrame, TInv, TypeOK, AddressTyped
<1>6. Extends
  BY DEF Defines, EmitDefinition, Extends
<1>7. level' > 0
  BY <1>1 DEF SameLineState, TInv, Control
<1>8. Control'
  BY <1>1, <1>6, <1>7, LineControl
<1>9. QED
  BY <1>2, <1>3, <1>4, <1>5, <1>8 DEF TInv, TypeOK

LEMMA AssembleLineTyped ==
    ASSUME TInv, AssembleLine
    PROVE  TInv'
<1>1. CASE Code
  BY <1>1, CodeStep, CodeTyped DEF TInv
<1>2. CASE LabelLine
  <2>1. current_address \in Int
    BY DEF TInv, TypeOK, AddressTyped
  <2>2. QED
    BY <1>2, <2>1, LabelLineStep, LabelTyped DEF TInv
<1>3. CASE EquLine
  <2>1. source[line].m \in Labels
    BY <1>3, EquLineStep DEF TInv
  <2>2. Value(source[line].m) \in Int
    BY <2>1, ValueInt DEF TInv, TypeOK
  <2>3. QED
    BY <1>3, <2>2, EquLineStep, LabelTyped DEF TInv
<1>4. CASE OrgAgain \/ OrgFirst \/ SectionBss \/ If \/ Else \/ Endif
  BY <1>4, OrgAgainStep, OrgFirstStep, SectionBssStep, IfStep, ElseStep, EndifStep,
     DirectiveTyped
<1>5. CASE SkipLine \/ EndOfFile
  BY <1>5, SkipOrEndStep, DirectiveTyped
<1>6. QED
  BY <1>1, <1>2, <1>3, <1>4, <1>5 DEF AssembleLine, Directive

\* The steps of main() that leave the lines and labels of the pass alone.
LEMMA StopTyped ==
    ASSUME TInv, FailEarly \/ OpenFails \/ WriteFails
    PROVE  TInv'
<1>1. /\ UNCHANGED <<source, opt_level, line, assembler_pass, lineVars, labels,
                     addressVars, wideVars, have_labels_changed, jump_range_bits,
                     deltaVars, emitted, bytes>>
      /\ phase' = "done" /\ exit' \in {"1", "3"}
      /\ output' \in {"absent", output}
  BY DEF FailEarly, OpenFails, WriteFails, RemoveOutput
<1>2. SourceTyped' /\ MainTyped'
  BY <1>1 DEF TInv, TypeOK, SourceTyped, MainTyped
<1>3. NestingTyped' /\ LabelsTyped' /\ AddressTyped'
  BY <1>1 DEF TInv, TypeOK, NestingTyped, LabelsTyped, AddressTyped, lineVars,
              addressVars
<1>4. WideTyped' /\ DeltaTyped' /\ EmittedTyped'
  BY <1>1 DEF TInv, TypeOK, WideTyped, DeltaTyped, EmittedTyped, wideVars, deltaVars
<1>5. Control'
  BY <1>1 DEF TInv, Control, lineVars, addressVars
<1>6. QED
  BY <1>2, <1>3, <1>4, <1>5 DEF TInv, TypeOK

\* What a pass starts with.
LEMMA BeginFlags ==
    ASSUME NEW p, BeginAssembly(p)
    PROVE  have_labels_changed' \in BOOLEAN /\ is_bss' \in BOOLEAN
BY Zenon DEF BeginAssembly

LEMMA BeginTyped ==
    ASSUME TInv, NEW p \in Nat, p <= MaxPass, BeginAssembly(p), ResetAddress,
           UNCHANGED <<source, opt_level, default_start_address, bytes, exit>>,
           output' \in {"partial", output}
    PROVE  /\ SourceTyped' /\ MainTyped' /\ NestingTyped' /\ EmittedTyped'
           /\ current_address' \in Int /\ start_address' \in Int
<1>1. SourceTyped' /\ MainTyped'
  <2>1. have_labels_changed' \in BOOLEAN
    BY BeginFlags, Zenon
  <2>2. /\ phase' = "assemble" /\ line' = 1 /\ assembler_pass' = p
        /\ jump_range_bits' \subseteq {1, 2}
    BY DEF BeginAssembly, TInv, TypeOK, MainTyped
  <2>3. QED
    BY <2>1, <2>2 DEF TInv, TypeOK, SourceTyped, MainTyped
<1>2. NestingTyped' /\ EmittedTyped'
  <2>1. is_bss' \in BOOLEAN
    BY BeginFlags, Zenon
  <2>2. level' = 1 /\ avoid_level' = 0 /\ emitted' = <<>> /\ bytes' \in Nat
    BY DEF BeginAssembly, TInv, TypeOK, EmittedTyped
  <2>3. QED
    BY <2>1, <2>2 DEF NestingTyped, EmittedTyped
<1>3. current_address' \in Int /\ start_address' \in Int
  BY DEF ResetAddress, TInv, TypeOK, AddressTyped
<1>4. QED
  BY <1>1, <1>2, <1>3

LEMMA StartSpecialPassTyped ==
    ASSUME TInv, StartSpecialPass
    PROVE  TInv'
<1>1. /\ BeginAssembly(1) /\ ResetAddress
      /\ UNCHANGED <<source, opt_level, default_start_address, is_address_used,
                     wide_blocks, wide_lines, bytes, do_special_pass_1>>
      /\ UNCHANGED <<prev_address, delta_acc, delta_acc_max, cur_dir,
                     delta_violation_count, output, exit>>
      /\ is_start_address_set' = 1 /\ wide_instr_read_at' = NoPosition
      /\ phase = "assembled" /\ do_special_pass_1 = 1
  BY DEF StartSpecialPass, RewindWide, unchangedByMain, deltaVars, fileVars
<1>2. /\ SourceTyped' /\ MainTyped' /\ NestingTyped' /\ EmittedTyped'
      /\ current_address' \in Int /\ start_address' \in Int
  BY <1>1, BeginTyped, PassLimit
<1>3. LabelsTyped'
  <2>1. ASSUME NEW l \in Labels
        PROVE  /\ labels[l] \in LabelSet
               /\ [state |-> "deleted", value |-> labels[l].value] \in LabelSet
    BY DEF TInv, TypeOK, LabelsTyped, LabelSet
  <2>2. labels' = [l \in Labels |->
                     IF labels[l].state = "none" THEN labels[l]
                     ELSE [state |-> "deleted", value |-> labels[l].value]]
    BY DEF StartSpecialPass
  <2>3. QED
    BY <2>1, <2>2 DEF LabelsTyped
<1>4. AddressTyped' /\ WideTyped' /\ DeltaTyped'
  BY <1>1, <1>2, NoPositionTyped DEF TInv, TypeOK, AddressTyped, WideTyped, DeltaTyped
<1>5. Control'
  BY <1>1 DEF BeginAssembly, TInv, Control
<1>6. QED
  BY <1>2, <1>3, <1>4, <1>5 DEF TInv, TypeOK

LEMMA EndOffsetPassesTyped ==
    ASSUME TInv, EndOffsetPasses
    PROVE  TInv'
<1>1. /\ phase = "assembled" /\ phase' = "reassemble" /\ assembler_pass' = 1
      /\ do_special_pass_1' = 2 * do_special_pass_1 /\ assembler_pass \in {0, 1}
      /\ is_start_address_set' \in {1, is_start_address_set}
      /\ UNCHANGED <<source, opt_level, default_start_address, is_address_used,
                     wide_blocks, wide_lines, bytes, line, level, avoid_level,
                     is_bss, labels, current_address, start_address,
                     have_labels_changed, jump_range_bits, prev_address,
                     emitted, output, exit>>
  BY DEF EndOffsetPasses, unchangedByMain, lineVars, fileVars
<1>2. SourceTyped' /\ MainTyped' /\ NestingTyped' /\ LabelsTyped' /\ EmittedTyped'
  BY <1>1, PassLimit DEF TInv, TypeOK, SourceTyped, MainTyped, NestingTyped,
                         LabelsTyped, EmittedTyped
<1>3. AddressTyped'
  BY <1>1 DEF TInv, TypeOK, AddressTyped, Control
<1>4. WideTyped' /\ DeltaTyped'
  BY <1>1, NoPositionTyped DEF EndOffsetPasses, RewindWide, TInv, TypeOK, WideTyped, DeltaTyped
<1>5. Control'
  BY <1>1 DEF TInv, Control
<1>6. QED
  BY <1>2, <1>3, <1>4, <1>5 DEF TInv, TypeOK

LEMMA StartPassTyped ==
    ASSUME TInv, StartPass
    PROVE  TInv'
<1> DEFINE p == IF assembler_pass = MaxPass THEN MaxPass ELSE assembler_pass + 1
<1>1. /\ BeginAssembly(p) /\ ResetAddress /\ phase = "reassemble"
      /\ output' = "partial" /\ prev_address' = current_address
      /\ do_special_pass_1' \in {2, do_special_pass_1}
      /\ UNCHANGED <<source, opt_level, default_start_address, is_address_used,
                     wide_blocks, wide_lines, bytes, labels,
                     is_start_address_set, wide_instr_read_at, delta_acc,
                     delta_acc_max, cur_dir, delta_violation_count, exit>>
  BY DEF StartPass, unchangedByMain
<1>2. p \in Nat /\ p <= MaxPass /\ p > 1
  BY <1>1 DEF MaxPass, TInv, TypeOK, MainTyped, Control
<1>3. /\ SourceTyped' /\ MainTyped' /\ NestingTyped' /\ EmittedTyped'
      /\ current_address' \in Int /\ start_address' \in Int
  BY <1>1, <1>2, BeginTyped
<1>4. AddressTyped' /\ WideTyped' /\ DeltaTyped' /\ LabelsTyped'
  BY <1>1, <1>3 DEF TInv, TypeOK, AddressTyped, WideTyped, DeltaTyped, LabelsTyped
<1>5. Control'
  BY <1>1, <1>2 DEF BeginAssembly, TInv, Control
<1>6. QED
  BY <1>3, <1>4, <1>5 DEF TInv, TypeOK

LEMMA DeltaStepTyped ==
    ASSUME TypeOK, CountDeltaViolations
    PROVE  DeltaTyped'
<1>1. AbsDelta \in Nat /\ DeltaDir \in {-1, 0, 1}
  BY DEF TypeOK, AddressTyped, DeltaTyped, Delta, AbsDelta, DeltaDir
<1>2. delta_acc' \in Nat /\ cur_dir' \in {-1, 1} /\ prev_address' \in Int
  BY <1>1 DEF CountDeltaViolations, TypeOK, DeltaTyped
<1>3. delta_acc_max' \in Nat /\ delta_violation_count' \in Nat
  BY DEF CountDeltaViolations, TypeOK, DeltaTyped
<1>4. QED
  BY <1>2, <1>3 DEF DeltaTyped

LEMMA EndPassTyped ==
    ASSUME TInv, EndPass
    PROVE  TInv'
<1>1. /\ phase = "assembled" /\ assembler_pass > 1
      /\ UNCHANGED <<source, opt_level, default_start_address, is_address_used,
                     wide_blocks, wide_lines, bytes, line, level, avoid_level,
                     is_bss, assembler_pass, labels, current_address,
                     start_address, is_start_address_set, do_special_pass_1,
                     wide_instr_read_at, emitted>>
  BY DEF EndPass, unchangedByMain, lineVars
<1>2. have_labels_changed' \in BOOLEAN /\ jump_range_bits' \subseteq {1, 2}
  BY DEF EndPass, TInv, TypeOK, MainTyped
<1>3. \/ phase' = "done" /\ output' \in {"absent", "complete"} /\ exit' \in {"0", "1"}
      \/ phase' = "reassemble" /\ output' = "complete" /\ exit' = exit
  BY DEF EndPass, RemoveOutput
<1>4. CountDeltaViolations \/ UNCHANGED deltaVars
  BY DEF EndPass
<1>5. DeltaTyped'
  <2>1. CASE CountDeltaViolations
    BY <2>1, DeltaStepTyped DEF TInv
  <2>2. CASE UNCHANGED deltaVars
    BY <2>2 DEF TInv, TypeOK, DeltaTyped, deltaVars
  <2>3. QED
    BY <1>4, <2>1, <2>2
<1>6. SourceTyped' /\ MainTyped'
  BY <1>1, <1>2, <1>3 DEF TInv, TypeOK, SourceTyped, MainTyped
<1>7. NestingTyped' /\ LabelsTyped' /\ AddressTyped' /\ WideTyped' /\ EmittedTyped'
  BY <1>1 DEF TInv, TypeOK, NestingTyped, LabelsTyped, AddressTyped, WideTyped,
              EmittedTyped
<1>8. Control'
  BY <1>1, <1>3 DEF TInv, Control, TypeOK, MainTyped
<1>9. QED
  BY <1>5, <1>6, <1>7, <1>8 DEF TInv, TypeOK

LEMMA InitTyped ==
    ASSUME Init
    PROVE  TInv
<1>1. SourceTyped /\ NestingTyped
  <2>1. /\ source \in Seq(Line) /\ opt_level \in {0, 1, 9}
        /\ level = 1 /\ avoid_level = 0 /\ is_bss = FALSE
    BY InvocationsAssumption DEF Init, Invocation
  <2>2. QED
    BY <2>1 DEF SourceTyped, NestingTyped
<1>2. MainTyped
  <2>1. /\ phase = "assemble" /\ line = 1 /\ assembler_pass = 0
        /\ jump_range_bits \subseteq {1, 2}
        /\ output = "stale" /\ exit = "running"
    BY DEF Init
  <2>2. have_labels_changed \in BOOLEAN
    BY Zenon DEF Init
  <2>3. QED
    BY <2>1, <2>2, PassLimit DEF MainTyped
<1>3. LabelsTyped
  <2>1. labels = [l \in Labels |-> [state |-> "none", value |-> 0]]
    BY DEF Init
  <2>2. QED
    BY <2>1 DEF LabelsTyped, LabelSet
<1>4. AddressTyped
  <2>1. /\ default_start_address \in {0, 256}
        /\ current_address = default_start_address
        /\ start_address = default_start_address
        /\ is_start_address_set \in {0, 1}
        /\ do_special_pass_1 = 0
    BY InvocationsAssumption DEF Init, Invocation
  <2>2. is_address_used \in BOOLEAN
    BY Zenon DEF Init
  <2>3. QED
    BY <2>1, <2>2 DEF AddressTyped
<1>5. WideTyped
  <2>1. wide_blocks = <<>> /\ wide_instr_read_at = NoPosition /\ wide_lines = {}
    BY DEF Init
  <2>2. QED
    BY <2>1 DEF WideTyped, Blocks, Position, NoPosition, At
<1>6. DeltaTyped /\ EmittedTyped
  <2>1. /\ prev_address = 0 /\ delta_acc = 0 /\ delta_acc_max = 0 /\ cur_dir = 1
        /\ delta_violation_count = 0 /\ emitted = <<>> /\ bytes = 0
    BY DEF Init
  <2>2. QED
    BY <2>1 DEF DeltaTyped, EmittedTyped
<1>7. Control
  <2>1. /\ phase = "assemble" /\ exit = "running" /\ level = 1
        /\ do_special_pass_1 = 0 /\ emitted = <<>>
    BY DEF Init
  <2>2. QED
    BY <2>1 DEF Control
<1>8. QED
  BY <1>1, <1>2, <1>3, <1>4, <1>5, <1>6, <1>7 DEF TInv, TypeOK

LEMMA StutterTyped ==
    ASSUME TInv, UNCHANGED vars
    PROVE  TInv'
<1>1. SourceTyped' /\ MainTyped' /\ NestingTyped' /\ LabelsTyped'
  BY DEF vars, lineVars, fileVars, TInv, TypeOK, SourceTyped, MainTyped,
         NestingTyped, LabelsTyped
<1>2. AddressTyped' /\ WideTyped' /\ DeltaTyped' /\ EmittedTyped'
  BY DEF vars, addressVars, wideVars, deltaVars, TInv, TypeOK, AddressTyped,
         WideTyped, DeltaTyped, EmittedTyped
<1>3. Control'
  BY DEF vars, lineVars, addressVars, fileVars, TInv, Control
<1>4. QED
  BY <1>1, <1>2, <1>3 DEF TInv, TypeOK

LEMMA NextTyped ==
    ASSUME TInv, [Next]_vars
    PROVE  TInv'
BY AssembleLineTyped, StopTyped, StartSpecialPassTyped, EndOffsetPassesTyped,
   StartPassTyped, EndPassTyped, StutterTyped, Zenon
   DEF Next, MainStep, Failure, Done

\* Every variable keeps its type, and main() its order of phases, in every
\* behaviour of the assembler: pass numbers stay within 16 bits, read positions
\* within the recorded wide instructions, nesting levels never go below 0.
THEOREM TypeCorrect == Spec => []TypeOK
<1>1. Init => TInv
  BY InitTyped
<1>2. TInv /\ [Next]_vars => TInv'
  BY NextTyped
<1>3. TInv => TypeOK
  BY DEF TInv
<1>4. QED
  BY <1>1, <1>2, <1>3, PTL DEF Spec

-----------------------------------------------------------------------------
(* The output of a successful run is resolved.                             *)
(*                                                                         *)
(* While a pass has printed no message and changed no label, all lines it  *)
(* has emitted agree with the label table, including the ones that refer   *)
(* to labels further down, whose values are those of the pass before; and  *)
(* while it has not asked for a range report, short displacements fit.     *)

InPass == phase \in {"assemble", "assembled"}

EmittedAgree ==
    InPass /\ errors = {} /\ ~have_labels_changed =>
        \A i \in DOMAIN emitted : LabelsAgree(emitted[i])

EmittedFit ==
    InPass /\ errors = {} /\ 1 \notin jump_range_bits =>
        \A i \in DOMAIN emitted : ShortFits(emitted[i])

RangeReported == {1, 2} \subseteq jump_range_bits => errors # {}

Resolving == EmittedAgree /\ EmittedFit /\ RangeReported /\ OutputResolved

IInv == TInv /\ Resolving

LEMMA ExtendedBy ==
    ASSUME TInv, NEW size \in Nat, NEW to \in Int,
           emitted' = Append(emitted, Entry(size, to))
    PROVE  \A i \in DOMAIN emitted' :
              \/ i \in DOMAIN emitted /\ emitted'[i] = emitted[i]
              \/ emitted'[i] = Entry(size, to)
<1>1. emitted \in Seq(EntrySet)
  BY DEF TInv, TypeOK, EmittedTyped
<1>2. Entry(size, to) \in EntrySet
  BY DEF Entry, EntrySet, TInv, TypeOK, AddressTyped, MainTyped
<1>3. QED
  BY <1>1, <1>2

\* No line ends the run.
LEMMA LineUnresolved ==
    ASSUME TInv, SameLineState
    PROVE  OutputResolved'
BY DEF SameLineState, TInv, Control, OutputResolved

\* Lines that change no label.
LEMMA KeepsAgreeing ==
    ASSUME UNCHANGED <<source, labels>>,
           \A i \in DOMAIN emitted' : LabelsAgree(emitted'[i])
    PROVE  \A i \in DOMAIN emitted' : LabelsAgree(emitted[i])'
BY DEF LabelsAgree, Holds

LEMMA KeepsFitting ==
    ASSUME UNCHANGED source,
           \A i \in DOMAIN emitted' : ShortFits(emitted'[i])
    PROVE  \A i \in DOMAIN emitted' : ShortFits(emitted[i])'
BY DEF ShortFits

LEMMA CodeResolving ==
    ASSUME IInv, CodeFrame, EmitsLine \/ EmitsNothing
    PROVE  Resolving'
<1>1. /\ UNCHANGED <<source, labels, have_labels_changed>>
      /\ phase = "assemble" /\ errors \subseteq errors'
      /\ jump_range_bits \subseteq jump_range_bits'
  BY DEF CodeFrame, SameLineState
<1>2. EmittedAgree'
  <2> SUFFICES ASSUME errors' = {}, ~have_labels_changed'
               PROVE  \A i \in DOMAIN emitted' : LabelsAgree(emitted[i])'
    BY DEF EmittedAgree
  <2>1. \A i \in DOMAIN emitted : LabelsAgree(emitted[i])
    BY <1>1 DEF IInv, Resolving, EmittedAgree, InPass
  <2>2. \A i \in DOMAIN emitted' : LabelsAgree(emitted'[i])
    <3>1. CASE UNCHANGED emitted
      BY <2>1, <3>1
    <3>2. CASE ~UNCHANGED emitted
      <4>1. PICK size \in Nat, to \in Int :
               /\ assembler_pass > 1 /\ NewLineAgrees(size, to)
               /\ emitted' = Append(emitted, Entry(size, to))
        BY <3>2 DEF EmitsLine, EmitsNothing, Emit
      <4>2. LabelsAgree(Entry(size, to))
        BY <4>1 DEF NewLineAgrees
      <4>3. QED
        BY <2>1, <4>1, <4>2, ExtendedBy DEF IInv
    <3>3. QED
      BY <3>1, <3>2
  <2>3. QED
    BY <1>1, <2>2, KeepsAgreeing
<1>3. EmittedFit'
  <2> SUFFICES ASSUME errors' = {}, 1 \notin jump_range_bits'
               PROVE  \A i \in DOMAIN emitted' : ShortFits(emitted[i])'
    BY DEF EmittedFit
  <2>1. \A i \in DOMAIN emitted : ShortFits(emitted[i])
    BY <1>1 DEF IInv, Resolving, EmittedFit, InPass
  <2>2. \A i \in DOMAIN emitted' : ShortFits(emitted'[i])
    <3>1. CASE UNCHANGED emitted
      BY <2>1, <3>1
    <3>2. CASE ~UNCHANGED emitted
      <4>1. PICK size \in Nat, to \in Int :
               /\ assembler_pass > 1 /\ NewLineAgrees(size, to)
               /\ emitted' = Append(emitted, Entry(size, to))
        BY <3>2 DEF EmitsLine, EmitsNothing, Emit
      <4>2. ShortFits(Entry(size, to))
        BY <4>1 DEF NewLineAgrees
      <4>3. QED
        BY <2>1, <4>1, <4>2, ExtendedBy DEF IInv
    <3>3. QED
      BY <3>1, <3>2
  <2>3. QED
    BY <1>1, <2>2, KeepsFitting
<1>4. RangeReported'
  BY <1>1 DEF CodeFrame, IInv, Resolving, RangeReported
<1>5. OutputResolved'
  BY LineUnresolved DEF CodeFrame, IInv
<1>6. QED
  BY <1>2, <1>3, <1>4, <1>5 DEF Resolving

LEMMA DirectiveResolving ==
    ASSUME IInv, DirectiveFrame
    PROVE  Resolving'
<1>1. /\ UNCHANGED <<source, labels, emitted, have_labels_changed, jump_range_bits>>
      /\ phase = "assemble" /\ errors \subseteq errors'
  BY DEF DirectiveFrame, SameLineState
<1>2. EmittedAgree'
  <2> SUFFICES ASSUME errors' = {}, ~have_labels_changed'
               PROVE  \A i \in DOMAIN emitted' : LabelsAgree(emitted[i])'
    BY DEF EmittedAgree
  <2>1. \A i \in DOMAIN emitted : LabelsAgree(emitted[i])
    BY <1>1 DEF IInv, Resolving, EmittedAgree, InPass
  <2>2. QED
    BY <1>1, <2>1, KeepsAgreeing
<1>3. EmittedFit'
  <2> SUFFICES ASSUME errors' = {}, 1 \notin jump_range_bits'
               PROVE  \A i \in DOMAIN emitted' : ShortFits(emitted[i])'
    BY DEF EmittedFit
  <2>1. \A i \in DOMAIN emitted : ShortFits(emitted[i])
    BY <1>1 DEF IInv, Resolving, EmittedFit, InPass
  <2>2. QED
    BY <1>1, <2>1, KeepsFitting
<1>4. RangeReported'
  BY <1>1 DEF IInv, Resolving, RangeReported
<1>5. OutputResolved'
  BY LineUnresolved DEF DirectiveFrame, IInv
<1>6. QED
  BY <1>2, <1>3, <1>4, <1>5 DEF Resolving

\* A definition that prints no message and moves no label: either the table
\* stays as it is, or a deleted label, to which no emitted line refers, comes
\* back to life.
LEMMA DefinesHolds ==
    ASSUME TInv, NEW l \in Labels, NEW v \in Int, NEW errs, Defines(l, v, errs),
           assembler_pass > 1, errors' = {}, ~have_labels_changed'
    PROVE  /\ ~have_labels_changed
           /\ Holds(l, v)'
           /\ \A k \in Labels, w \in Int : Holds(k, w) => Holds(k, w)'
<1>1. ~(assembler_pass <= 1)
  BY DEF TInv, TypeOK, MainTyped
<1>2. labels[l].state # "none"
  BY <1>1 DEF Defines, CreateErrors
<1>3. /\ labels' = Created(l, v) /\ ~have_labels_changed
      /\ ~(labels[l].state = "live" /\ labels[l].value # v)
  BY <1>1, <1>2 DEF Defines, CreateLabel
<1>4. LabelsTyped
  BY DEF TInv, TypeOK
<1>5. /\ labels'[l].state = "live" /\ labels'[l].value = v
      /\ \A k \in Labels \ {l} : labels'[k] = labels[k]
  BY <1>3, <1>4, CreatedTyped
<1>6. Holds(l, v)'
  BY <1>5 DEF Holds
<1>7. ASSUME NEW k \in Labels, NEW w \in Int, Holds(k, w)
      PROVE  Holds(k, w)'
  <2>1. CASE k = l
    BY <1>3, <1>5, <1>7, <2>1 DEF Holds
  <2>2. CASE k # l
    BY <1>5, <1>7, <2>2 DEF Holds
  <2>3. QED
    BY <2>1, <2>2
<1>8. QED
  BY <1>3, <1>6, <1>7

\* The lines of a typed list refer to labels.
LEMMA EmittedFields ==
    ASSUME TInv, NEW i \in DOMAIN emitted
    PROVE  /\ emitted[i].to \in Int /\ source[emitted[i].line] \in Line
           /\ source[emitted[i].line].op \in RefOps \cup {"label", "equ"} =>
                 source[emitted[i].line].l \in Labels
           /\ source[emitted[i].line].op = "equ" =>
                 source[emitted[i].line].m \in Labels
<1>1. emitted[i].to \in Int
  <2>1. emitted[i] \in EntrySet
    BY DEF TInv, TypeOK, EmittedTyped
  <2>2. QED
    BY <2>1 DEF EntrySet
<1>2. source[emitted[i].line] \in Line
  BY DEF TInv, Control, TypeOK, SourceTyped
<1>3. QED
  BY <1>1, <1>2, LineFields

LEMMA LabelResolving ==
    ASSUME IInv, LabelFrame, NEW l \in Labels, NEW v \in Int, NEW errs,
           Defines(l, v, errs), source[line].op \in {"label", "equ"},
           source[line].l = l,
           source[line].op = "equ" =>
              /\ source[line].m \in Labels
              /\ v = Value(source[line].m)
              /\ errs = UndefinedErrors(source[line].m)
    PROVE  Resolving'
<1>1. /\ UNCHANGED <<source, jump_range_bits>>
      /\ phase = "assemble" /\ errors \subseteq errors'
  BY DEF LabelFrame, SameLineState
<1>2. assembler_pass <= 1 => emitted' = <<>>
  BY DEF Defines, EmitDefinition, IInv, TInv, Control, TypeOK, MainTyped
<1>3. assembler_pass > 1 => emitted' = Append(emitted, Entry(0, v))
  BY DEF Defines, EmitDefinition
<1>4. assembler_pass \in Nat
  BY DEF IInv, TInv, TypeOK, MainTyped
<1>5. EmittedAgree'
  <2> SUFFICES ASSUME errors' = {}, ~have_labels_changed', assembler_pass > 1
               PROVE  \A i \in DOMAIN emitted' : LabelsAgree(emitted[i])'
    BY <1>2, <1>4 DEF EmittedAgree
  <2>1. /\ ~have_labels_changed
        /\ Holds(l, v)'
        /\ \A k \in Labels, w \in Int : Holds(k, w) => Holds(k, w)'
    BY DefinesHolds DEF IInv
  <2>2. \A i \in DOMAIN emitted : LabelsAgree(emitted[i])
    BY <1>1, <2>1 DEF IInv, Resolving, EmittedAgree, InPass
  <2>3. ASSUME NEW i \in DOMAIN emitted'
        PROVE  LabelsAgree(emitted[i])'
    <3>1. CASE i \in DOMAIN emitted /\ emitted'[i] = emitted[i]
      <4>1. LabelsAgree(emitted[i])
        BY <2>2, <3>1
      <4>2. /\ emitted[i].to \in Int
            /\ source[emitted[i].line].op \in RefOps \cup {"label", "equ"} =>
                  source[emitted[i].line].l \in Labels
            /\ source[emitted[i].line].op = "equ" =>
                  source[emitted[i].line].m \in Labels
        BY <3>1, EmittedFields DEF IInv
      <4>3. /\ source[emitted[i].line].op \in RefOps \cup {"label", "equ"} =>
                  Holds(source[emitted[i].line].l, emitted[i].to)'
            /\ source[emitted[i].line].op = "equ" =>
                  Holds(source[emitted[i].line].m, emitted[i].to)'
        BY <1>1, <2>1, <3>1, <4>1, <4>2 DEF LabelsAgree, Holds
      <4>4. QED
        BY <1>1, <3>1, <4>3 DEF LabelsAgree
    <3>2. CASE emitted'[i] = Entry(0, v)
      <4>1. emitted'[i].line = line /\ emitted'[i].to = v
        BY <3>2 DEF Entry
      <4>2. source[line].op = "equ" => Holds(source[line].m, v)
        BY Referenced DEF Defines
      <4>3. source[line].op = "equ" =>
               labels'[source[line].m].state = "live" /\ labels'[source[line].m].value = v
        BY <2>1, <4>2 DEF Holds
      <4>4. QED
        BY <1>1, <2>1, <4>1, <4>3 DEF LabelsAgree, Holds
    <3>3. QED
      BY <1>3, <3>1, <3>2, ExtendedBy DEF IInv
  <2>4. QED
    BY <2>3
<1>6. EmittedFit'
  <2> SUFFICES ASSUME errors' = {}, 1 \notin jump_range_bits', assembler_pass > 1
               PROVE  \A i \in DOMAIN emitted' : ShortFits(emitted[i])'
    BY <1>2, <1>4 DEF EmittedFit
  <2>1. \A i \in DOMAIN emitted : ShortFits(emitted[i])
    BY <1>1 DEF IInv, Resolving, EmittedFit, InPass
  <2>2. ShortFits(Entry(0, v))
    BY DEF ShortFits, Entry
  <2>3. \A i \in DOMAIN emitted' : ShortFits(emitted'[i])
    BY <1>3, <2>1, <2>2, ExtendedBy DEF IInv
  <2>4. QED
    BY <1>1, <2>3, KeepsFitting
<1>7. RangeReported'
  BY <1>1 DEF IInv, Resolving, RangeReported
<1>8. OutputResolved'
  BY LineUnresolved DEF LabelFrame, IInv
<1>9. QED
  BY <1>5, <1>6, <1>7, <1>8 DEF Resolving

LEMMA AssembleLineResolving ==
    ASSUME IInv, AssembleLine
    PROVE  Resolving'
<1>1. CASE Code
  BY <1>1, CodeStep, CodeResolving DEF IInv, TInv
<1>2. CASE LabelLine
  <2>1. current_address \in Int
    BY DEF IInv, TInv, TypeOK, AddressTyped
  <2>2. /\ LabelFrame
        /\ source[line].op = "label" /\ source[line].l \in Labels
        /\ Defines(source[line].l, current_address, {})
    BY <1>2, LabelLineStep DEF IInv, TInv
  <2>3. QED
    BY <2>1, <2>2, LabelResolving
<1>3. CASE EquLine
  <2>1. /\ LabelFrame
        /\ source[line].op = "equ"
        /\ source[line].l \in Labels /\ source[line].m \in Labels
        /\ Defines(source[line].l, Value(source[line].m),
                   UndefinedErrors(source[line].m))
    BY <1>3, EquLineStep DEF IInv, TInv
  <2>2. Value(source[line].m) \in Int
    BY <2>1, ValueInt DEF IInv, TInv, TypeOK
  <2>3. QED
    BY <2>1, <2>2, LabelResolving
<1>4. CASE OrgAgain \/ OrgFirst \/ SectionBss \/ If \/ Else \/ Endif
  BY <1>4, OrgAgainStep, OrgFirstStep, SectionBssStep, IfStep, ElseStep, EndifStep,
     DirectiveResolving DEF IInv
<1>5. CASE SkipLine \/ EndOfFile
  BY <1>5, SkipOrEndStep, DirectiveResolving DEF IInv
<1>6. QED
  BY <1>1, <1>2, <1>3, <1>4, <1>5 DEF AssembleLine, Directive

LEMMA StopResolving ==
    ASSUME IInv, FailEarly \/ OpenFails \/ WriteFails
    PROVE  Resolving'
<1>1. /\ phase' = "done" /\ exit' \in {"1", "3"}
      /\ errors \subseteq errors' /\ UNCHANGED jump_range_bits
  BY DEF FailEarly, OpenFails, WriteFails, RemoveOutput, Report
<1>2. EmittedAgree' /\ EmittedFit'
  BY <1>1 DEF EmittedAgree, EmittedFit, InPass
<1>3. RangeReported'
  BY <1>1 DEF IInv, Resolving, RangeReported
<1>4. OutputResolved'
  BY <1>1 DEF OutputResolved
<1>5. QED
  BY <1>2, <1>3, <1>4 DEF Resolving

\* A pass starts with nothing emitted and no range report asked for.
LEMMA BeginResolving ==
    ASSUME IInv, NEW p, BeginAssembly(p), phase # "done", UNCHANGED exit
    PROVE  Resolving'
<1>1. emitted' = <<>> /\ 1 \notin jump_range_bits'
  BY DEF BeginAssembly
<1>2. EmittedAgree' /\ EmittedFit'
  BY <1>1 DEF EmittedAgree, EmittedFit
<1>3. RangeReported'
  BY <1>1 DEF RangeReported
<1>4. OutputResolved'
  BY DEF IInv, TInv, Control, OutputResolved
<1>5. QED
  BY <1>2, <1>3, <1>4 DEF Resolving

LEMMA EndOffsetPassesResolving ==
    ASSUME IInv, EndOffsetPasses
    PROVE  Resolving'
<1>1. /\ phase = "assembled" /\ phase' = "reassemble"
      /\ UNCHANGED <<exit, errors, jump_range_bits>>
  BY DEF EndOffsetPasses, fileVars
<1>2. EmittedAgree' /\ EmittedFit'
  BY <1>1 DEF EmittedAgree, EmittedFit, InPass
<1>3. RangeReported'
  BY <1>1 DEF IInv, Resolving, RangeReported
<1>4. OutputResolved'
  BY <1>1 DEF IInv, TInv, Control, OutputResolved
<1>5. QED
  BY <1>2, <1>3, <1>4 DEF Resolving

\* Success means that no label changed, that no range report was asked for and
\* that no message was printed.
LEMMA EndPassResolving ==
    ASSUME IInv, EndPass
    PROVE  Resolving'
<1>1. /\ phase = "assembled" /\ exit = "running"
      /\ UNCHANGED <<source, labels, emitted>>
      /\ phase' \in {"done", "reassemble"}
      /\ errors \subseteq errors'
  BY DEF EndPass, RemoveOutput, unchangedByMain, IInv, TInv, Control
<1>2. EmittedAgree' /\ EmittedFit'
  BY <1>1 DEF EmittedAgree, EmittedFit, InPass
<1>3. RangeReported'
  <2>1. jump_range_bits' \in {{2}, jump_range_bits}
    BY DEF EndPass
  <2>2. QED
    BY <1>1, <2>1 DEF IInv, Resolving, RangeReported
<1>4. OutputResolved'
  <2> SUFFICES ASSUME exit' = "0"
               PROVE  \A i \in DOMAIN emitted' :
                         LabelsAgree(emitted[i])' /\ ShortFits(emitted[i])'
    BY DEF OutputResolved
  <2>1. errors = {} /\ ~have_labels_changed /\ jump_range_bits # {1}
    BY <1>1 DEF EndPass, RangeReportDue, RemoveOutput
  <2>2. 1 \notin jump_range_bits
    <3>1. jump_range_bits \subseteq {1, 2}
      BY DEF IInv, TInv, TypeOK, MainTyped
    <3>2. ~({1, 2} \subseteq jump_range_bits)
      BY <2>1 DEF IInv, Resolving, RangeReported
    <3>3. QED
      BY <2>1, <3>1, <3>2
  <2>3. \A i \in DOMAIN emitted : LabelsAgree(emitted[i]) /\ ShortFits(emitted[i])
    BY <1>1, <2>1, <2>2 DEF IInv, Resolving, EmittedAgree, EmittedFit, InPass
  <2>4. QED
    BY <1>1, <2>3, KeepsAgreeing, KeepsFitting
<1>5. QED
  BY <1>2, <1>3, <1>4 DEF Resolving

LEMMA StutterResolving ==
    ASSUME IInv, UNCHANGED vars
    PROVE  Resolving'
<1>1. UNCHANGED <<source, labels, emitted, phase, errors, have_labels_changed,
                  jump_range_bits, exit>>
  BY DEF vars, fileVars
<1>2. EmittedAgree'
  BY <1>1 DEF IInv, Resolving, EmittedAgree, InPass, LabelsAgree, Holds
<1>3. EmittedFit' /\ RangeReported'
  BY <1>1 DEF IInv, Resolving, EmittedFit, RangeReported, InPass, ShortFits
<1>4. OutputResolved'
  BY <1>1 DEF IInv, Resolving, OutputResolved, LabelsAgree, Holds, ShortFits
<1>5. QED
  BY <1>2, <1>3, <1>4 DEF Resolving

LEMMA NextResolving ==
    ASSUME IInv, [Next]_vars
    PROVE  IInv'
<1>1. TInv'
  BY NextTyped DEF IInv
<1>2. CASE StartSpecialPass
  BY <1>1, <1>2, BeginResolving DEF StartSpecialPass, fileVars, IInv
<1>3. CASE StartPass
  <2>1. /\ BeginAssembly(IF assembler_pass = MaxPass THEN MaxPass
                         ELSE assembler_pass + 1)
        /\ phase # "done" /\ UNCHANGED exit
    BY <1>3 DEF StartPass
  <2>2. QED
    BY <1>1, <2>1, BeginResolving DEF IInv
<1>4. QED
  BY <1>1, <1>2, <1>3, AssembleLineResolving, StopResolving, EndOffsetPassesResolving,
     EndPassResolving, StutterResolving, Zenon
     DEF Next, MainStep, Failure, Done, IInv

LEMMA InitResolving ==
    ASSUME Init
    PROVE  IInv
<1>1. TInv
  BY InitTyped
<1>2. /\ emitted = <<>> /\ exit = "running"
      /\ jump_range_bits = IF opt_level <= 1 THEN {2} ELSE {}
  BY DEF Init
<1>3. Resolving
  BY <1>2 DEF Resolving, EmittedAgree, EmittedFit, RangeReported, OutputResolved
<1>4. QED
  BY <1>1, <1>3 DEF IInv

\* Whenever mininasm exits with code 0, every reference in the output file was
\* encoded from the value its label has in the final label table, and every
\* 8-bit jump reaches its target: whatever the program, the optimisation level
\* and the origin, and whether or not a special pass 1 was needed.
THEOREM OutputIsResolved == Spec => []OutputResolved
<1>1. Init => IInv
  BY InitResolving
<1>2. IInv /\ [Next]_vars => IInv'
  BY NextResolving
<1>3. IInv => OutputResolved
  BY DEF IInv, Resolving
<1>4. QED
  BY <1>1, <1>2, <1>3, PTL DEF Spec

-----------------------------------------------------------------------------
(* The exit code tells what has become of the output file. *)

\* A pass that generates code writes to an unfinished file.
FileUnfinished == InPass /\ assembler_pass > 1 => output = "partial"

ExitInv == TInv /\ FileUnfinished /\ ExitCodeTellsOutput

LEMMA LineExit ==
    ASSUME ExitInv, SameLineState, TInv'
    PROVE  ExitInv'
<1>1. exit' = "running"
  BY DEF SameLineState, ExitInv, TInv, Control
<1>2. InPass /\ UNCHANGED <<assembler_pass, output>>
  BY DEF SameLineState, InPass
<1>3. QED
  BY <1>1, <1>2 DEF ExitInv, FileUnfinished, ExitCodeTellsOutput

\* Every line is read in the same state of main().
LEMMA AssembleLineKeeps ==
    ASSUME TInv, AssembleLine
    PROVE  SameLineState
<1>1. CASE Code
  BY <1>1, CodeStep DEF TInv, CodeFrame
<1>2. CASE LabelLine \/ EquLine
  BY <1>2, LabelLineStep, EquLineStep DEF TInv, LabelFrame
<1>3. CASE OrgAgain \/ OrgFirst \/ SectionBss \/ If \/ Else \/ Endif
  BY <1>3, OrgAgainStep, OrgFirstStep, SectionBssStep, IfStep, ElseStep, EndifStep
     DEF DirectiveFrame
<1>4. CASE SkipLine \/ EndOfFile
  BY <1>4, SkipOrEndStep DEF DirectiveFrame
<1>5. QED
  BY <1>1, <1>2, <1>3, <1>4 DEF AssembleLine, Directive

LEMMA MainStepExit ==
    ASSUME ExitInv, MainStep, TInv'
    PROVE  ExitInv'
<1>1. CASE FailEarly
  <2>1. phase' = "done" /\ output' = "absent" /\ exit' = "1" /\ errors' # {}
    BY <1>1 DEF FailEarly, RemoveOutput
  <2>2. QED
    BY <2>1 DEF ExitInv, FileUnfinished, ExitCodeTellsOutput, InPass
<1>2. CASE StartSpecialPass
  <2>1. /\ assembler_pass' = 1 /\ UNCHANGED <<exit, output, errors>>
        /\ phase = "assembled"
    BY <1>2 DEF StartSpecialPass, BeginAssembly, fileVars
  <2>2. QED
    BY <2>1 DEF ExitInv, FileUnfinished, ExitCodeTellsOutput, TInv, Control
<1>3. CASE EndOffsetPasses
  <2>1. phase' = "reassemble" /\ UNCHANGED <<exit, output, errors>>
    BY <1>3 DEF EndOffsetPasses, fileVars
  <2>2. QED
    BY <2>1 DEF ExitInv, FileUnfinished, ExitCodeTellsOutput, InPass
<1>4. CASE StartPass
  <2>1. output' = "partial" /\ UNCHANGED exit /\ phase = "reassemble"
    BY <1>4 DEF StartPass
  <2>2. QED
    BY <2>1 DEF ExitInv, FileUnfinished, ExitCodeTellsOutput, TInv, Control
<1>5. CASE EndPass
  <2>1. phase' \in {"done", "reassemble"} /\ exit = "running"
    BY <1>5 DEF EndPass, RemoveOutput, ExitInv, TInv, Control
  <2>2. /\ exit' = "0" => output' = "complete" /\ errors' = {}
        /\ exit' = "1" => output' = "absent" /\ errors' # {}
        /\ exit' # "3"
    BY <1>5, <2>1 DEF EndPass, RemoveOutput
  <2>3. QED
    BY <2>1, <2>2 DEF ExitInv, FileUnfinished, ExitCodeTellsOutput, InPass
<1>6. QED
  BY <1>1, <1>2, <1>3, <1>4, <1>5 DEF MainStep

LEMMA FailureExit ==
    ASSUME ExitInv, Failure, TInv'
    PROVE  ExitInv'
<1>1. phase' = "done" /\ UNCHANGED output
  BY DEF Failure, OpenFails, WriteFails
<1>2. CASE OpenFails
  <2>1. exit' = "1" /\ "could_not_open_output" \in errors'
    BY <1>2 DEF OpenFails, Report
  <2>2. QED
    BY <1>1, <2>1 DEF ExitInv, FileUnfinished, ExitCodeTellsOutput, InPass
<1>3. CASE WriteFails
  <2>1. exit' = "3" /\ InPass /\ emitted # <<>>
    BY <1>3 DEF WriteFails, InPass
  <2>2. output = "partial"
    BY <2>1 DEF ExitInv, FileUnfinished, TInv, Control, TypeOK, MainTyped
  <2>3. QED
    BY <1>1, <2>1, <2>2 DEF ExitInv, FileUnfinished, ExitCodeTellsOutput, InPass
<1>4. QED
  BY <1>2, <1>3 DEF Failure

\* In every behaviour, exit code 0 means a complete file and no message, exit
\* code 1 after any error but a failed creat() means that the file is gone, and
\* only a failed write() leaves an unfinished one.
THEOREM ExitCodeIsRight == Spec => []ExitCodeTellsOutput
<1>1. Init => ExitInv
  <2> SUFFICES ASSUME Init PROVE ExitInv
    OBVIOUS
  <2>1. exit = "running" /\ assembler_pass = 0
    BY DEF Init
  <2>2. QED
    BY <2>1, InitTyped DEF ExitInv, FileUnfinished, ExitCodeTellsOutput
<1>2. ExitInv /\ [Next]_vars => ExitInv'
  <2> SUFFICES ASSUME ExitInv, [Next]_vars PROVE ExitInv'
    OBVIOUS
  <2>1. TInv'
    BY NextTyped DEF ExitInv
  <2>2. CASE AssembleLine
    BY <2>1, <2>2, AssembleLineKeeps, LineExit DEF ExitInv
  <2>3. CASE MainStep
    BY <2>1, <2>3, MainStepExit
  <2>4. CASE Failure
    BY <2>1, <2>4, FailureExit
  <2>5. CASE UNCHANGED vars
    BY <2>1, <2>5 DEF vars, fileVars, ExitInv, FileUnfinished, ExitCodeTellsOutput, InPass
  <2>6. QED
    BY <2>2, <2>3, <2>4, <2>5 DEF Next, Done
<1>3. ExitInv => ExitCodeTellsOutput
  BY DEF ExitInv
<1>4. QED
  BY <1>1, <1>2, <1>3, PTL DEF Spec

-----------------------------------------------------------------------------
(* Endless changes are noticed: the counter of violations. *)

\* The sum of the changes is never below the largest one seen at a turn, and
\* directions are counted from the first pass that generates code.
TurnInv ==
    /\ TInv
    /\ delta_acc >= delta_acc_max
    /\ assembler_pass <= 1 => cur_dir = 1

TurnCounted == cur_dir' # cur_dir => delta_violation_count' = delta_violation_count + 1

LEMMA CountingTurns ==
    ASSUME TurnInv, CountDeltaViolations
    PROVE  delta_acc' >= delta_acc_max' /\ TurnCounted
<1>1. /\ AbsDelta \in Nat /\ DeltaDir \in {-1, 0, 1}
      /\ delta_acc \in Nat /\ delta_acc_max \in Nat
  BY DEF TurnInv, TInv, TypeOK, AddressTyped, DeltaTyped, Delta, AbsDelta, DeltaDir
<1>2. delta_acc' >= delta_acc /\ delta_acc' \in Nat /\ delta_acc_max' \in {delta_acc, delta_acc_max}
  BY <1>1 DEF CountDeltaViolations
<1>3. delta_acc' >= delta_acc_max'
  BY <1>1, <1>2 DEF TurnInv
<1>4. TurnCounted
  BY <1>1 DEF CountDeltaViolations, TurnCounted, TurnInv
<1>5. QED
  BY <1>3, <1>4

LEMMA NextTurns ==
    ASSUME TurnInv, [Next]_vars
    PROVE  TurnInv' /\ (TurnCounted \/ UNCHANGED vars)
<1>1. TInv'
  BY NextTyped DEF TurnInv
<1>2. CASE AssembleLine
  <2>1. SameLineState
    BY <1>2, AssembleLineKeeps DEF TurnInv
  <2>2. QED
    BY <1>1, <2>1 DEF SameLineState, TurnInv, TurnCounted
<1>3. CASE FailEarly \/ StartSpecialPass \/ Failure \/ UNCHANGED vars
  <2>1. UNCHANGED deltaVars /\ (assembler_pass' = assembler_pass \/ assembler_pass <= 1)
    BY <1>3 DEF FailEarly, StartSpecialPass, Failure, OpenFails, WriteFails, vars
  <2>2. UNCHANGED <<delta_acc, delta_acc_max, cur_dir>>
    BY <2>1 DEF deltaVars
  <2>3. QED
    BY <1>1, <2>1, <2>2 DEF TurnInv, TurnCounted, TInv, TypeOK, MainTyped
<1>4. CASE EndOffsetPasses
  <2>1. assembler_pass <= 1 /\ cur_dir' = 1 /\ delta_acc' = 0 /\ delta_acc_max' = 0
    BY <1>4 DEF EndOffsetPasses
  <2>2. QED
    BY <1>1, <2>1 DEF TurnInv, TurnCounted
<1>5. CASE StartPass
  <2>1. /\ UNCHANGED <<delta_acc, delta_acc_max, cur_dir>>
        /\ ~(assembler_pass' <= 1)
    BY <1>5 DEF StartPass, BeginAssembly, MaxPass, TurnInv, TInv, TypeOK, MainTyped, Control
  <2>2. QED
    BY <1>1, <2>1 DEF TurnInv, TurnCounted
<1>6. CASE EndPass
  <2>1. assembler_pass' = assembler_pass /\ assembler_pass > 1
    BY <1>6 DEF EndPass
  <2>2. CountDeltaViolations \/ UNCHANGED deltaVars
    BY <1>6 DEF EndPass
  <2>3. delta_acc' >= delta_acc_max' /\ TurnCounted
    BY <2>2, CountingTurns DEF deltaVars, TurnInv, TurnCounted
  <2>4. QED
    BY <1>1, <2>1, <2>3 DEF TurnInv, TInv, TypeOK, MainTyped
<1>7. QED
  BY <1>2, <1>3, <1>4, <1>5, <1>6 DEF Next, MainStep, Done

\* In every behaviour, a pass that turns from growing to shrinking, or back,
\* raises the count of violations: nothing that happened before can hide it.
THEOREM TurnsAreCounted == Spec => EveryTurnIsCounted
<1>1. Init => TurnInv
  <2> SUFFICES ASSUME Init PROVE TurnInv
    OBVIOUS
  <2>1. delta_acc = 0 /\ delta_acc_max = 0 /\ cur_dir = 1
    BY DEF Init
  <2>2. QED
    BY <2>1, InitTyped DEF TurnInv
<1>2. TurnInv /\ [Next]_vars => TurnInv'
  BY NextTurns
<1>3. TurnInv /\ [Next]_vars =>
         [cur_dir' # cur_dir => delta_violation_count' = delta_violation_count + 1]_vars
  BY NextTurns DEF TurnCounted
<1>4. QED
  BY <1>1, <1>2, <1>3, PTL DEF Spec, EveryTurnIsCounted

-----------------------------------------------------------------------------
(* The list of wide instructions: what a query finds. *)

\* All blocks but the last are full, and none is empty.
Filled(blocks) ==
    \A b \in DOMAIN blocks :
        /\ Len(blocks[b]) \in 1..BlockSize
        /\ b < Len(blocks) => Len(blocks[b]) = BlockSize

LEMMA EntriesAre ==
    ASSUME NEW blocks \in Blocks, Filled(blocks), NEW p
    PROVE  p \in Entries(blocks) <=>
              \E b \in 1..Len(blocks) : \E i \in 1..Len(blocks[b]) : p = At(b, i)
<1>1. \A b \in 1..Len(blocks) : blocks[b] \in Seq(Int) /\ Len(blocks[b]) \in 1..BlockSize
  BY DEF Blocks, Filled
<1>2. ASSUME p \in Entries(blocks)
      PROVE  \E b \in 1..Len(blocks) : \E i \in 1..Len(blocks[b]) : p = At(b, i)
  <2>1. p = At(p.block, p.index) /\ p.block \in 1..Len(blocks) /\ p.index \in 1..Len(blocks[p.block])
    BY <1>1, <1>2 DEF Entries, At, Blocks
  <2>2. QED
    BY <2>1
<1>3. ASSUME NEW b \in 1..Len(blocks), NEW i \in 1..Len(blocks[b]), p = At(b, i)
      PROVE  p \in Entries(blocks)
  <2>1. b \in DOMAIN blocks /\ i \in 1..BlockSize /\ i \in DOMAIN blocks[b]
    BY <1>1, BlockAssumption DEF Blocks
  <2>2. QED
    BY <1>3, <2>1 DEF Entries, At
<1>4. QED
  BY <1>2, <1>3

\* The fields of an entry.
LEMMA EntryIs ==
    ASSUME NEW blocks \in Blocks, Filled(blocks), NEW p \in Entries(blocks)
    PROVE  /\ p = At(p.block, p.index) /\ p # NoPosition
           /\ p.block \in 1..Len(blocks)
           /\ p.index \in 1..Len(blocks[p.block])
           /\ Len(blocks[p.block]) \in 1..BlockSize
           /\ p.block < Len(blocks) => Len(blocks[p.block]) = BlockSize
           /\ Offset(blocks, p) \in Int
<1>1. PICK b \in 1..Len(blocks) : \E i \in 1..Len(blocks[b]) : p = At(b, i)
  BY EntriesAre
<1>2. PICK i \in 1..Len(blocks[b]) : p = At(b, i)
  BY <1>1
<1>3. blocks[b] \in Seq(Int) /\ b \in DOMAIN blocks
  BY DEF Blocks
<1>4. p.block = b /\ p.index = i /\ p # NoPosition
  BY <1>2 DEF At, NoPosition
<1>5. Offset(blocks, p) \in Int
  BY <1>3, <1>4 DEF Offset
<1>6. QED
  BY <1>2, <1>3, <1>4, <1>5 DEF Filled

\* Unless it is wide_instr_add_at, the position behind an entry is an entry.
LEMMA BehindIsEntry ==
    ASSUME NEW blocks \in Blocks, Filled(blocks), blocks # <<>>,
           NEW at \in Entries(blocks) \cup {NoPosition},
           Behind(blocks, at) # AddAt(blocks)
    PROVE  Behind(blocks, at) \in Entries(blocks)
<1>1. Len(blocks) \in Nat /\ Len(blocks) > 0
  BY DEF Blocks
<1>2. \A b \in 1..Len(blocks) : Len(blocks[b]) \in 1..BlockSize
  BY DEF Blocks, Filled
<1>3. \A b \in 1..Len(blocks) : b < Len(blocks) => Len(blocks[b]) = BlockSize
  BY DEF Blocks, Filled
<1>4. CASE at = NoPosition
  <2>1. Behind(blocks, at) = At(1, 1)
    BY <1>4 DEF Behind
  <2>2. QED
    BY <1>1, <1>2, <2>1, EntriesAre, BlockAssumption
<1>5. CASE at # NoPosition
  <2> DEFINE b == at.block
             i == at.index
             next == At(b, i + 1)
  <2>1. at \in Entries(blocks)
    BY <1>5
  <2>2. b \in 1..Len(blocks) /\ i \in 1..Len(blocks[b])
    BY <2>1, EntryIs
  <2>3. next.index = i + 1
    BY DEF At
  <2>4. CASE next # AddAt(blocks) /\ i = BlockSize
    <3>1. Behind(blocks, at) = At(b + 1, 1)
      BY <1>5, <2>2, <2>3, <2>4 DEF Behind
    <3>2. b # Len(blocks)
      BY <1>1, <1>2, <2>2, <2>4, BlockAssumption DEF AddAt
    <3>3. b + 1 \in 1..Len(blocks) /\ 1 \in 1..Len(blocks[b + 1])
      BY <1>1, <1>2, <2>2, <3>2, BlockAssumption
    <3>4. QED
      BY <3>1, <3>3, EntriesAre
  <2>5. CASE ~(next # AddAt(blocks) /\ i = BlockSize)
    <3>1. Behind(blocks, at) = next
      <4>1. i \in Nat
        BY <2>2
      <4>2. QED
        BY <1>5, <2>3, <2>5, <4>1, BlockAssumption DEF Behind
    <3>2. next # AddAt(blocks) /\ i # BlockSize
      BY <2>5, <3>1
    <3>3. i + 1 \in 1..Len(blocks[b])
      <4>1. CASE b = Len(blocks)
        <5>1. i # Len(blocks[b])
          BY <3>2, <4>1 DEF AddAt
        <5>2. QED
          BY <1>2, <2>2, <5>1, BlockAssumption
      <4>2. CASE b # Len(blocks)
        <5>1. Len(blocks[b]) = BlockSize
          BY <1>1, <1>3, <2>2, <4>2
        <5>2. QED
          BY <2>2, <3>2, <5>1, BlockAssumption
      <4>3. QED
        BY <4>1, <4>2
    <3>4. QED
      BY <2>2, <3>1, <3>3, EntriesAre
  <2>6. QED
    BY <2>4, <2>5
<1>6. QED
  BY <1>4, <1>5

\* No entry is between a position and the one behind it.
LEMMA BehindIsNext ==
    ASSUME NEW blocks \in Blocks, Filled(blocks),
           NEW at \in Entries(blocks) \cup {NoPosition},
           NEW p \in Entries(blocks), at = NoPosition \/ IsBefore(at, p)
    PROVE  /\ Behind(blocks, at) # AddAt(blocks)
           /\ p = Behind(blocks, at) \/ IsBefore(Behind(blocks, at), p)
<1>1. /\ p = At(p.block, p.index)
      /\ p.block \in 1..Len(blocks) /\ p.index \in 1..Len(blocks[p.block])
      /\ Len(blocks[p.block]) \in 1..BlockSize
      /\ Len(blocks) \in Nat
  BY EntryIs DEF Blocks
<1>2. \A b \in 1..Len(blocks) : Len(blocks[b]) \in 1..BlockSize
  BY DEF Blocks, Filled
<1>3. \A b, i, c, j : At(b, i) = At(c, j) => b = c /\ i = j
  BY DEF At
<1>4. \A b, i : At(b, i).block = b /\ At(b, i).index = i
  BY DEF At
<1>5. CASE at = NoPosition
  <2>1. Behind(blocks, at) = At(1, 1)
    BY <1>5 DEF Behind
  <2>2. At(1, 1) # AddAt(blocks)
    BY <1>1, <1>2, <1>3, BlockAssumption DEF AddAt
  <2>3. p = At(1, 1) \/ IsBefore(At(1, 1), p)
    BY <1>1, <1>4 DEF IsBefore
  <2>4. QED
    BY <2>1, <2>2, <2>3
<1>6. CASE at # NoPosition
  <2> DEFINE b == at.block
             i == at.index
             next == At(b, i + 1)
  <2>1. /\ b \in 1..Len(blocks) /\ i \in 1..Len(blocks[b])
        /\ Len(blocks[b]) \in 1..BlockSize
        /\ b < Len(blocks) => Len(blocks[b]) = BlockSize
    BY <1>6, EntryIs
  <2>2. IsBefore(at, p)
    BY <1>6
  <2>3. next # AddAt(blocks)
    <3>1. CASE b = Len(blocks)
      <4>1. p.block = b /\ i < p.index
        BY <1>1, <2>1, <2>2, <3>1 DEF IsBefore
      <4>2. QED
        BY <1>1, <1>3, <2>1, <3>1, <4>1 DEF AddAt
    <3>2. CASE b # Len(blocks)
      BY <1>3, <3>2 DEF AddAt
    <3>3. QED
      BY <3>1, <3>2
  <2>4. CASE i = BlockSize
    <3>1. Behind(blocks, at) = At(b + 1, 1)
      BY <1>4, <1>6, <2>3, <2>4, BlockAssumption DEF Behind
    <3>2. p.block # b
      BY <1>1, <2>1, <2>2, <2>4, BlockAssumption DEF IsBefore
    <3>3. p.block > b
      BY <1>1, <2>1, <2>2, <3>2 DEF IsBefore
    <3>4. p = At(b + 1, 1) \/ IsBefore(At(b + 1, 1), p)
      BY <1>1, <1>4, <2>1, <3>3 DEF IsBefore
    <3>5. At(b + 1, 1) # AddAt(blocks)
      BY <1>1, <1>2, <1>3, BlockAssumption DEF AddAt
    <3>6. QED
      BY <3>1, <3>4, <3>5
  <2>5. CASE i # BlockSize
    <3>1. Behind(blocks, at) = next
      BY <1>4, <1>6, <2>1, <2>5, BlockAssumption DEF Behind
    <3>2. p = next \/ IsBefore(next, p)
      BY <1>1, <1>4, <2>1, <2>2 DEF IsBefore
    <3>3. QED
      BY <2>3, <3>1, <3>2
  <2>6. QED
    BY <2>4, <2>5
<1>7. QED
  BY <1>5, <1>6

\* If the offsets grow, a query that prints no message finds exactly the offsets
\* that are in the list, wherever it begins to read.
LEMMA QueryFinds ==
    ASSUME NEW blocks \in Blocks, Filled(blocks),
           NEW at \in Entries(blocks) \cup {NoPosition}, NEW fpos \in Int
    PROVE  LET answer == Query(blocks, at, fpos)
           IN  /\ answer.read_at \in Entries(blocks) \cup {NoPosition}
               /\ Growing(blocks) /\ ~answer.bad_order =>
                     (answer.wide <=> IsIn(fpos, blocks))
<1> DEFINE again == at # NoPosition /\ fpos = Offset(blocks, at)
           before == at # NoPosition /\ fpos < Offset(blocks, at)
           behind == Behind(blocks, at)
           more == ~again /\ ~before /\ blocks # <<>> /\ behind # AddAt(blocks)
           reached == more /\ fpos = Offset(blocks, behind)
           missed == more /\ fpos > Offset(blocks, behind)
<1>1. Query(blocks, at, fpos) = [wide |-> again \/ reached,
                                 read_at |-> IF reached THEN behind ELSE at,
                                 bad_order |-> before \/ missed]
  BY DEF Query
<1>2. more => behind \in Entries(blocks)
  BY BehindIsEntry
<1>3. at # NoPosition => at \in Entries(blocks)
  OBVIOUS
<1>4. again \/ reached => IsIn(fpos, blocks)
  BY <1>2, <1>3 DEF IsIn
<1>5. ASSUME Growing(blocks), ~(before \/ missed), IsIn(fpos, blocks), ~again
      PROVE  reached
  <2>1. PICK p \in Entries(blocks) : Offset(blocks, p) = fpos
    BY <1>5 DEF IsIn
  <2>2. at = NoPosition \/ IsBefore(at, p)
    <3>1. SUFFICES ASSUME at # NoPosition, ~IsBefore(at, p) PROVE FALSE
      OBVIOUS
    <3>2. at \in Entries(blocks)
      BY <3>1
    <3>3. /\ at = At(at.block, at.index) /\ at.block \in 1..Len(blocks)
          /\ at.index \in 1..Len(blocks[at.block]) /\ Offset(blocks, at) \in Int
          /\ p = At(p.block, p.index) /\ p.block \in 1..Len(blocks)
          /\ p.index \in 1..Len(blocks[p.block])
      BY <3>2, EntryIs
    <3>4. at.block \in Int /\ at.index \in Int /\ p.block \in Int /\ p.index \in Int
      BY <3>3
    <3>5. at = p \/ IsBefore(p, at)
      BY <3>1, <3>3, <3>4 DEF IsBefore
    <3>6. at # p
      BY <1>5, <2>1, <3>1
    <3>7. Offset(blocks, p) < Offset(blocks, at)
      BY <1>5, <3>2, <3>5, <3>6 DEF Growing
    <3>8. QED
      BY <1>5, <2>1, <3>1, <3>7
  <2>3. behind # AddAt(blocks) /\ (p = behind \/ IsBefore(behind, p))
    BY <2>2, BehindIsNext
  <2>4. blocks # <<>>
    BY <2>1, EntryIs
  <2>5. more
    BY <1>5, <2>3, <2>4
  <2>6. behind \in Entries(blocks) /\ Offset(blocks, behind) \in Int
    BY <1>2, <2>5, EntryIs
  <2>7. ~IsBefore(behind, p)
    BY <1>5, <2>1, <2>5, <2>6 DEF Growing
  <2>8. QED
    BY <2>1, <2>3, <2>5, <2>7
<1>6. /\ Query(blocks, at, fpos).wide = (again \/ reached)
      /\ Query(blocks, at, fpos).read_at = IF reached THEN behind ELSE at
      /\ Query(blocks, at, fpos).bad_order = (before \/ missed)
  BY <1>1
<1> HIDE DEF again, before, missed
<1>7. reached => behind \in Entries(blocks)
  BY <1>2
<1> HIDE DEF reached, behind
<1>8. QED
  BY <1>4, <1>5, <1>6, <1>7

\* The list new is the list blocks, of n blocks, with fpos added at At(c, j).
IsExtended(blocks, new, fpos, n, c, j) ==
    /\ DOMAIN blocks = 1..n /\ DOMAIN new = 1..c
    /\ j \in 1..BlockSize /\ DOMAIN new[c] = 1..j /\ new[c][j] = fpos
    /\ \A b \in 1..n : b # c => new[b] = blocks[b]
    /\ \/ /\ c = n
          /\ DOMAIN blocks[n] = 1..j-1
          /\ \A i \in 1..j-1 : new[c][i] = blocks[n][i]
       \/ /\ c = n + 1
          /\ j = 1
          /\ n > 0 => DOMAIN blocks[n] = 1..BlockSize

LEMMA AddExtended ==
    ASSUME NEW blocks \in Blocks, Filled(blocks), NEW fpos \in Int
    PROVE  \E n \in Nat : \E c \in Nat \ {0} : \E j \in Nat :
              IsExtended(blocks, AddEntry(blocks, fpos), fpos, n, c, j)
<1> DEFINE new == AddEntry(blocks, fpos)
<1>1. PICK n \in Nat : n = Len(blocks)
  BY DEF Blocks
<1>2. DOMAIN blocks = 1..n /\ BlockSize \in Nat \ {0}
  BY <1>1, BlockAssumption DEF Blocks
<1>3. \A b \in 1..n : /\ blocks[b] \in Seq(Int) /\ Len(blocks[b]) \in 1..BlockSize
                      /\ DOMAIN blocks[b] = 1..Len(blocks[b])
  <2>1. SUFFICES ASSUME NEW b \in 1..n
                 PROVE  /\ blocks[b] \in Seq(Int) /\ Len(blocks[b]) \in 1..BlockSize
                        /\ DOMAIN blocks[b] = 1..Len(blocks[b])
    OBVIOUS
  <2>2. blocks[b] \in Seq(Int)
    BY <1>2 DEF Blocks
  <2>3. QED
    BY <1>2, <2>2 DEF Filled
<1>4. AddAt(blocks).index = Len(blocks[n]) + 1
  BY <1>1 DEF AddAt, At
<1>5. CASE n = 0
  <2>1. blocks = <<>>
    <3>1. Len(blocks) = 0 /\ blocks \in Seq(Seq(Int))
      BY <1>1, <1>5 DEF Blocks
    <3>2. QED
      BY <3>1
  <2>2. new = Append(<<>>, <<fpos>>)
    BY <2>1 DEF AddEntry, BlockIsFull
  <2>3. new = <<<<fpos>>>>
    BY <2>2
  <2>4. DOMAIN new = 1..1 /\ DOMAIN new[1] = 1..1 /\ new[1][1] = fpos
    BY <2>3
  <2> HIDE DEF new
  <2>5. IsExtended(blocks, new, fpos, n, 1, 1)
    BY <1>2, <1>5, <2>4 DEF IsExtended
  <2>6. QED
    BY <2>5 DEF new
<1>6. CASE n > 0 /\ Len(blocks[n]) = BlockSize
  <2>1. BlockIsFull(blocks)
    BY <1>2, <1>4, <1>6 DEF BlockIsFull
  <2>2. new = Append(blocks, <<fpos>>)
    BY <2>1 DEF AddEntry
  <2>3. DOMAIN new = 1..n+1 /\ new[n + 1] = <<fpos>> /\ \A b \in 1..n : new[b] = blocks[b]
    BY <1>1, <2>2 DEF Blocks
  <2>4. DOMAIN <<fpos>> = 1..1 /\ <<fpos>>[1] = fpos
    OBVIOUS
  <2>5. n \in 1..n
    BY <1>6
  <2> HIDE DEF new
  <2>6. IsExtended(blocks, new, fpos, n, n + 1, 1)
    BY <1>2, <1>3, <1>6, <2>3, <2>4, <2>5 DEF IsExtended
  <2>7. n + 1 \in Nat \ {0} /\ 1 \in Nat
    BY <1>6
  <2>8. QED
    BY <2>6, <2>7 DEF new
<1>7. CASE n > 0 /\ Len(blocks[n]) # BlockSize
  <2> DEFINE k == Len(blocks[n])
  <2>1. n \in 1..n /\ k \in 1..BlockSize /\ k # BlockSize /\ blocks # <<>>
    BY <1>1, <1>3, <1>7 DEF Blocks
  <2>2. ~BlockIsFull(blocks)
    BY <1>2, <1>4, <2>1 DEF BlockIsFull
  <2>3. new = [blocks EXCEPT ![n] = Append(@, fpos)]
    BY <1>1, <2>2 DEF AddEntry
  <2>4. /\ DOMAIN new = 1..n /\ new[n] = Append(blocks[n], fpos)
        /\ \A b \in 1..n : b # n => new[b] = blocks[b]
    BY <1>2, <2>1, <2>3
  <2>5. /\ DOMAIN new[n] = 1..k+1 /\ new[n][k + 1] = fpos
        /\ \A i \in 1..k : new[n][i] = blocks[n][i]
    BY <1>3, <2>1, <2>4
  <2>6. DOMAIN blocks[n] = 1..k
    BY <1>3, <2>1
  <2> HIDE DEF new, k
  <2>7. k + 1 \in 1..BlockSize /\ k + 1 - 1 = k
    BY <1>2, <2>1
  <2>8. IsExtended(blocks, new, fpos, n, n, k + 1)
    BY <1>2, <2>4, <2>5, <2>6, <2>7 DEF IsExtended
  <2>9. n \in Nat \ {0} /\ k + 1 \in Nat
    BY <1>2, <1>7, <2>1
  <2>10. QED
    BY <2>8, <2>9 DEF new
<1>8. QED
  BY <1>5, <1>6, <1>7

LEMMA Extended ==
    ASSUME NEW blocks \in Blocks, Filled(blocks), NEW fpos \in Int, NEW new \in Blocks,
           NEW n \in Nat, NEW c \in Nat \ {0}, NEW j \in Nat,
           IsExtended(blocks, new, fpos, n, c, j)
    PROVE  /\ Filled(new)
           /\ \A p \in Entries(blocks) :
                 p \in Entries(new) /\ Offset(new, p) = Offset(blocks, p)
           /\ Offset(new, At(c, j)) = fpos
           /\ \A p \in Entries(new) :
                 p = At(c, j) \/ (p \in Entries(blocks) /\ ~IsBefore(At(c, j), p))
<1>1. /\ DOMAIN blocks = 1..n /\ DOMAIN new = 1..c /\ BlockSize \in Nat \ {0}
      /\ Len(blocks) = n /\ Len(new) = c
  BY BlockAssumption DEF IsExtended, Blocks
<1>2. \A b \in 1..n : /\ Len(blocks[b]) \in 1..BlockSize
                      /\ b < n => Len(blocks[b]) = BlockSize
                      /\ DOMAIN blocks[b] = 1..Len(blocks[b])
  <2>1. SUFFICES ASSUME NEW b \in 1..n
                 PROVE  /\ Len(blocks[b]) \in 1..BlockSize
                        /\ b < n => Len(blocks[b]) = BlockSize
                        /\ DOMAIN blocks[b] = 1..Len(blocks[b])
    OBVIOUS
  <2>2. blocks[b] \in Seq(Int)
    BY <1>1 DEF Blocks
  <2>3. QED
    BY <1>1, <2>2 DEF Filled
<1>3. \A b \in 1..c : Len(new[b]) \in Nat /\ DOMAIN new[b] = 1..Len(new[b])
  BY <1>1 DEF Blocks
<1>4. j \in 1..BlockSize /\ Len(new[c]) = j /\ new[c][j] = fpos
  <2>1. c \in 1..c /\ DOMAIN new[c] = 1..j /\ j \in 1..BlockSize /\ new[c][j] = fpos
    BY DEF IsExtended
  <2>2. Len(new[c]) \in Nat /\ 1..Len(new[c]) = 1..j
    BY <1>3, <2>1
  <2>3. QED
    BY <2>1, <2>2
<1>5. \A b \in 1..c : b # c => b \in 1..n /\ new[b] = blocks[b] /\ Len(blocks[b]) = BlockSize
  <2>1. SUFFICES ASSUME NEW b \in 1..c, b # c
                 PROVE  b \in 1..n /\ new[b] = blocks[b] /\ Len(blocks[b]) = BlockSize
    OBVIOUS
  <2>2. b \in 1..n /\ new[b] = blocks[b]
    BY <2>1 DEF IsExtended
  <2>3. CASE b < n
    BY <1>2, <2>2, <2>3
  <2>4. CASE b = n
    <3>1. c = n + 1 /\ DOMAIN blocks[n] = 1..BlockSize
      BY <2>1, <2>2, <2>4 DEF IsExtended
    <3>2. 1..Len(blocks[n]) = 1..BlockSize /\ Len(blocks[n]) \in 1..BlockSize
      BY <1>2, <2>2, <2>4, <3>1
    <3>3. QED
      BY <1>1, <2>2, <2>4, <3>2
  <2>5. QED
    BY <2>2, <2>3, <2>4
<1>6. \A b \in 1..n : b # c => b \in 1..c /\ new[b] = blocks[b]
  BY DEF IsExtended
<1>7. c \in 1..n => /\ c = n /\ Len(blocks[c]) = j - 1
                    /\ \A i \in 1..j-1 : new[c][i] = blocks[c][i]
  <2>1. SUFFICES ASSUME c \in 1..n
                 PROVE  /\ c = n /\ Len(blocks[c]) = j - 1
                        /\ \A i \in 1..j-1 : new[c][i] = blocks[c][i]
    OBVIOUS
  <2>2. /\ c = n /\ DOMAIN blocks[c] = 1..j-1
        /\ \A i \in 1..j-1 : new[c][i] = blocks[c][i]
    BY <2>1 DEF IsExtended
  <2>3. 1..Len(blocks[c]) = 1..j-1 /\ Len(blocks[c]) \in Nat /\ j - 1 \in Nat
    BY <1>1, <1>2, <1>4, <2>1, <2>2
  <2>4. QED
    BY <2>2, <2>3
<1>8. c \notin 1..n => j = 1 /\ c = n + 1
  BY DEF IsExtended
<1>9. \A b, i : At(b, i).block = b /\ At(b, i).index = i
  BY DEF At
<1>10. Filled(new)
  <2>1. ASSUME NEW b \in 1..c
        PROVE  Len(new[b]) \in 1..BlockSize /\ (b < c => Len(new[b]) = BlockSize)
    BY <1>1, <1>4, <1>5
  <2>2. QED
    BY <1>1, <2>1 DEF Filled
<1>11. ASSUME NEW p \in Entries(blocks)
       PROVE  p \in Entries(new) /\ Offset(new, p) = Offset(blocks, p)
  <2>1. /\ p = At(p.block, p.index) /\ p.block \in 1..n
        /\ p.index \in 1..Len(blocks[p.block])
    BY <1>1, EntryIs
  <2>2. /\ p.block \in 1..c /\ p.index \in 1..Len(new[p.block])
        /\ new[p.block][p.index] = blocks[p.block][p.index]
    <3>1. CASE p.block = c
      <4>1. Len(blocks[c]) = j - 1 /\ \A i \in 1..j-1 : new[c][i] = blocks[c][i]
        BY <1>7, <2>1, <3>1
      <4>2. p.index \in 1..j-1 /\ p.index \in 1..j
        BY <2>1, <3>1, <4>1
      <4>3. QED
        BY <1>4, <3>1, <4>1, <4>2
    <3>2. CASE p.block # c
      <4>1. p.block \in 1..c /\ new[p.block] = blocks[p.block]
        BY <1>6, <2>1, <3>2
      <4>2. QED
        BY <2>1, <4>1
    <3>3. QED
      BY <3>1, <3>2
  <2>3. QED
    BY <1>1, <1>10, <2>1, <2>2, EntriesAre DEF Offset
<1>12. ASSUME NEW p \in Entries(new), p # At(c, j)
       PROVE  p \in Entries(blocks) /\ ~IsBefore(At(c, j), p)
  <2>1. /\ p = At(p.block, p.index) /\ p.block \in 1..c
        /\ p.index \in 1..Len(new[p.block])
    BY <1>1, <1>10, EntryIs
  <2>2. p.block = c => p.index \in 1..j-1
    BY <1>4, <1>12, <2>1
  <2>3. p.block \in 1..n /\ p.index \in 1..Len(blocks[p.block])
    <3>1. CASE p.block = c
      <4>1. j # 1
        BY <2>2, <3>1
      <4>2. c \in 1..n
        BY <1>8, <4>1
      <4>3. QED
        BY <1>7, <2>2, <3>1, <4>2
    <3>2. CASE p.block # c
      BY <1>5, <2>1, <3>2
    <3>3. QED
      BY <3>1, <3>2
  <2>4. ~IsBefore(At(c, j), p)
    <3>1. p.block \in Int /\ p.block <= c
      BY <2>1
    <3>2. p.block = c => p.index < j /\ p.index \in Int
      BY <2>2
    <3>3. QED
      BY <1>9, <3>1, <3>2 DEF IsBefore
  <2>5. QED
    BY <1>1, <2>1, <2>3, <2>4, EntriesAre
<1>13. Offset(new, At(c, j)) = fpos
  BY <1>4, <1>9 DEF Offset
<1>14. QED
  BY <1>10, <1>11, <1>12, <1>13

\* A new offset comes behind all others.
LEMMA AddExtends ==
    ASSUME NEW blocks \in Blocks, Filled(blocks), NEW fpos \in Int
    PROVE  /\ Filled(AddEntry(blocks, fpos))
           /\ \A p \in Entries(blocks) :
                 p \in Entries(AddEntry(blocks, fpos))
           /\ \A p \in Entries(AddEntry(blocks, fpos)) :
                 \/ Offset(AddEntry(blocks, fpos), p) = fpos
                 \/ p \in Entries(blocks) /\ Offset(AddEntry(blocks, fpos), p) = Offset(blocks, p)
           /\ Growing(blocks) /\ (\A p \in Entries(blocks) : Offset(blocks, p) < fpos) =>
                 Growing(AddEntry(blocks, fpos))
<1> DEFINE new == AddEntry(blocks, fpos)
<1>1. PICK n \in Nat : \E c \in Nat \ {0} : \E j \in Nat : IsExtended(blocks, new, fpos, n, c, j)
  BY AddExtended
<1>2. PICK c \in Nat \ {0} : \E j \in Nat : IsExtended(blocks, new, fpos, n, c, j)
  BY <1>1
<1>3. PICK j \in Nat : IsExtended(blocks, new, fpos, n, c, j)
  BY <1>2
<1>4. new \in Blocks
  BY AddTyped
<1> HIDE DEF new
<1>5. /\ Filled(new)
      /\ \A p \in Entries(blocks) : p \in Entries(new) /\ Offset(new, p) = Offset(blocks, p)
      /\ Offset(new, At(c, j)) = fpos
      /\ \A p \in Entries(new) :
            p = At(c, j) \/ (p \in Entries(blocks) /\ ~IsBefore(At(c, j), p))
  BY <1>3, <1>4, Extended
<1>6. ASSUME Growing(blocks), \A p \in Entries(blocks) : Offset(blocks, p) < fpos
      PROVE  Growing(new)
  <2>1. ASSUME NEW p \in Entries(new), NEW q \in Entries(new), IsBefore(p, q)
        PROVE  Offset(new, p) < Offset(new, q)
    <3>1. CASE p = At(c, j)
      <4>1. q = At(c, j)
        BY <1>5, <2>1, <3>1
      <4>2. FALSE
        BY <2>1, <3>1, <4>1 DEF IsBefore, At
      <4>3. QED
        BY <4>2
    <3>2. CASE p # At(c, j)
      <4>1. p \in Entries(blocks) /\ Offset(new, p) = Offset(blocks, p)
        BY <1>5, <3>2
      <4>2. CASE q = At(c, j)
        BY <1>5, <1>6, <4>1, <4>2
      <4>3. CASE q # At(c, j)
        <5>1. q \in Entries(blocks) /\ Offset(new, q) = Offset(blocks, q)
          BY <1>5, <4>3
        <5>2. QED
          BY <1>6, <2>1, <4>1, <5>1 DEF Growing
      <4>4. QED
        BY <4>2, <4>3
    <3>3. QED
      BY <3>1, <3>2
  <2>2. QED
    BY <2>1 DEF Growing
<1>7. QED
  BY <1>5, <1>6 DEF new

-----------------------------------------------------------------------------
(* Wide instructions are wide again. *)

WideOps == {"jmp", "ea", "imm"}

\* After pass 0 no org line changes the origin.
OriginKnown == assembler_pass > 0 => is_start_address_set > 0

\* Offsets in the output are counted from the origin, up to .bss.
OffsetsFromOrigin ==
    phase = "assemble" /\ assembler_pass > 1 /\ ~is_bss =>
        start_address = default_start_address

ListKept ==
    /\ Filled(wide_blocks)
    /\ wide_instr_read_at \in Entries(wide_blocks) \cup {NoPosition}

WInv == TInv /\ ListKept /\ OriginKnown /\ OffsetsFromOrigin /\ WideRepeats

\* What every line does to the state that the offsets depend on.
LineKeepsOrigin ==
    /\ SameLineState
    /\ TypeOK
    /\ \/ UNCHANGED <<default_start_address, is_start_address_set>>
       \/ UNCHANGED default_start_address /\ is_start_address_set' > 0
       \/ assembler_pass = 0
    /\ assembler_pass > 0 /\ ~is_bss' => UNCHANGED start_address /\ ~is_bss

\* A line that does not ask the list, and emits nothing whose width it decides.
PlainLine ==
    /\ LineKeepsOrigin
    /\ UNCHANGED <<wide_blocks, wide_instr_read_at>>
    /\ \/ UNCHANGED emitted
       \/ \E size \in Nat, to \in Int :
             emitted' = Append(emitted, Entry(size, to)) /\ source[line].op \notin WideOps

LEMMA KeepsOriginInvariant ==
    ASSUME WInv, LineKeepsOrigin
    PROVE  OriginKnown' /\ OffsetsFromOrigin'
<1>1. UNCHANGED <<assembler_pass>> /\ phase = "assemble" /\ assembler_pass \in Nat
  BY DEF LineKeepsOrigin, SameLineState, TypeOK, MainTyped
<1>2. OriginKnown'
  BY <1>1 DEF WInv, OriginKnown, LineKeepsOrigin
<1>3. OffsetsFromOrigin'
  <2>1. SUFFICES ASSUME assembler_pass > 1, ~is_bss' PROVE start_address' = default_start_address'
    BY <1>1 DEF OffsetsFromOrigin
  <2>2. UNCHANGED <<start_address, default_start_address>> /\ ~is_bss
    BY <1>1, <2>1 DEF LineKeepsOrigin
  <2>3. QED
    BY <1>1, <2>1, <2>2 DEF WInv, OffsetsFromOrigin
<1>4. QED
  BY <1>2, <1>3

LEMMA EmittedWidths ==
    ASSUME WInv, LineKeepsOrigin, TInv',
           wide_blocks' = wide_blocks \/ assembler_pass = 0,
           \/ UNCHANGED emitted
           \/ \E size \in Nat, to \in Int :
                 /\ emitted' = Append(emitted, Entry(size, to))
                 /\ opt_level <= 1 /\ errors' = {} /\ OffsetsGrow =>
                       WidthIsRight(Entry(size, to))
    PROVE  WideRepeats'
<1>1. /\ assembler_pass \in Nat /\ emitted \in Seq(EntrySet)
      /\ UNCHANGED <<source, opt_level, assembler_pass>> /\ errors \subseteq errors'
  BY DEF LineKeepsOrigin, SameLineState, TypeOK, MainTyped, EmittedTyped
<1>2. CASE assembler_pass <= 1
  <2>1. emitted' = <<>>
    BY <1>1, <1>2 DEF TInv, Control
  <2>2. QED
    BY <2>1 DEF WideRepeats
<1>3. CASE assembler_pass > 1
  <2>1. wide_blocks' = wide_blocks
    BY <1>1, <1>3
  <2>2. SUFFICES ASSUME opt_level <= 1, errors' = {}, OffsetsGrow,
                        NEW i \in DOMAIN emitted'
                 PROVE  WidthIsRight(emitted[i])'
    BY <1>1, <2>1 DEF WideRepeats, OffsetsGrow
  <2>3. UNCHANGED <<source, opt_level, default_start_address, wide_blocks>>
    BY <1>1, <1>3, <2>1 DEF LineKeepsOrigin
  <2>4. \A k \in DOMAIN emitted : WidthIsRight(emitted[k])
    BY <1>1, <2>2 DEF WInv, WideRepeats
  <2>5. CASE i \in DOMAIN emitted /\ emitted'[i] = emitted[i]
    <3>1. WidthIsRight(emitted[i])
      BY <2>4, <2>5
    <3>2. QED
      BY <2>3, <2>5, <3>1 DEF WidthIsRight, IsRecorded
  <2>6. CASE ~(i \in DOMAIN emitted /\ emitted'[i] = emitted[i])
    <3>1. PICK size \in Nat, to \in Int :
             /\ emitted' = Append(emitted, Entry(size, to))
             /\ WidthIsRight(Entry(size, to))
      BY <2>2, <2>6
    <3>2. emitted'[i] = Entry(size, to)
      BY <2>6, <3>1, ExtendedBy DEF WInv
    <3>3. PICK e : e = Entry(size, to)
      OBVIOUS
    <3>4. emitted'[i] = e /\ WidthIsRight(e)
      BY <3>1, <3>2, <3>3
    <3>5. QED
      BY <2>3, <3>4 DEF WidthIsRight, IsRecorded
  <2>7. QED
    BY <2>5, <2>6
<1>4. QED
  BY <1>1, <1>2, <1>3

LEMMA PlainLineKeeps ==
    ASSUME WInv, PlainLine, TInv'
    PROVE  WInv'
<1>1. ListKept'
  BY DEF PlainLine, WInv, ListKept
<1>2. OriginKnown' /\ OffsetsFromOrigin'
  BY KeepsOriginInvariant DEF PlainLine
<1>3. \/ UNCHANGED emitted
      \/ \E size \in Nat, to \in Int :
            /\ emitted' = Append(emitted, Entry(size, to))
            /\ opt_level <= 1 /\ errors' = {} /\ OffsetsGrow =>
                  WidthIsRight(Entry(size, to))
  <2>1. ASSUME source[line].op \notin WideOps, NEW size \in Nat, NEW to \in Int
        PROVE  WidthIsRight(Entry(size, to))
    BY <2>1 DEF WidthIsRight, Entry, WideOps
  <2>2. QED
    BY <2>1 DEF PlainLine
<1>4. WideRepeats'
  BY <1>3, EmittedWidths DEF PlainLine
<1>5. QED
  BY <1>1, <1>2, <1>4 DEF WInv

PlainCode == \/ Jcc \/ ShortJump \/ NearJump \/ DefineWord
             \/ Fill \/ Pad \/ Align \/ Incbin \/ MisplacedLine \/ Resb

LEMMA CodeKeepsOrigin ==
    ASSUME TInv, Code
    PROVE  LineKeepsOrigin
<1>1. CodeFrame /\ TypeOK
  BY CodeStep DEF TInv
<1>2. QED
  BY <1>1 DEF CodeFrame, LineKeepsOrigin

LEMMA PlainCodeIsPlain ==
    ASSUME TInv, PlainCode
    PROVE  PlainLine
<1>1. Code
  BY DEF PlainCode, Code
<1>2. CodeFrame /\ (EmitsLine \/ EmitsNothing)
  BY <1>1, CodeStep DEF TInv
<1>3. UNCHANGED <<wide_blocks, wide_instr_read_at>>
  BY DEF PlainCode, Jcc, ShortJump, NearJump, DefineWord, Fill, Pad, Align, Incbin,
         MisplacedLine, Resb, wideVars
<1>4. EmitsNothing \/ UNCHANGED emitted \/ source[line].op \notin WideOps
  <2>1. CASE Jcc \/ ShortJump \/ NearJump \/ DefineWord
    BY <2>1 DEF Jcc, ShortJump, NearJump, DefineWord, OnCode, OnLine, AtLine, WideOps
  <2>2. CASE Fill \/ Pad \/ Align \/ Incbin
    BY <2>2 DEF Fill, Pad, Align, Incbin, OnCode, OnLine, AtLine, WideOps
  <2>3. CASE MisplacedLine \/ Resb
    BY <2>3 DEF MisplacedLine, Resb, EmitNothing
  <2>4. QED
    BY <2>1, <2>2, <2>3 DEF PlainCode
<1>5. \/ UNCHANGED emitted
      \/ \E size \in Nat, to \in Int : emitted' = Append(emitted, Entry(size, to))
  <2>1. CASE EmitsNothing
    BY <2>1 DEF EmitsNothing
  <2>2. CASE EmitsLine
    BY <2>2 DEF EmitsLine, Emit
  <2>3. QED
    BY <1>2, <2>1, <2>2
<1>6. EmitsNothing => UNCHANGED emitted
  BY DEF EmitsNothing
<1>7. QED
  BY <1>1, <1>3, <1>4, <1>5, <1>6, CodeKeepsOrigin DEF PlainLine

LEMMA LabelIsPlain ==
    ASSUME TInv, LabelLine \/ EquLine
    PROVE  PlainLine
<1>1. LabelFrame /\ TypeOK
  BY LabelLineStep, EquLineStep DEF TInv
<1>2. source[line].op \notin WideOps
  BY DEF LabelLine, EquLine, OnLine, AtLine, WideOps
<1>3. \E to \in Int : EmitDefinition(to)
  <2>1. CASE LabelLine
    BY <1>1, <2>1 DEF LabelLine, TypeOK, AddressTyped
  <2>2. CASE EquLine
    <3>1. source[line].op = "equ" /\ source[line] \in Line
      BY <1>1, <2>2, LineInSource DEF EquLine, OnLine, AtLine
    <3>2. Value(source[line].m) \in Int
      BY <1>1, <3>1, LineFields, ValueInt DEF TypeOK
    <3>3. QED
      BY <2>2, <3>2 DEF EquLine
  <2>3. QED
    BY <2>1, <2>2
<1>4. \/ UNCHANGED emitted
      \/ \E size \in Nat, to \in Int : emitted' = Append(emitted, Entry(size, to))
  BY <1>3 DEF EmitDefinition
<1>5. LineKeepsOrigin
  BY <1>1 DEF LabelFrame, LineKeepsOrigin
<1>6. UNCHANGED <<wide_blocks, wide_instr_read_at>>
  BY <1>1 DEF LabelFrame
<1>7. QED
  BY <1>2, <1>4, <1>5, <1>6 DEF PlainLine

Directives == \/ OrgAgain \/ OrgFirst \/ SectionBss \/ If \/ Else \/ Endif
              \/ SkipLine \/ EndOfFile

LEMMA DirectiveIsPlain ==
    ASSUME TInv, OriginKnown, Directives
    PROVE  PlainLine
<1>1. DirectiveFrame /\ TypeOK
  BY OrgAgainStep, OrgFirstStep, SectionBssStep, IfStep, ElseStep, EndifStep, SkipOrEndStep
     DEF TInv, Directives
<1>2. SameLineState /\ UNCHANGED <<wide_blocks, wide_instr_read_at, emitted>>
  BY <1>1 DEF DirectiveFrame
<1>3. assembler_pass \in Nat /\ is_start_address_set \in 0..2 /\ is_bss \in BOOLEAN
  BY <1>1 DEF TypeOK, MainTyped, AddressTyped, NestingTyped
<1>4. /\ \/ UNCHANGED <<default_start_address, is_start_address_set>>
         \/ UNCHANGED default_start_address /\ is_start_address_set' > 0
         \/ assembler_pass = 0
      /\ assembler_pass > 0 /\ ~is_bss' => UNCHANGED start_address /\ ~is_bss
  <2>1. CASE OrgAgain
    BY <1>3, <2>1 DEF OrgAgain, lineVars
  <2>2. CASE OrgFirst
    BY <1>3, <2>2 DEF OrgFirst, OriginKnown
  <2>3. CASE SectionBss
    BY <2>3 DEF SectionBss
  <2>4. CASE If \/ Else \/ Endif
    BY <2>4 DEF If, Else, Endif, unchangedByCondition
  <2>5. CASE SkipLine \/ EndOfFile
    BY <2>5 DEF SkipLine, EndOfFile, lineVars, addressVars
  <2>6. QED
    BY <2>1, <2>2, <2>3, <2>4, <2>5 DEF Directives
<1>5. QED
  BY <1>1, <1>2, <1>4 DEF PlainLine, LineKeepsOrigin

\* Recording or asking leaves a list with a position in it.
LEMMA RecordKeepsList ==
    ASSUME WInv, NEW l \in Labels, NEW add \in 0..1, NEW guess,
           guess = Guess(l, add) \/ guess = NoGuess, RecordGuess(guess, add)
    PROVE  ListKept' /\ (wide_blocks' = wide_blocks \/ assembler_pass = 0)
<1>1. /\ wide_blocks \in Blocks /\ Fpos(add) \in Int
      /\ Filled(wide_blocks) /\ wide_instr_read_at \in Entries(wide_blocks) \cup {NoPosition}
  BY DEF WInv, ListKept, TInv, TypeOK, WideTyped, AddressTyped, Fpos
<1>2. guess.read_at \in Entries(wide_blocks) \cup {NoPosition}
  <2>1. Query(wide_blocks, wide_instr_read_at, Fpos(add)).read_at
           \in Entries(wide_blocks) \cup {NoPosition}
    BY <1>1, QueryFinds
  <2>2. WideQuery(add).read_at = Query(wide_blocks, wide_instr_read_at, Fpos(add)).read_at
    BY DEF WideQuery
  <2>3. \A w : Guessed(w).read_at = wide_instr_read_at
    BY DEF Guessed
  <2>4. guess.read_at \in {WideQuery(add).read_at, wide_instr_read_at}
    BY <2>3 DEF Guess, NoGuess
  <2>5. QED
    BY <1>1, <2>1, <2>2, <2>4
<1>3. CASE assembler_pass = 0 /\ AddWide(add)
  <2>1. wide_blocks' = AddEntry(wide_blocks, Fpos(add)) /\ UNCHANGED wide_instr_read_at
    BY <1>3 DEF AddWide
  <2>2. /\ Filled(wide_blocks')
        /\ \A p \in Entries(wide_blocks) : p \in Entries(wide_blocks')
    BY <1>1, <2>1, AddExtends
  <2>3. QED
    BY <1>1, <1>3, <2>1, <2>2 DEF ListKept
<1>4. CASE wide_instr_read_at' = guess.read_at /\ UNCHANGED <<wide_blocks, wide_lines>>
  BY <1>1, <1>2, <1>4 DEF ListKept
<1>5. QED
  BY <1>3, <1>4, Zenon DEF RecordGuess

\* What a later pass is told about an operand.
LEMMA GuessIsRecorded ==
    ASSUME WInv, NEW l \in Labels, NEW add \in 0..1,
           assembler_pass > 1, opt_level <= 1, OffsetsGrow,
           Guess(l, add).errors = {}, phase = "assemble", ~is_bss
    PROVE  Guess(l, add).wide <=> IsRecorded(current_address - default_start_address + add)
<1>1. /\ wide_blocks \in Blocks /\ Fpos(add) \in Int
      /\ Filled(wide_blocks) /\ wide_instr_read_at \in Entries(wide_blocks) \cup {NoPosition}
  BY DEF WInv, ListKept, TInv, TypeOK, WideTyped, AddressTyped, Fpos
<1>2. Fpos(add) = current_address - default_start_address + add
  BY DEF Fpos, WInv, OffsetsFromOrigin
<1> DEFINE answer == Query(wide_blocks, wide_instr_read_at, Fpos(add))
<1>3. Guess(l, add) = WideQuery(add)
  BY DEF Guess, WInv, TInv, TypeOK, SourceTyped
<1>4. /\ WideQuery(add).wide = answer.wide
      /\ WideQuery(add).errors = IF answer.bad_order THEN {"oops_bad_instr_order"} ELSE {}
  BY DEF WideQuery
<1>5. ~answer.bad_order
  BY <1>3, <1>4
<1>6. answer.wide <=> IsIn(Fpos(add), wide_blocks)
  BY <1>1, <1>5, QueryFinds DEF OffsetsGrow
<1> HIDE DEF answer
<1>7. QED
  BY <1>2, <1>3, <1>4, <1>6 DEF IsRecorded

LEMMA WideLineKeeps ==
    ASSUME WInv, Code, TInv', ListKept',
           wide_blocks' = wide_blocks \/ assembler_pass = 0,
           NEW size \in Nat, NEW to \in Int, Emit(size, to),
           opt_level <= 1 /\ errors' = {} /\ OffsetsGrow /\ assembler_pass > 1 =>
               WidthIsRight(Entry(size, to))
    PROVE  WInv'
<1>1. LineKeepsOrigin
  BY CodeKeepsOrigin DEF WInv
<1>2. OriginKnown' /\ OffsetsFromOrigin'
  BY <1>1, KeepsOriginInvariant
<1>3. \/ UNCHANGED emitted
      \/ /\ emitted' = Append(emitted, Entry(size, to))
         /\ opt_level <= 1 /\ errors' = {} /\ OffsetsGrow => WidthIsRight(Entry(size, to))
  BY DEF Emit
<1>4. WideRepeats'
  BY <1>1, <1>3, EmittedWidths
<1>5. QED
  BY <1>2, <1>4 DEF WInv

LEMMA JmpWide ==
    ASSUME WInv, Jmp, TInv'
    PROVE  WInv'
<1> DEFINE l == source[line].l
           guess == Guess(l, 1)
           short == ~guess.wide /\ IsInt8(Displacement(JumpTarget(l), 2))
           size == IF short THEN 2 ELSE 3
           to == IF short THEN JumpTarget(l) ELSE Value(l)
<1>1. TypeOK
  BY DEF WInv, TInv
<1>2. /\ line \in DOMAIN source /\ l \in Labels /\ source[line].op = "jmp"
      /\ phase = "assemble" /\ ~is_bss
  BY <1>1, LineInSource, LineFields DEF Jmp, OnCode, OnLine, AtLine, RefOps
<1>3. RecordGuess(guess, 1) /\ guess.errors \cup UndefinedErrors(l) \subseteq errors'
  BY DEF Jmp, Report
<1>4. ListKept' /\ (wide_blocks' = wide_blocks \/ assembler_pass = 0)
  BY <1>2, <1>3, RecordKeepsList
<1>5. Value(l) \in Int /\ JumpTarget(l) \in Int
  BY <1>1, <1>2, ValueInt DEF TypeOK
<1>6. Emit(size, to) /\ size \in Nat /\ to \in Int
  BY <1>5 DEF Jmp
<1>7. ASSUME opt_level <= 1, errors' = {}, OffsetsGrow, assembler_pass > 1
      PROVE  WidthIsRight(Entry(size, to))
  <2>1. guess.wide <=> IsRecorded(current_address - default_start_address + 1)
    BY <1>2, <1>3, <1>7, GuessIsRecorded
  <2>2. JumpTarget(l) = Value(l)
    BY <1>2, <1>3, <1>7, Referenced
  <2>3. to = Value(l) /\ (size = 3 <=> guess.wide \/ ~IsInt8(Displacement(to, 2)))
    BY <2>2
  <2>4. Displacement(to, 2) = to - (current_address + 2)
    BY DEF Displacement
  <2> HIDE DEF size, to, guess
  <2>5. QED
    BY <1>2, <2>1, <2>3, <2>4 DEF WidthIsRight, Entry
<1> HIDE DEF size, to
<1>8. Code
  BY DEF Code
<1>9. QED
  BY <1>4, <1>6, <1>7, <1>8, WideLineKeeps

LEMMA EffectiveAddressWide ==
    ASSUME WInv, EffectiveAddress, TInv'
    PROVE  WInv'
<1> DEFINE l == source[line].l
           guess == Guess(l, 0)
           width == IF guess.wide THEN 2 ELSE OffsetWidth(Value(l))
           size == 2 + width
           to == Value(l)
<1>1. TypeOK
  BY DEF WInv, TInv
<1>2. /\ line \in DOMAIN source /\ l \in Labels /\ source[line].op = "ea"
      /\ phase = "assemble" /\ ~is_bss
  BY <1>1, LineInSource, LineFields DEF EffectiveAddress, OnCode, OnLine, AtLine, RefOps
<1>3. RecordGuess(guess, 0) /\ guess.errors \subseteq errors'
  BY DEF EffectiveAddress, Report
<1>4. ListKept' /\ (wide_blocks' = wide_blocks \/ assembler_pass = 0)
  BY <1>2, <1>3, RecordKeepsList
<1>5. Emit(size, to) /\ size \in Nat /\ to \in Int
  BY <1>1, <1>2, ValueInt DEF EffectiveAddress, OffsetWidth, TypeOK
<1>6. ASSUME opt_level <= 1, errors' = {}, OffsetsGrow, assembler_pass > 1
      PROVE  WidthIsRight(Entry(size, to))
  <2>1. guess.wide <=> IsRecorded(current_address - default_start_address + 0)
    BY <1>2, <1>3, <1>6, GuessIsRecorded
  <2>2. size = 2 + (IF guess.wide THEN 2 ELSE OffsetWidth(to))
    OBVIOUS
  <2> HIDE DEF size, to, guess
  <2>3. QED
    BY <1>2, <2>1, <2>2 DEF WidthIsRight, Entry
<1> HIDE DEF size, to
<1>7. Code
  BY DEF Code
<1>8. QED
  BY <1>4, <1>5, <1>6, <1>7, WideLineKeeps

LEMMA ImmediateWide ==
    ASSUME WInv, Immediate, TInv'
    PROVE  WInv'
<1> DEFINE l == source[line].l
           guess == IF opt_level = 0 THEN NoGuess ELSE Guess(l, 1)
           byte == opt_level # 0 /\ ~guess.wide /\ IsInt8In16(Value(l))
           size == IF byte THEN 3 ELSE 4
           to == Value(l)
<1>1. TypeOK
  BY DEF WInv, TInv
<1>2. /\ line \in DOMAIN source /\ l \in Labels /\ source[line].op = "imm"
      /\ phase = "assemble" /\ ~is_bss
  BY <1>1, LineInSource, LineFields DEF Immediate, OnCode, OnLine, AtLine, RefOps
<1>3. RecordGuess(guess, 1) /\ guess.errors \subseteq errors'
  BY DEF Immediate, Report
<1>4. ListKept' /\ (wide_blocks' = wide_blocks \/ assembler_pass = 0)
  <2>1. guess = Guess(l, 1) \/ guess = NoGuess
    OBVIOUS
  <2> HIDE DEF guess
  <2>2. QED
    BY <1>2, <1>3, <2>1, RecordKeepsList
<1>5. Emit(size, to) /\ size \in Nat /\ to \in Int
  BY <1>1, <1>2, ValueInt DEF Immediate, TypeOK
<1>6. ASSUME opt_level <= 1, errors' = {}, OffsetsGrow, assembler_pass > 1
      PROVE  WidthIsRight(Entry(size, to))
  <2>1. opt_level # 0 => (guess.wide <=> IsRecorded(current_address - default_start_address + 1))
    BY <1>2, <1>3, <1>6, GuessIsRecorded
  <2>2. size = 4 <=> opt_level = 0 \/ guess.wide \/ ~IsInt8In16(to)
    OBVIOUS
  <2> HIDE DEF size, to, guess
  <2>3. QED
    BY <1>2, <2>1, <2>2 DEF WidthIsRight, Entry
<1> HIDE DEF size, to
<1>7. Code
  BY DEF Code
<1>8. QED
  BY <1>4, <1>5, <1>6, <1>7, WideLineKeeps

\* The steps of main() move neither the list nor the origin once it is known.
LEMMA MainWide ==
    ASSUME WInv, MainStep \/ Failure \/ UNCHANGED vars, TInv'
    PROVE  WInv'
<1>1. /\ UNCHANGED <<source, opt_level, wide_blocks, default_start_address>>
      /\ errors \subseteq errors'
      /\ wide_instr_read_at' \in {wide_instr_read_at, NoPosition}
  BY DEF MainStep, FailEarly, StartSpecialPass, EndOffsetPasses, StartPass, EndPass,
         Failure, OpenFails, WriteFails, Report, unchangedByMain, wideVars, addressVars, vars,
         RewindWide
<1>2. ListKept'
  BY <1>1 DEF WInv, ListKept
<1>3. OriginKnown' /\ OffsetsFromOrigin'
  <2>1. CASE FailEarly \/ EndPass \/ Failure
    BY <2>1 DEF FailEarly, EndPass, RemoveOutput, Failure, OpenFails, WriteFails,
                addressVars, unchangedByMain, WInv, OriginKnown, OffsetsFromOrigin
  <2>2. CASE StartSpecialPass
    BY <2>2 DEF StartSpecialPass, BeginAssembly, OriginKnown, OffsetsFromOrigin
  <2>3. CASE EndOffsetPasses
    BY <2>3 DEF EndOffsetPasses, WInv, OriginKnown, OffsetsFromOrigin
  <2>4. CASE StartPass
    <3>1. assembler_pass > 0
      BY <2>4 DEF StartPass, WInv, TInv, Control
    <3>2. QED
      BY <1>1, <2>4, <3>1 DEF StartPass, ResetAddress, WInv, OriginKnown, OffsetsFromOrigin
  <2>5. CASE UNCHANGED vars
    BY <2>5 DEF vars, addressVars, lineVars, WInv, OriginKnown, OffsetsFromOrigin
  <2>6. QED
    BY <2>1, <2>2, <2>3, <2>4, <2>5 DEF MainStep
<1>4. emitted' = emitted \/ emitted' = <<>>
  BY DEF MainStep, FailEarly, StartSpecialPass, EndOffsetPasses, StartPass, EndPass,
         BeginAssembly, Failure, OpenFails, WriteFails, vars
<1>5. WideRepeats'
  <2>1. CASE emitted' = <<>>
    BY <2>1 DEF WideRepeats
  <2>2. CASE emitted' = emitted
    BY <1>1, <2>2 DEF WInv, WideRepeats, OffsetsGrow, WidthIsRight, IsRecorded
  <2>3. QED
    BY <1>4, <2>1, <2>2
<1>6. QED
  BY <1>2, <1>3, <1>5 DEF WInv

LEMMA InitWide == Init => WInv
<1> SUFFICES ASSUME Init PROVE WInv
  OBVIOUS
<1>1. /\ wide_blocks = <<>> /\ wide_instr_read_at = NoPosition /\ emitted = <<>>
      /\ assembler_pass = 0
  BY DEF Init
<1>2. QED
  BY <1>1, InitTyped
     DEF WInv, ListKept, Filled, OriginKnown, OffsetsFromOrigin, WideRepeats

LEMMA NextWide ==
    ASSUME WInv, [Next]_vars
    PROVE  WInv'
<1>1. TInv /\ TInv' /\ OriginKnown
  BY NextTyped DEF WInv
<1>2. CASE Jmp \/ EffectiveAddress \/ Immediate
  BY <1>1, <1>2, JmpWide, EffectiveAddressWide, ImmediateWide
<1>3. CASE PlainCode \/ LabelLine \/ EquLine \/ Directives
  BY <1>1, <1>3, PlainCodeIsPlain, LabelIsPlain, DirectiveIsPlain, PlainLineKeeps
<1>4. CASE MainStep \/ Failure \/ UNCHANGED vars
  BY <1>1, <1>4, MainWide
<1>5. QED
  BY <1>2, <1>3, <1>4, Zenon
     DEF Next, Done, AssembleLine, Code, Directive, PlainCode, Directives

\* In every behaviour, an instruction of a later pass at -O0 or -O1 is wide if
\* pass 0 recorded its offset, and otherwise only if its operand needs it: the
\* list is found again, block by block, and nothing else makes code wide.
THEOREM WideIsRepeated == Spec => []WideRepeats
<1>1. Init => WInv
  BY InitWide
<1>2. WInv /\ [Next]_vars => WInv'
  BY NextWide
<1>3. WInv => WideRepeats
  BY DEF WInv
<1>4. QED
  BY <1>1, <1>2, <1>3, PTL DEF Spec

-----------------------------------------------------------------------------
(* The offsets that pass 0 records grow, unless an org line comes late. *)

HasOrg == \E i \in DOMAIN source : source[i].op = "org"
OrgComesFirst == HasOrg => source[1].op = "org"

\* In pass 0, what is recorded lies before the current address.
RecordedBelow ==
    assembler_pass = 0 /\ phase = "assemble" /\ ~is_bss =>
        \A p \in Entries(wide_blocks) :
            Offset(wide_blocks, p) < current_address - start_address

\* An origin that is still to come is in the first line.
OriginAwaited ==
    assembler_pass = 0 /\ phase = "assemble" /\ is_start_address_set = 0 /\ HasOrg =>
        line = 1 /\ avoid_level = 0 /\ wide_blocks = <<>>

GInv == WInv /\ (OrgComesFirst => OffsetsGrow /\ RecordedBelow /\ OriginAwaited)

LEMMA AwaitedIsOrg ==
    ASSUME GInv, OrgComesFirst, assembler_pass = 0, is_start_address_set = 0, HasOrg,
           AssembleLine
    PROVE  OrgFirst
<1>1. TypeOK /\ phase = "assemble"
  BY AssembleLineKeeps DEF GInv, WInv, TInv, SameLineState
<1>2. line = 1 /\ avoid_level = 0
  BY <1>1 DEF GInv, OriginAwaited
<1>3. source[line].op = "org" /\ line <= Len(source)
  BY <1>1, <1>2 DEF OrgComesFirst, HasOrg, TypeOK, SourceTyped
<1>4. \A op : AtLine(op) => op = "org"
  BY <1>3 DEF AtLine
<1>5. \A op : (OnLine(op) \/ OnCode(op)) => op = "org"
  BY <1>4 DEF OnLine, OnCode
<1>6. CASE Code
  <2>1. \E op \in (RefOps \cup NumOps) \ {"org"} : OnLine(op) \/ OnCode(op)
    BY <1>6 DEF Code, Jmp, Jcc, ShortJump, NearJump, DefineWord, EffectiveAddress, Immediate,
                Fill, Pad, Align, Incbin, MisplacedLine, Resb, RefOps, NumOps
  <2>2. "org" \notin (RefOps \cup NumOps) \ {"org"}
    BY DEF RefOps, NumOps
  <2>3. QED
    BY <1>5, <2>1, <2>2
<1>7. ~(LabelLine \/ EquLine \/ SectionBss)
  BY <1>5 DEF LabelLine, EquLine, SectionBss
<1>8. ~(If \/ Else \/ Endif)
  BY <1>4 DEF If, Else, Endif
<1>9. ~OrgAgain
  BY DEF OrgAgain
<1>10. ~SkipLine
  BY <1>2 DEF SkipLine, Skipping
<1>11. ~EndOfFile
  BY <1>1, <1>3 DEF EndOfFile, TypeOK, MainTyped, SourceTyped
<1>12. QED
  BY <1>6, <1>7, <1>8, <1>9, <1>10, <1>11 DEF AssembleLine, Directive

\* A line that leaves the origin and the list alone, and does not go back.
ForwardLine ==
    /\ is_start_address_set = 0 \/ is_start_address_set' > 0
    /\ is_start_address_set' = 0 => is_start_address_set = 0
    /\ ~is_bss' => ~is_bss /\ current_address' >= current_address /\ UNCHANGED start_address

LEMMA OriginNotAwaited ==
    ASSUME GInv, OrgComesFirst, AssembleLine, ~OrgFirst, ForwardLine
    PROVE  OriginAwaited'
<1>1. SameLineState
  BY AssembleLineKeeps DEF GInv, WInv
<1>2. SUFFICES ASSUME assembler_pass = 0, is_start_address_set' = 0, HasOrg PROVE FALSE
  BY <1>1 DEF SameLineState, OriginAwaited, HasOrg
<1>3. is_start_address_set = 0
  BY <1>2 DEF ForwardLine
<1>4. QED
  BY <1>2, <1>3, AwaitedIsOrg

LEMMA ForwardGrows ==
    ASSUME GInv, OrgComesFirst, AssembleLine, ~OrgFirst, ForwardLine, WInv',
           UNCHANGED wide_blocks
    PROVE  GInv'
<1>1. SameLineState /\ TypeOK /\ TypeOK'
  BY AssembleLineKeeps DEF GInv, WInv, TInv
<1>2. OffsetsGrow'
  BY DEF GInv, OffsetsGrow
<1>3. RecordedBelow'
  <2>1. SUFFICES ASSUME assembler_pass = 0, ~is_bss', NEW p \in Entries(wide_blocks)
                 PROVE  Offset(wide_blocks, p) < current_address' - start_address'
    BY <1>1 DEF SameLineState, RecordedBelow
  <2>2. ~is_bss /\ current_address' >= current_address /\ start_address' = start_address
    BY <2>1 DEF ForwardLine
  <2>3. Offset(wide_blocks, p) < current_address - start_address
    BY <1>1, <2>1, <2>2 DEF SameLineState, GInv, RecordedBelow
  <2>4. Offset(wide_blocks, p) \in Int
    BY <2>1, EntryIs DEF GInv, WInv, ListKept, TInv, TypeOK, WideTyped
  <2>5. QED
    BY <1>1, <2>2, <2>3, <2>4 DEF TypeOK, AddressTyped
<1>4. OriginAwaited'
  BY OriginNotAwaited
<1>5. QED
  BY <1>2, <1>3, <1>4 DEF GInv

LEMMA CodeForward ==
    ASSUME TInv, Code
    PROVE  ForwardLine
<1>1. CodeFrame /\ (EmitsLine \/ EmitsNothing) /\ TypeOK
  BY CodeStep DEF TInv
<1>2. current_address \in Int /\ is_start_address_set \in 0..2
  BY <1>1 DEF TypeOK, AddressTyped
<1>3. UNCHANGED <<is_bss, start_address, is_start_address_set>>
  BY <1>1 DEF CodeFrame
<1>4. current_address' >= current_address
  <2>1. CASE EmitsLine
    BY <1>2, <2>1 DEF EmitsLine, Emit
  <2>2. CASE MisplacedLine
    BY <1>2, <2>2 DEF MisplacedLine, EmitNothing
  <2>3. CASE Pad
    <3>1. CASE EmitsLine
      BY <2>1, <3>1
    <3>2. CASE source[line].n - (current_address - start_address) < 0
      BY <1>2, <2>3, <3>2 DEF Pad, EmitNothing
    <3>3. CASE ~(source[line].n - (current_address - start_address) < 0)
      <4>1. source[line].n \in Nat
        BY <1>1, <2>3, LineInSource, LineFields DEF Pad, OnCode, OnLine, AtLine, NumOps
      <4>2. start_address \in Int
        BY <1>1 DEF TypeOK, AddressTyped
      <4>3. QED
        BY <1>2, <2>3, <3>3, <4>1, <4>2 DEF Pad, Emit
    <3>4. QED
      BY <3>2, <3>3
  <2>4. CASE Align
    <3>1. CASE source[line].n = 0
      BY <1>2, <2>4, <3>1 DEF Align, EmitNothing
    <3>2. CASE source[line].n # 0
      <4>1. source[line].n \in Nat
        BY <1>1, <2>4, LineInSource, LineFields DEF Align, OnCode, OnLine, AtLine, NumOps
      <4>2. AlignTimes(source[line].n) \in Nat
        BY <1>2, <3>2, <4>1 DEF AlignTimes
      <4>3. QED
        BY <1>2, <2>4, <3>2, <4>2 DEF Align, Emit
    <3>3. QED
      BY <3>1, <3>2
  <2>5. CASE Resb
    <3>1. source[line].n \in Nat
      BY <1>1, <2>5, LineInSource, LineFields DEF Resb, OnLine, AtLine, NumOps
    <3>2. QED
      BY <1>2, <2>5, <3>1 DEF Resb
  <2>6. CASE Jmp \/ Jcc \/ ShortJump \/ NearJump \/ DefineWord \/ EffectiveAddress
             \/ Immediate \/ Fill \/ Incbin
    BY <1>1, <2>1, <2>6, JmpStep, JccStep, ShortJumpStep, NearJumpStep, DefineWordStep,
       EffectiveAddressStep, ImmediateStep, FillStep
  <2>7. QED
    BY <2>2, <2>3, <2>4, <2>5, <2>6 DEF Code
<1>5. QED
  BY <1>2, <1>3, <1>4 DEF ForwardLine

LEMMA OtherForward ==
    ASSUME TInv, LabelLine \/ EquLine \/ Directives, ~OrgFirst
    PROVE  ForwardLine /\ UNCHANGED wide_blocks
<1>1. TypeOK /\ current_address \in Int /\ is_start_address_set \in 0..2
  BY DEF TInv, TypeOK, AddressTyped
<1>2. CASE LabelLine \/ EquLine
  <2>1. LabelFrame /\ UNCHANGED current_address
    BY <1>1, <1>2, LabelLineStep, EquLineStep DEF LabelLine, EquLine, EmitDefinition
  <2>2. QED
    BY <1>1, <2>1 DEF LabelFrame, ForwardLine
<1>3. CASE Directives
  <2>1. UNCHANGED wide_blocks
    BY <1>3 DEF Directives, OrgAgain, OrgFirst, SectionBss, If, Else, Endif, SkipLine,
                EndOfFile, unchangedByCondition, unchangedByDirective, wideVars
  <2>2. CASE OrgAgain
    BY <1>1, <2>1, <2>2 DEF OrgAgain, lineVars, ForwardLine
  <2>3. CASE SectionBss
    BY <1>1, <2>1, <2>3 DEF SectionBss, ForwardLine
  <2>4. CASE If \/ Else \/ Endif
    BY <1>1, <2>1, <2>4 DEF If, Else, Endif, unchangedByCondition, ForwardLine
  <2>5. CASE SkipLine \/ EndOfFile
    BY <1>1, <2>1, <2>5 DEF SkipLine, EndOfFile, lineVars, addressVars, ForwardLine
  <2>6. QED
    BY <1>3, <2>1, <2>2, <2>3, <2>4, <2>5 DEF Directives
<1>4. QED
  BY <1>2, <1>3

\* The first org line: in pass 0, before anything is recorded.
LEMMA OrgFirstGrows ==
    ASSUME GInv, OrgComesFirst, OrgFirst, WInv'
    PROVE  GInv'
<1>1. /\ TypeOK /\ line \in DOMAIN source /\ source[line].op = "org"
      /\ phase = "assemble" /\ is_start_address_set = 0 /\ is_start_address_set' = 1
      /\ UNCHANGED wide_blocks /\ UNCHANGED assembler_pass
  BY LineInSource
     DEF GInv, WInv, TInv, OrgFirst, OnLine, AtLine, unchangedByDirective, unchangedByLine,
         wideVars
<1>2. assembler_pass = 0
  BY <1>1 DEF GInv, WInv, OriginKnown, TypeOK, MainTyped
<1>3. wide_blocks' = <<>>
  BY <1>1, <1>2 DEF GInv, OriginAwaited, HasOrg
<1>4. Entries(wide_blocks') = {}
  BY <1>3 DEF Entries
<1>5. QED
  BY <1>1, <1>4 DEF GInv, OffsetsGrow, Growing, RecordedBelow, OriginAwaited

\* A line that may record its offset.
LEMMA WideLineGrows ==
    ASSUME GInv, OrgComesFirst, Code, WInv', ~OrgFirst, NEW add \in 0..1, NEW guess,
           RecordGuess(guess, add), NEW size \in Nat, size > add, NEW to, Emit(size, to),
           ~is_bss
    PROVE  GInv'
<1>1. CodeFrame /\ ForwardLine /\ TypeOK
  BY CodeForward, CodeStep DEF GInv, WInv, TInv
<1>2. CASE assembler_pass # 0
  <2>1. UNCHANGED wide_blocks /\ AssembleLine
    BY <1>2 DEF RecordGuess, AssembleLine
  <2>2. QED
    BY <1>1, <2>1, ForwardGrows
<1>3. CASE assembler_pass = 0
  <2>1. CASE UNCHANGED wide_blocks
    BY <1>1, <2>1, ForwardGrows DEF AssembleLine
  <2>2. CASE AddWide(add)
    <3>1. wide_blocks' = AddEntry(wide_blocks, Fpos(add))
      BY <2>2 DEF AddWide
    <3>2. /\ wide_blocks \in Blocks /\ Filled(wide_blocks) /\ Fpos(add) \in Int
          /\ current_address \in Int /\ start_address \in Int
      BY <1>1 DEF GInv, WInv, ListKept, TypeOK, WideTyped, AddressTyped, Fpos
    <3>3. phase = "assemble"
      BY <1>1 DEF CodeFrame, SameLineState
    <3>4. /\ OffsetsGrow
          /\ \A p \in Entries(wide_blocks) :
                /\ Offset(wide_blocks, p) < current_address - start_address
                /\ Offset(wide_blocks, p) \in Int
      BY <1>3, <3>2, <3>3, EntryIs DEF GInv, RecordedBelow
    <3>5. Fpos(add) >= current_address - start_address
      BY <3>2 DEF Fpos
    <3>6. \A p \in Entries(wide_blocks) : Offset(wide_blocks, p) < Fpos(add)
      BY <3>2, <3>4, <3>5
    <3>7. OffsetsGrow'
      BY <3>1, <3>2, <3>4, <3>6, AddExtends DEF OffsetsGrow
    <3>8. Fpos(add) < current_address' - start_address' /\ current_address' \in Int
      BY <1>1, <3>2 DEF Emit, Fpos, CodeFrame
    <3>9. \A p \in Entries(wide_blocks') :
             \/ Offset(wide_blocks', p) = Fpos(add)
             \/ p \in Entries(wide_blocks) /\ Offset(wide_blocks', p) = Offset(wide_blocks, p)
      BY <3>1, <3>2, AddExtends
    <3>10. \A p \in Entries(wide_blocks') :
              Offset(wide_blocks', p) < current_address' - start_address'
      <4>1. start_address' = start_address /\ current_address' >= current_address
        BY <1>1, <3>2 DEF CodeFrame, Emit
      <4>2. TAKE p \in Entries(wide_blocks')
      <4>3. CASE Offset(wide_blocks', p) = Fpos(add)
        BY <3>8, <4>3
      <4>4. CASE p \in Entries(wide_blocks) /\ Offset(wide_blocks', p) = Offset(wide_blocks, p)
        BY <3>2, <3>4, <3>8, <4>1, <4>4
      <4>5. QED
        BY <3>9, <4>3, <4>4
    <3>11. RecordedBelow'
      BY <3>10 DEF RecordedBelow
    <3>12. OriginAwaited'
      BY <1>1, OriginNotAwaited DEF AssembleLine
    <3>13. QED
      BY <3>7, <3>11, <3>12 DEF GInv
  <2>3. QED
    BY <2>1, <2>2 DEF RecordGuess
<1>4. QED
  BY <1>2, <1>3

LEMMA WideCodeGrows ==
    ASSUME GInv, OrgComesFirst, Jmp \/ EffectiveAddress \/ Immediate, WInv'
    PROVE  GInv'
<1>1. Code
  BY DEF Code
<1>2. ~OrgFirst /\ ~is_bss /\ TypeOK
  BY DEF Jmp, EffectiveAddress, Immediate, OrgFirst, OnCode, OnLine, AtLine, GInv, WInv, TInv
<1>3. CASE Jmp
  <2> DEFINE guess == Guess(source[line].l, 1)
  <2>1. RecordGuess(guess, 1)
    BY <1>3 DEF Jmp
  <2>2. \E size \in {2, 3} : \E to : Emit(size, to)
    BY <1>3 DEF Jmp
  <2> HIDE DEF guess
  <2>3. PICK size \in {2, 3} : \E to : Emit(size, to)
    BY <2>2
  <2>4. QED
    BY <1>1, <1>2, <2>1, <2>3, WideLineGrows
<1>4. CASE EffectiveAddress
  <2> DEFINE guess == Guess(source[line].l, 0)
  <2>1. RecordGuess(guess, 0)
    BY <1>4 DEF EffectiveAddress
  <2>2. \E size \in {2, 3, 4} : \E to : Emit(size, to)
    BY <1>4 DEF EffectiveAddress, OffsetWidth
  <2> HIDE DEF guess
  <2>3. PICK size \in {2, 3, 4} : \E to : Emit(size, to)
    BY <2>2
  <2>4. QED
    BY <1>1, <1>2, <2>1, <2>3, WideLineGrows
<1>5. CASE Immediate
  <2> DEFINE guess == IF opt_level = 0 THEN NoGuess ELSE Guess(source[line].l, 1)
  <2>1. RecordGuess(guess, 1)
    BY <1>5 DEF Immediate
  <2>2. \E size \in {3, 4} : \E to : Emit(size, to)
    BY <1>5 DEF Immediate
  <2> HIDE DEF guess
  <2>3. PICK size \in {3, 4} : \E to : Emit(size, to)
    BY <2>2
  <2>4. QED
    BY <1>1, <1>2, <2>1, <2>3, WideLineGrows
<1>6. QED
  BY <1>3, <1>4, <1>5

LEMMA MainGrows ==
    ASSUME GInv, OrgComesFirst, MainStep \/ Failure \/ UNCHANGED vars, WInv'
    PROVE  GInv'
<1>1. wide_blocks' = wide_blocks
  BY DEF MainStep, FailEarly, StartSpecialPass, EndOffsetPasses, StartPass, EndPass,
         Failure, OpenFails, WriteFails, unchangedByMain, wideVars, vars
<1>2. OffsetsGrow'
  BY <1>1 DEF GInv, OffsetsGrow
<1>3. CASE FailEarly \/ EndPass \/ Failure \/ EndOffsetPasses
  <2>1. phase' # "assemble"
    BY <1>3 DEF FailEarly, EndPass, RemoveOutput, Failure, OpenFails, WriteFails, EndOffsetPasses
  <2>2. QED
    BY <1>2, <2>1 DEF GInv, RecordedBelow, OriginAwaited
<1>4. CASE StartSpecialPass \/ StartPass
  <2>1. assembler_pass' # 0
    BY <1>4 DEF StartSpecialPass, StartPass, BeginAssembly, MaxPass, GInv, WInv, TInv, Control,
                TypeOK, MainTyped
  <2>2. QED
    BY <1>2, <2>1 DEF GInv, RecordedBelow, OriginAwaited
<1>5. CASE UNCHANGED vars
  <2>1. UNCHANGED <<assembler_pass, phase, is_bss, current_address, start_address, source,
                    is_start_address_set, line, avoid_level>>
    BY <1>5 DEF vars, lineVars, addressVars
  <2>2. QED
    BY <1>1, <1>2, <2>1 DEF GInv, RecordedBelow, OriginAwaited, HasOrg
<1>6. QED
  BY <1>3, <1>4, <1>5 DEF MainStep

\* In every behaviour of a program whose org line, if it has one, is its first
\* line, the offsets recorded in pass 0 grow, which is what add_wide_instr_in_pass_1
\* and is_wide_instr_in_pass_2 rely on.
THEOREM RecordedOffsetsGrow == Spec => [](OrgComesFirst => OffsetsGrow)
<1>1. Init => GInv
  <2> SUFFICES ASSUME Init PROVE GInv
    OBVIOUS
  <2>1. wide_blocks = <<>> /\ line = 1 /\ avoid_level = 0
    BY DEF Init
  <2>2. Entries(wide_blocks) = {}
    BY <2>1 DEF Entries
  <2>3. QED
    BY <2>1, <2>2, InitWide DEF GInv, OffsetsGrow, Growing, RecordedBelow, OriginAwaited
<1>2. GInv /\ [Next]_vars => GInv'
  <2> SUFFICES ASSUME GInv, [Next]_vars PROVE GInv'
    OBVIOUS
  <2>1. WInv' /\ TInv
    BY NextWide DEF GInv, WInv
  <2>2. source' = source
    <3>1. CASE AssembleLine
      BY <2>1, <3>1, AssembleLineKeeps DEF SameLineState
    <3>2. CASE ~AssembleLine
      BY <3>2 DEF Next, MainStep, FailEarly, StartSpecialPass, EndOffsetPasses, StartPass,
                  EndPass, Failure, OpenFails, WriteFails, unchangedByMain, Done, vars
    <3>3. QED
      BY <3>1, <3>2
  <2>3. CASE ~OrgComesFirst
    BY <2>1, <2>2, <2>3 DEF GInv, OrgComesFirst, HasOrg
  <2>4. CASE OrgComesFirst
    <3>1. CASE Jmp \/ EffectiveAddress \/ Immediate
      BY <2>1, <2>4, <3>1, WideCodeGrows
    <3>2. CASE PlainCode
      <4>1. Code /\ ~OrgFirst /\ PlainLine
        BY <2>1, <3>2, PlainCodeIsPlain
           DEF PlainCode, Code, Jcc, ShortJump, NearJump, DefineWord, Fill, Pad, Align,
               Incbin, MisplacedLine, Resb, OrgFirst, OnCode, OnLine, AtLine, RefOps
      <4>2. ForwardLine /\ AssembleLine /\ UNCHANGED wide_blocks
        BY <2>1, <4>1, CodeForward DEF AssembleLine, PlainLine
      <4>3. QED
        BY <2>1, <2>4, <4>1, <4>2, ForwardGrows
    <3>3. CASE OrgFirst
      BY <2>1, <2>4, <3>3, OrgFirstGrows
    <3>4. CASE (LabelLine \/ EquLine \/ Directives) /\ ~OrgFirst
      BY <2>1, <2>4, <3>4, OtherForward, ForwardGrows DEF AssembleLine, Directive, Directives
    <3>5. CASE MainStep \/ Failure \/ UNCHANGED vars
      BY <2>1, <2>4, <3>5, MainGrows
    <3>6. QED
      BY <3>1, <3>2, <3>3, <3>4, <3>5, Zenon
         DEF Next, Done, AssembleLine, Code, Directive, PlainCode, Directives
  <2>5. QED
    BY <2>3, <2>4
<1>3. GInv => (OrgComesFirst => OffsetsGrow)
  BY DEF GInv
<1>4. QED
  BY <1>1, <1>2, <1>3, PTL DEF Spec

-----------------------------------------------------------------------------
(* At -O9 a pass without label changes is a function of the label table: the  *)
(* pass that reports range errors repeats the one before it.                  *)

\* What the layout of the lines that follow depends on, besides the labels.
Place(lev, avoid, bss, at, start) ==
    [level |-> lev, avoid_level |-> avoid, is_bss |-> bss, at |-> at, start |-> start]

Here == Place(level, avoid_level, is_bss, current_address, start_address)

Skips(a) == a.avoid_level # 0 /\ a.level >= a.avoid_level

IsLive(l) == labels[l].state = "live"

\* Is the line i, at the place a, assembled without a message, and does it leave the
\* labels as they are?
Accepts(a, i) ==
    LET item == source[i]
    IN  /\ item.op \in {"else", "endif"} => a.level # 1
        /\ item.op \notin PreprocOps /\ ~Skips(a) =>
              /\ item.op \in RefOps \cup {"fill", "pad", "align"} => ~a.is_bss
              /\ item.op \in RefOps => IsLive(item.l)
              /\ item.op = "label" => Holds(item.l, a.at)
              /\ item.op = "equ" => IsLive(item.m) /\ Holds(item.l, labels[item.m].value)
              /\ item.op = "org" => item.n = default_start_address
              /\ item.op = "pad" => item.n - (a.at - a.start) >= 0
              /\ item.op = "align" => item.n # 0
              /\ item.op = "resb" => a.is_bss

\* The bytes of a line with the operand v, at -O9.
SizeAt(a, item, v) ==
    CASE item.op = "jmp" -> IF IsInt8(v - (a.at + 2)) THEN 2 ELSE 3
      [] item.op = "jcc" -> IF IsInt8(v - (a.at + 2)) THEN 2 ELSE 5
      [] item.op \in {"short", "dw"} -> 2
      [] item.op = "near" -> 3
      [] item.op = "ea" -> 2 + OffsetWidth(v)
      [] item.op = "imm" -> IF IsInt8In16(v) THEN 3 ELSE 4
      [] item.op \in {"fill", "incbin", "resb"} -> item.n
      [] item.op = "pad" -> item.n - (a.at - a.start)
      [] item.op = "align" -> (item.n - (a.at % item.n)) % item.n
      [] OTHER -> 0

ElseLevel(a) ==
    IF a.avoid_level = a.level THEN 0 ELSE IF a.avoid_level = 0 THEN a.level ELSE a.avoid_level

\* The place behind the line i.
After(a, i) ==
    LET item == source[i]
    IN  CASE item.op = "if" ->
                Place(a.level + 1,
                      IF (a.avoid_level # 0 /\ a.level + 1 >= a.avoid_level) \/ a.at - a.start >= item.n
                      THEN a.avoid_level ELSE a.level + 1, a.is_bss, a.at, a.start)
          [] item.op = "else" -> Place(a.level, ElseLevel(a), a.is_bss, a.at, a.start)
          [] item.op = "endif" ->
                Place(a.level - 1, IF a.avoid_level = a.level THEN 0 ELSE a.avoid_level,
                      a.is_bss, a.at, a.start)
          [] item.op \notin PreprocOps /\ Skips(a) -> a
          [] item.op = "bss" /\ ~Skips(a) ->
                Place(a.level, a.avoid_level, TRUE, a.at, IF a.is_bss THEN a.start ELSE a.at)
          [] OTHER -> Place(a.level, a.avoid_level, a.is_bss,
                            a.at + SizeAt(a, item, IF item.op \in RefOps THEN labels[item.l].value ELSE 0),
                            a.start)

\* The places of the lines up to n.
Layout(f, n) ==
    /\ f[1] = Place(1, 0, FALSE, default_start_address, default_start_address)
    /\ \A i \in 1..n - 1 : Accepts(f[i], i) /\ f[i + 1] = After(f[i], i)

\* A pass that changes no label, and prints no message, has a layout so far.
Traced ==
    assembler_pass > 1 /\ InPass /\ ~have_labels_changed /\ errors = {} =>
        /\ line <= Len(source) + 1 /\ (phase = "assembled" => line = Len(source) + 1)
        /\ \E f : Layout(f, line) /\ f[line] = Here

IsLastLayout(f, address) == Layout(f, Len(source) + 1) /\ f[Len(source) + 1].at = address

\* It is repeated by the pass that reports range errors.
Repeated ==
    /\ 2 \in jump_range_bits => assembler_pass > 1
    /\ phase = "reassemble" /\ 2 \in jump_range_bits => \E f : IsLastLayout(f, current_address)
    /\ InPass /\ 2 \in jump_range_bits =>
          /\ ~have_labels_changed
          /\ line <= Len(source) + 1 /\ (phase = "assembled" => line = Len(source) + 1)
          /\ \E f : IsLastLayout(f, prev_address) /\ f[line] = Here

\* A range error is about a short jump of this pass.
ShortIsFar ==
    "short_jump_out_of_range" \in errors =>
        /\ 2 \in jump_range_bits /\ phase # "reassemble"
        /\ \E i \in DOMAIN emitted :
              LET e == emitted[i]
                  item == source[e.line]
              IN  item.op = "short" /\ ~IsInt8(labels[item.l].value - (e.at + 2))

FarInv == WInv /\ (opt_level = 9 => Traced /\ Repeated /\ ShortIsFar)

\* A line of the source that is read in a pass that generates code.
Reads(a, n) ==
    /\ WInv /\ opt_level = 9 /\ assembler_pass > 1 /\ phase = "assemble"
    /\ a = Here /\ n = line /\ n <= Len(source)

LEMMA ReadLine ==
    ASSUME NEW a, NEW n, Reads(a, n)
    PROVE  /\ n \in Nat \ {0} /\ n \in DOMAIN source /\ source[n] \in Line
           /\ Skipping = Skips(a) /\ is_start_address_set > 0 /\ is_start_address_set # 0
           /\ a = Place(level, avoid_level, is_bss, current_address, start_address)
           /\ a.level = level /\ a.avoid_level = avoid_level /\ a.is_bss = is_bss
           /\ a.at = current_address /\ a.start = start_address
           /\ level \in Nat /\ avoid_level \in Nat /\ is_bss \in BOOLEAN
           /\ current_address \in Int /\ start_address \in Int
           /\ labels \in [Labels -> LabelSet] /\ assembler_pass \in Nat
<1>1. WInv /\ TypeOK /\ OriginKnown /\ a = Here /\ n = line /\ n <= Len(source) /\ assembler_pass > 1
  BY DEF Reads, WInv, TInv
<1>2. n \in DOMAIN source /\ source[n] \in Line
  BY <1>1, LineInSource
<1>3. a.level = level /\ a.avoid_level = avoid_level /\ a.is_bss = is_bss
      /\ a.at = current_address /\ a.start = start_address
  BY <1>1 DEF Here, Place
<1>4. Skipping = Skips(a)
  BY <1>3 DEF Skipping, Skips
<1>5. /\ n \in Nat \ {0} /\ level \in Nat /\ avoid_level \in Nat /\ is_bss \in BOOLEAN
      /\ current_address \in Int /\ start_address \in Int /\ assembler_pass \in Nat
      /\ labels \in [Labels -> LabelSet] /\ is_start_address_set \in 0..2
  BY <1>1 DEF TypeOK, MainTyped, NestingTyped, AddressTyped, LabelsTyped
<1>6. is_start_address_set > 0
  BY <1>1, <1>5 DEF OriginKnown
<1> QED
  BY <1>1, <1>2, <1>3, <1>4, <1>5, <1>6 DEF Here

\* What a line without a message does.
Goes(a, n) ==
    /\ line' = n + 1 /\ phase' = "assemble"
    /\ UNCHANGED <<source, default_start_address, opt_level, assembler_pass, prev_address>>
    /\ Accepts(a, n)' /\ Here' = After(a, n)'
    /\ have_labels_changed => have_labels_changed'
    /\ \A l \in Labels : IsLive(l) => labels'[l].state = "live" /\ labels'[l].value = labels[l].value

Unharmed == errors' = {} /\ ~have_labels_changed'

\* A range error that is told is of this line.
SaysFar(n) ==
    "short_jump_out_of_range" \in errors' \ errors =>
        \E e \in EntrySet :
            /\ emitted' = Append(emitted, e) /\ e.line = n
            /\ source[n].op = "short" /\ ~IsInt8(labels[source[n].l].value - (e.at + 2))

\* What a line does that has done it before.
GoesAgain(a, n) ==
    /\ line' = n + 1 /\ phase' = "assemble"
    /\ UNCHANGED <<source, default_start_address, opt_level, assembler_pass, prev_address>>
    /\ UNCHANGED <<labels, have_labels_changed>>
    /\ jump_range_bits \subseteq jump_range_bits'
    /\ Here' = After(a, n)
    /\ \E more \in Seq(EntrySet) : emitted' = emitted \o more
    /\ SaysFar(n)

CodeOps == RefOps \cup {"fill", "pad", "align", "incbin", "resb"}

Operand(item) == IF item.op \in RefOps THEN labels[item.l].value ELSE 0

CodeMoves(a, n) ==
    /\ ~Skips(a) /\ source[n].op \in CodeOps
    /\ errors' = {} => Accepts(a, n)
    /\ Accepts(a, n) =>
          /\ current_address' = a.at + SizeAt(a, source[n], Operand(source[n]))
          /\ SaysFar(n)

\* A jump or an operand with a label that is defined.
LEMMA OperandRead ==
    ASSUME NEW a, NEW n, Reads(a, n), source[n].op \in RefOps, ~Skips(a),
           UndefinedErrors(source[n].l) \subseteq errors',
           ~a.is_bss
    PROVE  /\ errors' = {} => Accepts(a, n)
           /\ Accepts(a, n) => /\ ~Undefined(source[n].l)
                               /\ Value(source[n].l) = Operand(source[n])
                               /\ JumpTarget(source[n].l) = Operand(source[n])
                               /\ UndefinedErrors(source[n].l) = {}
           /\ Operand(source[n]) \in Int
           /\ \A add \in 0..1 : ~Guess(source[n].l, add).wide /\ Guess(source[n].l, add).errors = {}
<1>1. /\ source[n].l \in Labels /\ a.is_bss \in BOOLEAN /\ assembler_pass > 1 /\ opt_level > 1
      /\ labels[source[n].l].value \in Int
  BY ReadLine, LineFields DEF Reads, LabelSet
<1>2. source[n].op \notin PreprocOps \cup {"label", "equ", "org", "pad", "align", "resb", "else", "endif"}
  BY DEF RefOps, PreprocOps
<1>3. Accepts(a, n) <=> IsLive(source[n].l)
  BY <1>1, <1>2 DEF Accepts
<1>4. IsLive(source[n].l) <=> ~Undefined(source[n].l)
  BY DEF IsLive, Undefined
<1> QED
  BY <1>1, <1>3, <1>4 DEF UndefinedErrors, Value, JumpTarget, Operand, Guess, NoGuess, Guessed

LEMMA CodeIsHere ==
    ASSUME NEW a, NEW n, Reads(a, n), NEW op, OnCode(op)
    PROVE  source[n].op = op /\ ~Skips(a) /\ ~a.is_bss
BY ReadLine DEF OnCode, OnLine, AtLine, Reads

LEMMA NearTold ==
    ASSUME NEW disp
    PROVE  "short_jump_out_of_range" \notin NearErrors(disp)
<1> DEFINE far == assembler_pass > 1 /\ disp \notin -65536..65535
<1>1. NearErrors(disp) = IF far THEN {"near_jump_too_long"} ELSE {}
  BY DEF NearErrors
<1> HIDE DEF far
<1> QED
  BY <1>1

LEMMA JmpMoves ==
    ASSUME NEW a, NEW n, Reads(a, n), Jmp
    PROVE  CodeMoves(a, n)
<1> DEFINE l == source[n].l
           v == Operand(source[n])
<1>1. source[n].op = "jmp" /\ ~Skips(a) /\ ~a.is_bss /\ n = line
  BY CodeIsHere DEF Jmp, Reads
<1>2. UndefinedErrors(l) \subseteq errors'
  BY <1>1 DEF Jmp, Report
<1>3. /\ errors' = {} => Accepts(a, n)
      /\ Accepts(a, n) => /\ Value(l) = v /\ JumpTarget(l) = v /\ UndefinedErrors(l) = {}
      /\ v \in Int
      /\ ~Guess(l, 1).wide /\ Guess(l, 1).errors = {}
  BY <1>1, <1>2, OperandRead DEF RefOps
<1>4. a.at = current_address /\ a.at \in Int
  BY ReadLine
<1>5. ASSUME Accepts(a, n)
      PROVE  current_address' = a.at + SizeAt(a, source[n], v) /\ SaysFar(n)
  <2>1. Displacement(JumpTarget(l), 2) = v - (a.at + 2)
    BY <1>3, <1>4, <1>5 DEF Displacement
  <2>2. /\ IF IsInt8(v - (a.at + 2)) THEN Emit(2, v) /\ errors' = errors
           ELSE Emit(3, v) /\ errors' = errors \cup NearErrors(Displacement(v, 3))
    BY <1>1, <1>3, <1>5, <2>1 DEF Jmp, Report
  <2>3. SizeAt(a, source[n], v) = IF IsInt8(v - (a.at + 2)) THEN 2 ELSE 3
    BY <1>1 DEF SizeAt
  <2>4. "short_jump_out_of_range" \notin errors' \ errors
    BY <2>2, NearTold
  <2> QED
    BY <1>4, <2>2, <2>3, <2>4 DEF Emit, SaysFar
<1> QED
  BY <1>1, <1>3, <1>5 DEF CodeMoves, CodeOps, RefOps

LEMMA JccMoves ==
    ASSUME NEW a, NEW n, Reads(a, n), Jcc
    PROVE  CodeMoves(a, n)
<1> DEFINE l == source[n].l
           v == Operand(source[n])
<1>1. source[n].op = "jcc" /\ ~Skips(a) /\ ~a.is_bss /\ n = line
  BY CodeIsHere DEF Jcc, Reads
<1>4. a.at = current_address /\ a.at \in Int /\ assembler_pass > 1 /\ l \in Labels /\ labels \in [Labels -> LabelSet]
  BY ReadLine, LineFields, <1>1 DEF Reads, RefOps
<1>2. UndefinedErrors(l) \subseteq errors'
  <2>1. CASE Undefined(l)
    BY <1>1, <1>4, <2>1 DEF Jcc, Report, JumpTarget, Displacement, IsInt8
  <2>2. CASE ~Undefined(l)
    BY <2>2 DEF UndefinedErrors
  <2> QED
    BY <2>1, <2>2
<1>3. /\ errors' = {} => Accepts(a, n)
      /\ Accepts(a, n) => /\ JumpTarget(l) = v /\ UndefinedErrors(l) = {}
      /\ v \in Int
  BY <1>1, <1>2, OperandRead DEF RefOps
<1>5. ASSUME Accepts(a, n)
      PROVE  current_address' = a.at + SizeAt(a, source[n], v) /\ SaysFar(n)
  <2>1. Displacement(JumpTarget(l), 2) = v - (a.at + 2)
    BY <1>3, <1>4, <1>5 DEF Displacement
  <2>2. /\ IF IsInt8(v - (a.at + 2)) THEN Emit(2, v) /\ errors' = errors
           ELSE Emit(5, v) /\ errors' = errors \cup NearErrors(Displacement(v, 5))
    BY <1>1, <1>3, <1>5, <2>1 DEF Jcc, Report
  <2>3. SizeAt(a, source[n], v) = IF IsInt8(v - (a.at + 2)) THEN 2 ELSE 5
    BY <1>1 DEF SizeAt
  <2>4. "short_jump_out_of_range" \notin errors' \ errors
    BY <2>2, NearTold
  <2> QED
    BY <1>4, <2>2, <2>3, <2>4 DEF Emit, SaysFar
<1> QED
  BY <1>1, <1>3, <1>5 DEF CodeMoves, CodeOps, RefOps

LEMMA ShortJumpMoves ==
    ASSUME NEW a, NEW n, Reads(a, n), ShortJump
    PROVE  CodeMoves(a, n)
<1> DEFINE l == source[n].l
           v == Operand(source[n])
<1>1. source[n].op = "short" /\ ~Skips(a) /\ ~a.is_bss /\ n = line
  BY CodeIsHere DEF ShortJump, Reads
<1>2. UndefinedErrors(l) \subseteq errors'
  BY <1>1 DEF ShortJump, Report
<1>3. /\ errors' = {} => Accepts(a, n)
      /\ Accepts(a, n) => /\ JumpTarget(l) = v /\ UndefinedErrors(l) = {}
      /\ v \in Int
  BY <1>1, <1>2, OperandRead DEF RefOps
<1>4. a.at = current_address /\ a.at \in Int /\ assembler_pass > 1 /\ n \in Nat \ {0}
  BY ReadLine DEF Reads
<1>5. ASSUME Accepts(a, n)
      PROVE  current_address' = a.at + SizeAt(a, source[n], v) /\ SaysFar(n)
  <2>1. Displacement(v, 2) = v - (a.at + 2)
    BY <1>3, <1>4, <1>5 DEF Displacement
  <2>2. Emit(2, v)
    BY <1>1, <1>3, <1>5 DEF ShortJump
  <2>3. SizeAt(a, source[n], v) = 2
    BY <1>1 DEF SizeAt
  <2>4. "short_jump_out_of_range" \in errors' \ errors => OutOfReach(v)
    BY <1>1, <1>3, <1>5 DEF ShortJump, Report
  <2>5. Entry(2, v) \in EntrySet /\ Entry(2, v).line = n /\ Entry(2, v).at = a.at
    BY <1>1, <1>3, <1>4 DEF Entry, EntrySet
  <2>6. emitted' = Append(emitted, Entry(2, v)) /\ current_address' = a.at + 2
    BY <1>4, <2>2 DEF Emit
  <2>7. v = labels[l].value
    BY <1>1 DEF Operand, RefOps
  <2>8. ASSUME OutOfReach(v) PROVE ~IsInt8(labels[l].value - (Entry(2, v).at + 2))
    BY <2>1, <2>5, <2>7, <2>8 DEF OutOfReach
  <2> QED
    BY <1>1, <2>3, <2>4, <2>5, <2>6, <2>8 DEF SaysFar
<1> QED
  BY <1>1, <1>3, <1>5 DEF CodeMoves, CodeOps, RefOps

\* An instruction with one operand, whose size is known once its operand is.
LEMMA OperandMoves ==
    ASSUME NEW a, NEW n, Reads(a, n), source[n].op \in RefOps, ~Skips(a), ~a.is_bss,
           UndefinedErrors(source[n].l) \subseteq errors',
           "short_jump_out_of_range" \notin errors' \ errors,
           Accepts(a, n) => Emit(SizeAt(a, source[n], Operand(source[n])), Operand(source[n]))
    PROVE  CodeMoves(a, n)
<1>1. errors' = {} => Accepts(a, n)
  BY OperandRead
<1>2. a.at = current_address
  BY ReadLine
<1>3. SaysFar(n)
  BY DEF SaysFar
<1> QED
  BY <1>1, <1>2, <1>3 DEF CodeMoves, CodeOps, Emit

LEMMA NearJumpMoves ==
    ASSUME NEW a, NEW n, Reads(a, n), NearJump
    PROVE  CodeMoves(a, n)
<1> DEFINE l == source[n].l
<1>1. source[n].op = "near" /\ source[n].op \in RefOps /\ ~Skips(a) /\ ~a.is_bss /\ n = line
  BY CodeIsHere DEF NearJump, Reads, RefOps
<1>2. /\ Emit(3, Value(l))
      /\ errors' = errors \cup UndefinedErrors(l) \cup NearErrors(Displacement(Value(l), 3))
  BY <1>1 DEF NearJump, Report
<1>3. "short_jump_out_of_range" \notin errors' \ errors
  BY <1>2, NearTold DEF UndefinedErrors
<1>4. SizeAt(a, source[n], Operand(source[n])) = 3
  BY <1>1 DEF SizeAt
<1>5. UndefinedErrors(l) \subseteq errors'
  BY <1>2
<1>6. Accepts(a, n) => Value(l) = Operand(source[n])
  BY <1>1, <1>5, OperandRead
<1> QED
  BY <1>1, <1>2, <1>3, <1>4, <1>5, <1>6, OperandMoves

LEMMA DefineWordMoves ==
    ASSUME NEW a, NEW n, Reads(a, n), DefineWord
    PROVE  CodeMoves(a, n)
<1> DEFINE l == source[n].l
<1>1. source[n].op = "dw" /\ source[n].op \in RefOps /\ ~Skips(a) /\ ~a.is_bss /\ n = line
  BY CodeIsHere DEF DefineWord, Reads, RefOps
<1>2. Emit(2, Value(l)) /\ errors' = errors \cup UndefinedErrors(l)
  BY <1>1 DEF DefineWord, Report
<1>3. "short_jump_out_of_range" \notin errors' \ errors
  BY <1>2 DEF UndefinedErrors
<1>4. SizeAt(a, source[n], Operand(source[n])) = 2
  BY <1>1 DEF SizeAt
<1>5. UndefinedErrors(l) \subseteq errors'
  BY <1>2
<1>6. Accepts(a, n) => Value(l) = Operand(source[n])
  BY <1>1, <1>5, OperandRead
<1> QED
  BY <1>1, <1>2, <1>3, <1>4, <1>5, <1>6, OperandMoves

LEMMA EffectiveAddressMoves ==
    ASSUME NEW a, NEW n, Reads(a, n), EffectiveAddress
    PROVE  CodeMoves(a, n)
<1> DEFINE l == source[n].l
<1>1. source[n].op = "ea" /\ source[n].op \in RefOps /\ ~Skips(a) /\ ~a.is_bss /\ n = line
  BY CodeIsHere DEF EffectiveAddress, Reads, RefOps
<1>2. UndefinedErrors(l) \subseteq errors'
  BY <1>1 DEF EffectiveAddress, Report
<1>3. /\ Accepts(a, n) => Value(l) = Operand(source[n])
      /\ ~Guess(l, 0).wide /\ Guess(l, 0).errors = {}
  BY <1>1, <1>2, OperandRead
<1>4. /\ Emit(2 + OffsetWidth(Value(l)), Value(l))
      /\ errors' = errors \cup UndefinedErrors(l) \cup OriginErrors
  BY <1>1, <1>3 DEF EffectiveAddress, Report
<1>5. "short_jump_out_of_range" \notin errors' \ errors
  BY <1>4 DEF UndefinedErrors, OriginErrors
<1>6. SizeAt(a, source[n], Operand(source[n])) = 2 + OffsetWidth(Operand(source[n]))
  BY <1>1 DEF SizeAt
<1> QED
  BY <1>1, <1>2, <1>3, <1>4, <1>5, <1>6, OperandMoves

LEMMA ImmediateMoves ==
    ASSUME NEW a, NEW n, Reads(a, n), Immediate
    PROVE  CodeMoves(a, n)
<1> DEFINE l == source[n].l
<1>1. /\ source[n].op = "imm" /\ source[n].op \in RefOps /\ ~Skips(a) /\ ~a.is_bss /\ n = line
      /\ opt_level # 0
  BY CodeIsHere DEF Immediate, Reads, RefOps
<1>2. UndefinedErrors(l) \subseteq errors'
  BY <1>1 DEF Immediate, Report
<1>3. /\ Accepts(a, n) => Value(l) = Operand(source[n])
      /\ ~Guess(l, 1).wide /\ Guess(l, 1).errors = {}
  BY <1>1, <1>2, OperandRead
<1>4. /\ Emit(IF IsInt8In16(Value(l)) THEN 3 ELSE 4, Value(l))
      /\ errors' = errors \cup UndefinedErrors(l) \cup OriginErrors
  BY <1>1, <1>3 DEF Immediate, Report
<1>5. "short_jump_out_of_range" \notin errors' \ errors
  BY <1>4 DEF UndefinedErrors, OriginErrors
<1>6. SizeAt(a, source[n], Operand(source[n])) = IF IsInt8In16(Operand(source[n])) THEN 3 ELSE 4
  BY <1>1 DEF SizeAt
<1> QED
  BY <1>1, <1>2, <1>3, <1>4, <1>5, <1>6, OperandMoves

\* Data and padding, and lines that are out of place.
LEMMA DataMoves ==
    ASSUME NEW a, NEW n, Reads(a, n), Fill \/ Pad \/ Align \/ Incbin \/ MisplacedLine \/ Resb
    PROVE  CodeMoves(a, n)
<1> DEFINE item == source[n]
           silent == "short_jump_out_of_range" \notin errors' \ errors
<1>1. /\ n = line /\ current_address = a.at /\ start_address = a.start /\ is_bss = a.is_bss
      /\ assembler_pass > 1 /\ a.at \in Int /\ a.start \in Int /\ Skipping = Skips(a)
  BY ReadLine DEF Reads
<1>2. silent => SaysFar(n)
  BY DEF SaysFar
<1>3. CASE Fill \/ Incbin
  <2>1. /\ item.op \in {"fill", "incbin"} /\ ~Skips(a) /\ (item.op = "fill" => ~a.is_bss)
        /\ current_address' = a.at + item.n /\ errors' = errors
    BY <1>1, <1>3 DEF Fill, Incbin, OnCode, OnLine, AtLine, Emit
  <2>2. Accepts(a, n) /\ SizeAt(a, item, Operand(item)) = item.n
    BY <2>1 DEF Accepts, SizeAt, RefOps, PreprocOps
  <2> QED
    BY <1>2, <2>1, <2>2 DEF CodeMoves, CodeOps
<1>4. CASE Pad
  <2>1. item.op = "pad" /\ ~Skips(a) /\ ~a.is_bss
    BY <1>1, <1>4 DEF Pad, OnCode, OnLine, AtLine
  <2>2. IF item.n - (a.at - a.start) < 0
        THEN Report({"times_negative"})
        ELSE Emit(item.n - (a.at - a.start), 0) /\ UNCHANGED errors
    BY <1>1, <1>4 DEF Pad
  <2>3. /\ item.op = "pad" /\ ~Skips(a) /\ ~a.is_bss /\ silent
        /\ IF item.n - (a.at - a.start) < 0 THEN errors' # {}
           ELSE current_address' = a.at + (item.n - (a.at - a.start))
    <3>1. CASE item.n - (a.at - a.start) < 0
      BY <2>1, <2>2, <3>1 DEF Report
    <3>2. CASE ~(item.n - (a.at - a.start) < 0)
      BY <1>1, <2>1, <2>2, <3>2 DEF Emit
    <3> QED
      BY <3>1, <3>2
  <2>4. item.n \in Nat
    BY <2>3, ReadLine, LineFields DEF NumOps
  <2>5. Accepts(a, n) <=> item.n - (a.at - a.start) >= 0
    BY <2>3 DEF Accepts, RefOps, PreprocOps
  <2>6. SizeAt(a, item, Operand(item)) = item.n - (a.at - a.start)
    BY <2>3 DEF SizeAt
  <2> QED
    BY <1>1, <1>2, <2>3, <2>4, <2>5, <2>6 DEF CodeMoves, CodeOps
<1>5. CASE Align
  <2>1. item.op = "align" /\ ~Skips(a) /\ ~a.is_bss
    BY <1>1, <1>5 DEF Align, OnCode, OnLine, AtLine
  <2>2. IF item.n = 0
        THEN Report({"align_not_positive"})
        ELSE Emit(AlignTimes(item.n), 0) /\ UNCHANGED errors
    BY <1>1, <1>5 DEF Align
  <2>3. /\ item.op = "align" /\ ~Skips(a) /\ ~a.is_bss /\ silent
        /\ IF item.n = 0 THEN errors' # {} ELSE current_address' = a.at + AlignTimes(item.n)
    <3>1. CASE item.n = 0
      BY <2>1, <2>2, <3>1 DEF Report
    <3>2. CASE ~(item.n = 0)
      BY <1>1, <2>1, <2>2, <3>2 DEF Emit
    <3> QED
      BY <3>1, <3>2
  <2>4. Accepts(a, n) <=> item.n # 0
    BY <2>3 DEF Accepts, RefOps, PreprocOps
  <2>5. SizeAt(a, item, Operand(item)) = AlignTimes(item.n)
    BY <1>1, <2>3 DEF SizeAt, AlignTimes
  <2> QED
    BY <1>1, <1>2, <2>3, <2>4, <2>5 DEF CodeMoves, CodeOps
<1>6. CASE MisplacedLine
  <2>1. /\ \/ item.op \in RefOps \cup {"fill", "pad", "align"} /\ a.is_bss
           \/ item.op = "resb" /\ ~a.is_bss
        /\ ~Skips(a) /\ errors' # {}
    BY <1>1, <1>6 DEF MisplacedLine, OnCode, OnLine, AtLine, Report
  <2>2. ~Accepts(a, n)
    BY <2>1 DEF Accepts, RefOps, PreprocOps
  <2> QED
    BY <2>1, <2>2 DEF CodeMoves, CodeOps
<1>7. CASE Resb
  <2>1. /\ item.op = "resb" /\ ~Skips(a) /\ a.is_bss
        /\ current_address' = a.at + item.n /\ errors' = errors
    BY <1>1, <1>7 DEF Resb, OnLine, AtLine
  <2>2. Accepts(a, n) /\ SizeAt(a, item, Operand(item)) = item.n
    BY <2>1 DEF Accepts, SizeAt, RefOps, PreprocOps
  <2> QED
    BY <1>2, <2>1, <2>2 DEF CodeMoves, CodeOps
<1> QED
  BY <1>3, <1>4, <1>5, <1>6, <1>7

LEMMA EveryCodeMoves ==
    ASSUME NEW a, NEW n, Reads(a, n), Code
    PROVE  CodeMoves(a, n)
BY JmpMoves, JccMoves, ShortJumpMoves, NearJumpMoves, DefineWordMoves, EffectiveAddressMoves,
   ImmediateMoves, DataMoves, Zenon DEF Code

LEMMA AcceptsSame ==
    ASSUME NEW a, NEW n, UNCHANGED <<source, labels, default_start_address>>
    PROVE  (Accepts(a, n)' <=> Accepts(a, n)) /\ After(a, n)' = After(a, n)
BY DEF Accepts, After, IsLive, Holds

LEMMA CodeFollows ==
    ASSUME NEW a, NEW n, Reads(a, n), Code
    PROVE  /\ Unharmed => Goes(a, n)
           /\ Accepts(a, n) => GoesAgain(a, n)
<1>1. CodeMoves(a, n) /\ CodeFrame /\ (EmitsLine \/ EmitsNothing) /\ n = line
  BY EveryCodeMoves, CodeStep DEF Reads, WInv, TInv
<1>2. /\ line' = n + 1 /\ phase' = "assemble" /\ jump_range_bits \subseteq jump_range_bits'
      /\ UNCHANGED <<source, default_start_address, opt_level, assembler_pass, prev_address,
                     labels, have_labels_changed, level, avoid_level, is_bss, start_address>>
  BY <1>1 DEF CodeFrame, SameLineState
<1>3. ASSUME Accepts(a, n) PROVE Here' = After(a, n)
  <2>1. current_address' = a.at + SizeAt(a, source[n], Operand(source[n]))
    BY <1>1, <1>3 DEF CodeMoves
  <2>2. /\ source[n].op \notin {"if", "else", "endif", "bss"} /\ ~Skips(a)
    BY <1>1 DEF CodeMoves, CodeOps, RefOps
  <2>3. After(a, n) = Place(a.level, a.avoid_level, a.is_bss,
                            a.at + SizeAt(a, source[n], Operand(source[n])), a.start)
    BY <2>2 DEF After, Operand
  <2> QED
    BY <1>2, <2>1, <2>3, ReadLine DEF Here
<1>4. ASSUME Unharmed PROVE Goes(a, n)
  <2>1. Accepts(a, n)
    BY <1>1, <1>4 DEF Unharmed, CodeMoves
  <2> QED
    BY <1>2, <1>3, <2>1, AcceptsSame DEF Goes, IsLive
<1>5. ASSUME Accepts(a, n) PROVE GoesAgain(a, n)
  <2>1. SaysFar(n)
    BY <1>1, <1>5 DEF CodeMoves
  <2>2. \E more \in Seq(EntrySet) : emitted' = emitted \o more
    <3>1. emitted \in Seq(EntrySet)
      BY DEF Reads, WInv, TInv, TypeOK, EmittedTyped
    <3>2. CASE EmitsNothing
      <4>1. emitted' = emitted \o <<>> /\ <<>> \in Seq(EntrySet)
        BY <3>1, <3>2 DEF EmitsNothing
      <4> QED
        BY <4>1, Zenon
    <3>3. CASE EmitsLine
      <4>1. PICK size \in Nat, to \in Int : Emit(size, to)
        BY <3>3 DEF EmitsLine
      <4>2. Entry(size, to) \in EntrySet
        BY ReadLine, <1>1 DEF Entry, EntrySet
      <4>3. emitted' = Append(emitted, Entry(size, to))
        BY <4>1 DEF Emit, Reads
      <4>4. emitted' = emitted \o <<Entry(size, to)>> /\ <<Entry(size, to)>> \in Seq(EntrySet)
        BY <3>1, <4>2, <4>3
      <4> QED
        BY <4>4
    <3> QED
      BY <1>1, <3>2, <3>3
  <2> QED
    BY <1>2, <1>3, <1>5, <2>1, <2>2 DEF GoesAgain
<1> QED
  BY <1>4, <1>5

\* The lines that leave the labels and the output alone.
LEMMA QuietFollows ==
    ASSUME NEW a, NEW n, Reads(a, n), n = line, UNCHANGED unchangedByDirective,
           UNCHANGED default_start_address,
           errors' = {} => line' = n + 1 /\ phase' = "assemble" /\ Accepts(a, n),
           Accepts(a, n) => line' = n + 1 /\ phase' = "assemble" /\ Here' = After(a, n),
           "short_jump_out_of_range" \notin errors' \ errors
    PROVE  /\ Unharmed => Goes(a, n)
           /\ Accepts(a, n) => GoesAgain(a, n)
<1>1. /\ UNCHANGED <<source, default_start_address, opt_level, assembler_pass, prev_address,
                     labels, have_labels_changed, jump_range_bits, emitted>>
  BY DEF unchangedByDirective, unchangedByLine, deltaVars
<1>2. Unharmed => Goes(a, n)
  BY <1>1, AcceptsSame DEF Unharmed, Goes, IsLive
<1>3. \E more \in Seq(EntrySet) : emitted' = emitted \o more
  <2>1. emitted \in Seq(EntrySet)
    BY DEF Reads, WInv, TInv, TypeOK, EmittedTyped
  <2>2. emitted' = emitted \o <<>> /\ <<>> \in Seq(EntrySet)
    BY <1>1, <2>1
  <2> QED
    BY <2>2, Zenon
<1>4. SaysFar(n)
  BY DEF SaysFar
<1> QED
  BY <1>1, <1>2, <1>3, <1>4 DEF GoesAgain

LEMMA DirectiveFollows ==
    ASSUME NEW a, NEW n, Reads(a, n), Directives
    PROVE  /\ Unharmed => Goes(a, n)
           /\ Accepts(a, n) => GoesAgain(a, n)
<1> DEFINE item == source[n]
<1>1. /\ n = line /\ Skipping = Skips(a) /\ is_start_address_set > 0 /\ is_start_address_set # 0
      /\ a = Place(level, avoid_level, is_bss, current_address, start_address)
      /\ a.level = level /\ a.avoid_level = avoid_level /\ a.is_bss = is_bss
      /\ a.at = current_address /\ a.start = start_address
      /\ level \in Nat /\ avoid_level \in Nat
      /\ phase = "assemble" /\ ~EndOfFile
  <2>1. n \in Nat /\ Len(source) \in Nat /\ n = line /\ n <= Len(source)
    BY ReadLine DEF Reads, WInv, TInv, TypeOK, SourceTyped
  <2>2. ~EndOfFile
    BY <2>1 DEF EndOfFile
  <2> QED
    BY <2>2, ReadLine DEF Reads
<1>2. UNCHANGED unchangedByDirective
  <2>1. CASE SkipLine \/ OrgAgain \/ OrgFirst \/ SectionBss
    BY <2>1, Zenon DEF SkipLine, OrgAgain, OrgFirst, SectionBss
  <2>2. CASE If \/ Else \/ Endif
    <3>1. UNCHANGED unchangedByCondition
      BY <2>2, Zenon DEF If, Else, Endif
    <3> QED
      BY <3>1 DEF unchangedByCondition
  <2> QED
    BY <1>1, <2>1, <2>2, Zenon DEF Directives
<1>3. CASE SkipLine
  <2>1. item.op \notin PreprocOps /\ Skips(a) /\ line' = n + 1 /\ phase' = "assemble"
        /\ UNCHANGED <<level, avoid_level, is_bss, current_address, start_address,
                       default_start_address, errors>>
    BY <1>1, <1>3 DEF SkipLine, NextLine, lineVars, addressVars
  <2>2. Accepts(a, n) /\ After(a, n) = a
    BY <2>1 DEF Accepts, After, PreprocOps
  <2> QED
    BY <1>1, <1>2, <2>1, <2>2, QuietFollows DEF Here
<1>4. CASE OrgAgain
  <2>1. item.op = "org" /\ ~Skips(a)
        /\ UNCHANGED <<level, avoid_level, is_bss, current_address, start_address,
                       default_start_address>>
    BY <1>1, <1>4 DEF OrgAgain, OnLine, AtLine, lineVars
  <2>2. IF item.n = default_start_address
        THEN line' = n + 1 /\ phase' = "assemble" /\ errors' = errors
        ELSE errors' = errors \cup {"origin_redefined"}
    BY <1>1, <1>4 DEF OrgAgain, NextLine, Report
  <2>3. Accepts(a, n) <=> item.n = default_start_address
    BY <2>1 DEF Accepts, PreprocOps, RefOps
  <2>4. After(a, n) = a
    <3>1. After(a, n) = Place(a.level, a.avoid_level, a.is_bss, a.at + 0, a.start)
      BY <2>1 DEF After, SizeAt, PreprocOps, RefOps
    <3>2. a.at + 0 = a.at
      BY ReadLine
    <3> QED
      BY <1>1, <3>1, <3>2
  <2>5. "short_jump_out_of_range" \notin errors' \ errors /\ (errors' = {} => item.n = default_start_address)
    BY <2>2
  <2> QED
    BY <1>1, <1>2, <2>1, <2>2, <2>3, <2>4, <2>5, QuietFollows DEF Here
<1>5. CASE OrgFirst
  BY <1>1, <1>5 DEF OrgFirst
<1>6. CASE SectionBss
  <2>1. item.op = "bss" /\ ~Skips(a) /\ line' = n + 1 /\ phase' = "assemble"
        /\ UNCHANGED <<level, avoid_level, current_address, default_start_address, errors>>
        /\ is_bss' = TRUE
        /\ start_address' = IF is_bss THEN start_address ELSE current_address
    BY <1>1, <1>6 DEF SectionBss, OnLine, AtLine, NextLine
  <2>2. Accepts(a, n) /\ After(a, n) = Place(a.level, a.avoid_level, TRUE, a.at,
                                             IF a.is_bss THEN a.start ELSE a.at)
    BY <2>1 DEF Accepts, After, PreprocOps, RefOps
  <2>3. Here' = After(a, n)
    BY <1>1, <2>1, <2>2 DEF Here
  <2> QED
    BY <1>1, <1>2, <2>1, <2>2, <2>3, QuietFollows
<1>7. CASE If
  <2>1. item.op = "if" /\ line' = n + 1 /\ phase' = "assemble" /\ level' = level + 1
        /\ UNCHANGED <<is_bss, current_address, start_address, default_start_address, errors>>
    BY <1>1, <1>7 DEF If, AtLine, NextLine, unchangedByCondition
  <2>2. avoid_level' = IF (avoid_level # 0 /\ level + 1 >= avoid_level) \/ current_address - start_address >= item.n
                       THEN avoid_level ELSE level + 1
    BY <1>1, <1>7, <2>1 DEF If
  <2>3. Accepts(a, n)
    BY <2>1 DEF Accepts, PreprocOps
  <2>4. Here' = After(a, n)
    BY <1>1, <2>1, <2>2 DEF After, Here, PreprocOps
  <2> QED
    BY <1>1, <1>2, <2>1, <2>3, <2>4, QuietFollows
<1>8. CASE Else
  <2>1. item.op = "else"
        /\ UNCHANGED <<level, is_bss, current_address, start_address, default_start_address>>
    BY <1>1, <1>8 DEF Else, AtLine, unchangedByCondition
  <2>2. IF level = 1 THEN errors' = errors \cup {"else_without_if"}
        ELSE line' = n + 1 /\ phase' = "assemble" /\ errors' = errors /\ avoid_level' = ElseLevel(a)
    BY <1>1, <1>8 DEF Else, NextLine, Report, ElseLevel
  <2>3. Accepts(a, n) <=> level # 1
    BY <1>1, <2>1 DEF Accepts, PreprocOps
  <2>4. After(a, n) = Place(a.level, ElseLevel(a), a.is_bss, a.at, a.start)
    BY <2>1 DEF After, PreprocOps
  <2>5. "short_jump_out_of_range" \notin errors' \ errors /\ (errors' = {} => level # 1)
    BY <2>2
  <2> QED
    BY <1>1, <1>2, <2>1, <2>2, <2>3, <2>4, <2>5, QuietFollows DEF Here
<1>9. CASE Endif
  <2>1. item.op = "endif" /\ level' = level - 1
        /\ UNCHANGED <<is_bss, current_address, start_address, default_start_address>>
        /\ avoid_level' = IF avoid_level = level THEN 0 ELSE avoid_level
    BY <1>1, <1>9 DEF Endif, AtLine, unchangedByCondition
  <2>2. IF level = 1 THEN errors' = errors \cup {"endif_without_if"}
        ELSE line' = n + 1 /\ phase' = "assemble" /\ errors' = errors
    BY <1>1, <1>9 DEF Endif, NextLine, Report
  <2>3. Accepts(a, n) <=> level # 1
    BY <1>1, <2>1 DEF Accepts, PreprocOps
  <2>4. After(a, n) = Place(a.level - 1, IF a.avoid_level = a.level THEN 0 ELSE a.avoid_level,
                            a.is_bss, a.at, a.start)
    BY <2>1 DEF After, PreprocOps
  <2>5. "short_jump_out_of_range" \notin errors' \ errors /\ (errors' = {} => level # 1)
    BY <2>2
  <2> QED
    BY <1>1, <1>2, <2>1, <2>2, <2>3, <2>4, <2>5, QuietFollows DEF Here
<1> QED
  BY <1>1, <1>3, <1>4, <1>5, <1>6, <1>7, <1>8, <1>9, Zenon DEF Directives

\* A label that is defined.
LEMMA DefinesFollows ==
    ASSUME NEW a, NEW n, Reads(a, n), LabelFrame, NEW l \in Labels, NEW m \in Labels, NEW v \in Int,
           NEW errs, Defines(l, v, errs), source[n].op \in {"label", "equ"}, ~Skips(a),
           l = source[n].l, source[n].op = "label" => v = a.at,
           source[n].op = "equ" => m = source[n].m /\ (errors' = {} => Holds(m, v)),
           errors' = errors \cup CreateErrors(l) \cup errs,
           "short_jump_out_of_range" \notin errs,
           Accepts(a, n) => Holds(l, v)
    PROVE  /\ Unharmed => Goes(a, n)
           /\ Accepts(a, n) => GoesAgain(a, n)
<1>1. TInv /\ n = line /\ n \in Nat \ {0} /\ assembler_pass > 1 /\ ~(assembler_pass <= 1)
  BY ReadLine DEF Reads, WInv, TInv, TypeOK, MainTyped
<1>2. /\ line' = n + 1 /\ phase' = "assemble"
      /\ UNCHANGED <<source, default_start_address, opt_level, assembler_pass, prev_address,
                     jump_range_bits, level, avoid_level, is_bss, start_address>>
  BY <1>1 DEF LabelFrame, SameLineState
<1>3. current_address' = current_address /\ emitted' = Append(emitted, Entry(0, v))
  BY <1>1 DEF Defines, EmitDefinition
<1>4. Here' = After(a, n) /\ Here' = After(a, n)'
  <2>1. After(a, n) = Place(a.level, a.avoid_level, a.is_bss, a.at + 0, a.start)
    BY DEF After, SizeAt, PreprocOps, RefOps
  <2>2. After(a, n)' = Place(a.level, a.avoid_level, a.is_bss, a.at + 0, a.start)
    BY <1>2 DEF After, SizeAt, PreprocOps, RefOps
  <2>3. a = Here' /\ a.at + 0 = a.at
    BY <1>2, <1>3, ReadLine DEF Here
  <2>4. a = Place(a.level, a.avoid_level, a.is_bss, a.at, a.start)
    BY ReadLine DEF Place
  <2> QED
    BY <2>1, <2>2, <2>3, <2>4
<1>5. ASSUME Unharmed PROVE Goes(a, n)
  <2>1. /\ ~have_labels_changed /\ Holds(l, v)'
        /\ \A k \in Labels, w \in Int : Holds(k, w) => Holds(k, w)'
    BY <1>1, <1>5, DefinesHolds DEF Unharmed
  <2>2. \A k \in Labels : IsLive(k) => labels'[k].state = "live" /\ labels'[k].value = labels[k].value
    <3> SUFFICES ASSUME NEW k \in Labels, NEW w, w = labels[k].value, IsLive(k)
                 PROVE  labels'[k].state = "live" /\ labels'[k].value = w
      BY Zenon
    <3>1. w \in Int /\ Holds(k, w)
      BY ReadLine DEF LabelSet, IsLive, Holds
    <3> QED
      BY <2>1, <3>1 DEF Holds
  <2>3. Accepts(a, n)'
    <3>1. labels'[l].state = "live" /\ labels'[l].value = v
      BY <2>1 DEF Holds
    <3>2. source[n].op = "equ" => labels'[m].state = "live" /\ labels'[m].value = v
      BY <1>5, <2>1 DEF Unharmed, Holds
    <3> QED
      BY <1>2, <3>1, <3>2 DEF Accepts, PreprocOps, RefOps, Holds, IsLive
  <2> QED
    BY <1>2, <1>4, <1>5, <2>1, <2>2, <2>3 DEF Goes
<1>6. ASSUME Accepts(a, n) PROVE GoesAgain(a, n)
  <2>1. Holds(l, v) /\ labels[l] \in LabelSet /\ have_labels_changed \in BOOLEAN
    BY <1>1, <1>6, ReadLine DEF TInv, TypeOK, MainTyped
  <2>2. labels' = Created(l, v) /\ have_labels_changed' = have_labels_changed
    BY <1>1, <2>1 DEF Defines, CreateLabel, Holds
  <2>3. Created(l, v) = labels
    <3>1. labels[l] = [state |-> "live", value |-> v]
      BY <2>1 DEF LabelSet, Holds
    <3> QED
      BY <3>1, ReadLine DEF Created
  <2>4. "short_jump_out_of_range" \notin errors' \ errors
    BY DEF CreateErrors
  <2>5. emitted' = emitted \o <<Entry(0, v)>> /\ <<Entry(0, v)>> \in Seq(EntrySet)
    <3> DEFINE e == Entry(0, v)
    <3>1. emitted \in Seq(EntrySet) /\ e \in EntrySet
      BY <1>1 DEF TInv, TypeOK, EmittedTyped, MainTyped, AddressTyped, Entry, EntrySet
    <3>2. emitted' = Append(emitted, e)
      BY <1>3
    <3> HIDE DEF e
    <3>3. emitted' = emitted \o <<e>> /\ <<e>> \in Seq(EntrySet)
      BY <3>1, <3>2
    <3> QED
      BY <3>3 DEF e
  <2>6. SaysFar(n) /\ \E more \in Seq(EntrySet) : emitted' = emitted \o more
    BY <2>4, <2>5 DEF SaysFar
  <2> QED
    BY <1>2, <1>4, <2>2, <2>3, <2>6 DEF GoesAgain
<1> QED
  BY <1>5, <1>6

LEMMA LabelFollows ==
    ASSUME NEW a, NEW n, Reads(a, n), LabelLine \/ EquLine
    PROVE  /\ Unharmed => Goes(a, n)
           /\ Accepts(a, n) => GoesAgain(a, n)
<1> DEFINE item == source[n]
           l == source[n].l
<1>1. TInv /\ TypeOK /\ n = line /\ assembler_pass > 1 /\ Skipping = Skips(a)
      /\ a.at = current_address /\ current_address \in Int /\ labels \in [Labels -> LabelSet]
  BY ReadLine DEF Reads, WInv, TInv
<1>2. CASE LabelLine
  <2>1. LabelFrame /\ item.op = "label" /\ l \in Labels /\ Defines(l, a.at, {})
    BY <1>1, <1>2, LabelLineStep
  <2>2. errors' = errors \cup CreateErrors(l) \cup {} /\ ~Skips(a)
    BY <1>1, <1>2 DEF LabelLine, Report, OnLine
  <2>3. Accepts(a, n) <=> Holds(l, a.at)
    BY <2>1, <2>2 DEF Accepts, PreprocOps, RefOps
  <2> HIDE DEF item, l
  <2> QED
    BY <1>1, <2>1, <2>2, <2>3, DefinesFollows DEF item, l
<1>3. CASE EquLine
  <2> DEFINE m == source[n].m
             v == Value(source[n].m)
  <2>1. LabelFrame /\ item.op = "equ" /\ l \in Labels /\ m \in Labels
        /\ Defines(l, v, UndefinedErrors(m))
    BY <1>1, <1>3, EquLineStep
  <2>2. errors' = errors \cup CreateErrors(l) \cup UndefinedErrors(m) /\ ~Skips(a)
    BY <1>1, <1>3 DEF EquLine, Report, OnLine
  <2>3. v \in Int
    BY <1>1, <2>1, ValueInt DEF TypeOK
  <2>4. Accepts(a, n) => Holds(l, v)
    BY <2>1, <2>2 DEF Accepts, PreprocOps, RefOps, IsLive, Value, Undefined
  <2>5. errors' = {} => Holds(m, v)
    BY <1>1, <2>2 DEF UndefinedErrors, Undefined, Value, Holds
  <2>6. "short_jump_out_of_range" \notin UndefinedErrors(m)
    BY DEF UndefinedErrors
  <2> HIDE DEF item, l, m, v
  <2> QED
    BY <1>1, <2>1, <2>2, <2>3, <2>4, <2>5, <2>6, DefinesFollows DEF item, l, m
<1> QED
  BY <1>2, <1>3

LEMMA LineFollows ==
    ASSUME NEW a, NEW n, Reads(a, n), AssembleLine
    PROVE  /\ Unharmed => Goes(a, n)
           /\ Accepts(a, n) => GoesAgain(a, n)
<1>1. CASE Code
  BY <1>1, CodeFollows
<1>2. CASE LabelLine \/ EquLine
  BY <1>2, LabelFollows
<1>3. CASE Directives
  BY <1>3, DirectiveFollows
<1> QED
  BY <1>1, <1>2, <1>3, Zenon DEF AssembleLine, Directive, Directives

-----------------------------------------------------------------------------
(* Every step keeps the layout. *)

KeepsLive ==
    \A l \in Labels : IsLive(l) => labels'[l].state = "live" /\ labels'[l].value = labels[l].value

\* What has been accepted stays accepted, with the same size.
LEMMA AcceptsKept ==
    ASSUME NEW a, NEW i, source[i] \in Line, UNCHANGED <<source, default_start_address>>,
           KeepsLive, Accepts(a, i)
    PROVE  Accepts(a, i)' /\ After(a, i)' = After(a, i)
<1> DEFINE item == source[i]
<1>1. source' = source /\ default_start_address' = default_start_address
  OBVIOUS
<1>2. CASE item.op \in PreprocOps \/ Skips(a)
  <2>1. item.op \in PreprocOps => item.op \notin RefOps
    BY DEF PreprocOps, RefOps
  <2>2. Accepts(a, i)'
    BY <1>1, <1>2 DEF Accepts
  <2>3. After(a, i)' = After(a, i)
    BY <1>1, <1>2, <2>1 DEF After, PreprocOps
  <2> QED
    BY <2>2, <2>3
<1>3. CASE item.op \notin PreprocOps /\ ~Skips(a)
  <2>1. /\ item.op \in RefOps => item.l \in Labels /\ IsLive(item.l)
        /\ item.op = "label" => item.l \in Labels /\ Holds(item.l, a.at)
        /\ item.op = "equ" => /\ item.m \in Labels /\ item.l \in Labels
                              /\ IsLive(item.m) /\ Holds(item.l, labels[item.m].value)
    BY <1>3, LineFields DEF Accepts
  <2>2. /\ item.op \in RefOps => /\ labels'[item.l].state = "live"
                                 /\ labels'[item.l].value = labels[item.l].value
        /\ item.op = "label" => labels'[item.l].state = "live" /\ labels'[item.l].value = a.at
        /\ item.op = "equ" => /\ labels'[item.m].state = "live"
                              /\ labels'[item.l].state = "live"
                              /\ labels'[item.l].value = labels'[item.m].value
    BY <2>1 DEF KeepsLive, IsLive, Holds
  <2>3. Accepts(a, i)'
    BY <1>1, <1>3, <2>2 DEF Accepts, IsLive, Holds
  <2>4. After(a, i)' = After(a, i)
    BY <1>1, <2>2 DEF After
  <2> QED
    BY <2>3, <2>4
<1> QED
  BY <1>2, <1>3

LEMMA LayoutKept ==
    ASSUME NEW f, NEW n \in Nat, n <= Len(source) + 1, SourceTyped,
           UNCHANGED <<source, default_start_address>>, KeepsLive, Layout(f, n)
    PROVE  Layout(f, n)'
<1>1. \A i \in 1..n - 1 : source[i] \in Line
  BY DEF SourceTyped
<1>2. \A i \in 1..n - 1 : Accepts(f[i], i) /\ f[i + 1] = After(f[i], i)
  BY DEF Layout
<1>3. \A i \in 1..n - 1 : Accepts(f[i], i)' /\ f[i + 1] = After(f[i], i)'
  <2> SUFFICES ASSUME NEW i \in 1..n - 1 PROVE Accepts(f[i], i)' /\ f[i + 1] = After(f[i], i)'
    OBVIOUS
  <2>1. \A a : a = f[i] => Accepts(a, i)' /\ After(a, i)' = After(a, i)
    BY <1>1, <1>2, AcceptsKept
  <2> QED
    BY <1>2, <2>1
<1> QED
  BY <1>3 DEF Layout

\* One more line, when it has been read.
LEMMA LayoutGrows ==
    ASSUME NEW f, NEW n \in Nat \ {0}, NEW b,
           Layout(f, n)', Accepts(f[n], n)', b = After(f[n], n)'
    PROVE  \E g : Layout(g, n + 1)' /\ g[n + 1] = b
<1>1. PICK g : /\ g[1] = f[1] /\ g[n + 1] = b /\ g[n] = f[n]
               /\ \A i \in 1..n - 1 : g[i] = f[i] /\ g[i + 1] = f[i + 1]
  <2> DEFINE h == [i \in 1..n + 1 |-> IF i <= n THEN f[i] ELSE b]
  <2>1. /\ h[1] = f[1] /\ h[n + 1] = b /\ h[n] = f[n]
        /\ \A i \in 1..n - 1 : h[i] = f[i] /\ h[i + 1] = f[i + 1]
    OBVIOUS
  <2> HIDE DEF h
  <2> QED
    BY <2>1
<1>2. \A i \in 1..n - 1 : Accepts(f[i], i)' /\ f[i + 1] = After(f[i], i)'
  BY DEF Layout
<1>3. \A i \in 1..n : Accepts(g[i], i)' /\ g[i + 1] = After(g[i], i)'
  <2> SUFFICES ASSUME NEW i \in 1..n, NEW a, a = g[i] PROVE Accepts(a, i)' /\ g[i + 1] = After(a, i)'
    BY Zenon
  <2>1. CASE i = n
    BY <1>1, <2>1
  <2>2. CASE i # n
    <3>1. i \in 1..n - 1
      BY <2>2
    <3> QED
      BY <1>1, <1>2, <3>1
  <2> QED
    BY <2>1, <2>2
<1>4. Layout(g, n + 1)'
  <2>1. (n + 1) - 1 = n
    OBVIOUS
  <2> QED
    BY <1>1, <1>3, <2>1 DEF Layout
<1> QED
  BY <1>1, <1>4

\* Only the end of the file is not a line.
LEMMA LineIsRead ==
    ASSUME TInv, AssembleLine, ~EndOfFile
    PROVE  line <= Len(source)
<1>1. line \in DOMAIN source => line <= Len(source)
  BY DEF TInv, TypeOK, SourceTyped
<1>2. CASE Code
  BY <1>1, <1>2, CodeStep DEF TInv, CodeFrame
<1>3. CASE LabelLine \/ EquLine
  BY <1>1, <1>3, LabelLineStep, EquLineStep DEF TInv, LabelFrame
<1>4. CASE Directives
  BY <1>4 DEF Directives, OrgAgain, OrgFirst, SectionBss, If, Else, Endif, SkipLine, OnLine, AtLine
<1> QED
  BY <1>2, <1>3, <1>4, Zenon DEF AssembleLine, Directive, Directives

LEMMA EndOfFileKeeps ==
    ASSUME TInv, EndOfFile
    PROVE  /\ phase' = "assembled" /\ line' = line /\ line > Len(source)
           /\ UNCHANGED <<source, opt_level, assembler_pass, prev_address, labels, emitted,
                          have_labels_changed, jump_range_bits, level, avoid_level, is_bss,
                          current_address, start_address, default_start_address>>
           /\ Here' = Here
           /\ errors \subseteq errors' /\ "short_jump_out_of_range" \notin errors' \ errors
BY DEF EndOfFile, AbandonFile, Report, unchangedByDirective, unchangedByLine, deltaVars, fileVars,
       lineVars, addressVars, Here

LEMMA LayoutSame ==
    ASSUME NEW f, NEW n, UNCHANGED <<source, labels, default_start_address>>
    PROVE  Layout(f, n)' <=> Layout(f, n)
<1>1. \A i, a : (Accepts(a, i)' <=> Accepts(a, i)) /\ After(a, i)' = After(a, i)
  BY AcceptsSame
<1> QED
  BY <1>1 DEF Layout

LEMMA LastLayoutSame ==
    ASSUME NEW f, NEW address, IsLastLayout(f, address),
           UNCHANGED <<source, labels, default_start_address>>
    PROVE  IsLastLayout(f, address)'
<1>1. \A n : Layout(f, n)' <=> Layout(f, n)
  BY LayoutSame
<1>2. PICK n : n = Len(source) + 1
  OBVIOUS
<1>3. Layout(f, n)' /\ f[n].at = address
  BY <1>1, <1>2 DEF IsLastLayout
<1>4. Layout(f, Len(source) + 1)'
  BY <1>2, <1>3 DEF Layout
<1> QED
  BY <1>2, <1>3, <1>4 DEF IsLastLayout

\* A line stays in its pass.
LEMMA PhaseOfLine ==
    ASSUME TInv, AssembleLine
    PROVE  phase' \in {"assemble", "assembled"}
<1>1. CASE Code
  BY <1>1, CodeStep DEF TInv, CodeFrame, SameLineState
<1>2. CASE LabelLine \/ EquLine
  BY <1>2, LabelLineStep, EquLineStep DEF TInv, LabelFrame, SameLineState
<1>3. CASE OrgAgain \/ OrgFirst \/ SectionBss \/ If \/ Else \/ Endif
  BY <1>3, OrgAgainStep, OrgFirstStep, SectionBssStep, IfStep, ElseStep, EndifStep
     DEF DirectiveFrame
<1>4. CASE SkipLine \/ EndOfFile
  BY <1>4, SkipOrEndStep DEF DirectiveFrame
<1> QED
  BY <1>1, <1>2, <1>3, <1>4 DEF AssembleLine, Directive

LEMMA LineTraces ==
    ASSUME WInv, opt_level = 9, Traced, AssembleLine
    PROVE  Traced'
<1>1. /\ TInv /\ TypeOK /\ SourceTyped /\ line \in Nat \ {0} /\ Len(source) \in Nat
      /\ have_labels_changed \in BOOLEAN
  BY DEF WInv, TInv, TypeOK, SourceTyped, MainTyped
<1>2. /\ phase = "assemble" /\ errors \subseteq errors' /\ UNCHANGED assembler_pass
  BY <1>1, AssembleLineKeeps DEF SameLineState
<1> SUFFICES ASSUME assembler_pass > 1, ~have_labels_changed', errors' = {}
             PROVE  /\ line' <= Len(source') + 1 /\ (phase' = "assembled" => line' = Len(source') + 1)
                    /\ \E f : Layout(f, line)' /\ f[line'] = Here'
  BY <1>2 DEF Traced, InPass
<1>3. CASE EndOfFile
  <2>1. ~have_labels_changed /\ errors = {}
    BY <1>1, <1>2, <1>3, EndOfFileKeeps
  <2>2. PICK f : Layout(f, line) /\ f[line] = Here
    BY <1>2, <2>1 DEF Traced, InPass
  <2>3. line = Len(source) + 1
    BY <1>1, <1>2, <1>3, <2>1, EndOfFileKeeps DEF Traced, InPass
  <2>4. \A g, n : n = line /\ Layout(g, n) => Layout(g, n)'
    BY <1>1, <1>3, EndOfFileKeeps, LayoutSame
  <2>5. line' = line /\ Here' = Here /\ source' = source
    BY <1>1, <1>3, EndOfFileKeeps
  <2>6. Layout(f, line)'
    <3>1. \A n : n = line /\ n = line' => (Layout(f, n)' => Layout(f, line)')
      BY DEF Layout
    <3> QED
      BY <2>2, <2>4, <2>5, <3>1
  <2> QED
    BY <2>2, <2>3, <2>5, <2>6
<1>4. CASE ~EndOfFile
  <2>1. line <= Len(source)
    BY <1>1, <1>4, LineIsRead
  <2>2. PICK a, n : a = Here /\ n = line
    OBVIOUS
  <2>3. Reads(a, n)
    BY <1>2, <2>1, <2>2 DEF Reads
  <2>4. Goes(a, n)
    BY <2>3, LineFollows DEF Unharmed
  <2>5. ~have_labels_changed /\ errors = {}
    BY <1>1, <1>2, <2>4 DEF Goes
  <2>6. PICK f : Layout(f, n) /\ f[n] = a
    BY <1>2, <2>2, <2>5 DEF Traced, InPass
  <2>7. Layout(f, n)'
    <3>1. KeepsLive /\ UNCHANGED <<source, default_start_address>>
      BY <2>4 DEF Goes, KeepsLive
    <3> QED
      BY <1>1, <2>1, <2>2, <2>6, <3>1, LayoutKept
  <2>8. \A b : b = Here' => \E g : Layout(g, n + 1)' /\ g[n + 1] = b
    <3> SUFFICES ASSUME NEW b, b = Here' PROVE \E g : Layout(g, n + 1)' /\ g[n + 1] = b
      OBVIOUS
    <3>1. Accepts(f[n], n)' /\ b = After(f[n], n)' /\ n \in Nat \ {0}
      BY <1>1, <2>2, <2>4, <2>6 DEF Goes
    <3> QED
      BY <2>7, <3>1, LayoutGrows
  <2>9. line' = n + 1 /\ phase' = "assemble" /\ source' = source
    BY <2>4 DEF Goes
  <2>10. \A g : Layout(g, n + 1)' => Layout(g, line)'
    BY <2>9 DEF Layout
  <2> QED
    BY <1>1, <2>1, <2>2, <2>8, <2>9, <2>10
<1> QED
  BY <1>3, <1>4

\* Range errors are told only when they have been asked for.
LEMMA ToldWhenAsked ==
    ASSUME TInv, AssembleLine
    PROVE  /\ 2 \in jump_range_bits' <=> 2 \in jump_range_bits
           /\ "short_jump_out_of_range" \in errors' \ errors => 2 \in jump_range_bits
<1> DEFINE Silent == "short_jump_out_of_range" \notin errors' \ errors
<1>1. \A l \in Labels, add \in 0..1 : "short_jump_out_of_range" \notin Guess(l, add).errors
  BY DEF Guess, NoGuess, Guessed, WideQuery
<1>2. \A l, disp : "short_jump_out_of_range" \notin UndefinedErrors(l) \cup NearErrors(disp)
  BY NearTold DEF UndefinedErrors
<1>3. CASE ShortJump
  BY <1>2, <1>3 DEF ShortJump, Report
<1>4. CASE Jmp \/ EffectiveAddress \/ Immediate
  <2>1. line \in DOMAIN source /\ source[line] \in Line /\ source[line].op \in RefOps
    BY <1>4, LineInSource DEF Jmp, EffectiveAddress, Immediate, OnCode, OnLine, AtLine, TInv, RefOps
  <2>2. source[line].l \in Labels
    BY <2>1, LineFields
  <2>3. "short_jump_out_of_range" \notin NoGuess.errors \cup OriginErrors
    BY DEF NoGuess, Guessed, OriginErrors
  <2>4. Silent
    <3>1. CASE Jmp
      BY <1>1, <1>2, <2>2, <3>1 DEF Jmp, Report
    <3>2. CASE EffectiveAddress
      BY <1>1, <1>2, <2>2, <2>3, <3>2 DEF EffectiveAddress, Report
    <3>3. CASE Immediate
      BY <1>1, <1>2, <2>2, <2>3, <3>3 DEF Immediate, Report
    <3> QED
      BY <1>4, <3>1, <3>2, <3>3
  <2> QED
    BY <1>4, <2>4 DEF Jmp, EffectiveAddress, Immediate
<1>5. CASE Jcc \/ NearJump \/ DefineWord
  BY <1>2, <1>5 DEF Jcc, NearJump, DefineWord, Report
<1>6. CASE Fill \/ Pad \/ Align \/ Incbin \/ MisplacedLine \/ Resb
  BY <1>6 DEF Fill, Pad, Align, Incbin, MisplacedLine, Resb, Report
<1>7. CASE LabelLine \/ EquLine
  BY <1>2, <1>7 DEF LabelLine, EquLine, Report, CreateErrors, unchangedByLabel
<1>8. CASE Directives
  BY <1>8 DEF Directives, OrgAgain, OrgFirst, SectionBss, If, Else, Endif, SkipLine, EndOfFile,
              Report, unchangedByDirective, unchangedByCondition
<1> QED
  BY <1>3, <1>4, <1>5, <1>6, <1>7, <1>8, Zenon
     DEF AssembleLine, Code, Directive, Directives

LEMMA LineRepeats ==
    ASSUME WInv, opt_level = 9, Repeated, ShortIsFar, AssembleLine
    PROVE  Repeated' /\ ShortIsFar'
<1>1. /\ TInv /\ TypeOK /\ SourceTyped /\ line \in Nat \ {0} /\ Len(source) \in Nat
      /\ emitted \in Seq(EntrySet)
  BY DEF WInv, TInv, TypeOK, SourceTyped, MainTyped, EmittedTyped
<1>2. /\ phase = "assemble" /\ errors \subseteq errors' /\ UNCHANGED <<assembler_pass, source>>
      /\ phase' \in {"assemble", "assembled"}
  BY <1>1, AssembleLineKeeps, PhaseOfLine DEF SameLineState
<1>3. CASE 2 \notin jump_range_bits
  BY <1>1, <1>3, ToldWhenAsked DEF Repeated, ShortIsFar
<1>4. CASE 2 \in jump_range_bits
  <2>1. /\ assembler_pass > 1 /\ ~have_labels_changed
        /\ line <= Len(source) + 1
    BY <1>2, <1>4 DEF Repeated, InPass
  <2>2. PICK f, address : address = prev_address /\ IsLastLayout(f, address) /\ f[line] = Here
    BY <1>2, <1>4 DEF Repeated, InPass
  <2>3. 2 \in jump_range_bits'
    BY <1>1, <1>4, ToldWhenAsked
  <2>4. CASE EndOfFile
    <3>1. /\ phase' = "assembled" /\ line' = line /\ line = Len(source) + 1 /\ Here' = Here
          /\ UNCHANGED <<source, prev_address, labels, emitted, have_labels_changed,
                         jump_range_bits, default_start_address>>
          /\ "short_jump_out_of_range" \notin errors' \ errors
      BY <1>1, <2>1, <2>4, EndOfFileKeeps
    <3>2. IsLastLayout(f, address)'
      BY <2>2, <3>1, LastLayoutSame
    <3>3. Repeated'
      BY <1>2, <2>1, <2>2, <3>1, <3>2 DEF Repeated
    <3>4. ShortIsFar'
      BY <1>2, <1>4, <3>1 DEF ShortIsFar
    <3> QED
      BY <3>3, <3>4
  <2>5. CASE ~EndOfFile
    <3>1. line <= Len(source)
      BY <1>1, <2>5, LineIsRead
    <3>2. PICK a, n : a = Here /\ n = line
      OBVIOUS
    <3>3. Reads(a, n)
      BY <1>2, <2>1, <3>1, <3>2 DEF Reads
    <3>4. Accepts(f[n], n) /\ f[n + 1] = After(f[n], n)
      BY <1>1, <2>2, <3>1, <3>2 DEF IsLastLayout, Layout
    <3>5. GoesAgain(a, n)
      BY <2>2, <3>2, <3>3, <3>4, LineFollows
    <3>6. Repeated'
      <4>1. IsLastLayout(f, address)'
        BY <2>2, <3>5, LastLayoutSame DEF GoesAgain
      <4>2. /\ line' = n + 1 /\ phase' = "assemble" /\ source' = source
            /\ prev_address' = address /\ have_labels_changed' = have_labels_changed
            /\ Here' = f[n + 1]
        BY <2>2, <3>2, <3>4, <3>5 DEF GoesAgain
      <4>3. line' <= Len(source') + 1 /\ f[line'] = Here'
        BY <1>1, <3>1, <3>2, <4>2
      <4> QED
        BY <1>2, <2>1, <4>1, <4>2, <4>3 DEF Repeated
    <3>7. ShortIsFar'
      <4> SUFFICES ASSUME "short_jump_out_of_range" \in errors'
                   PROVE  \E i \in DOMAIN emitted' :
                             /\ source'[emitted'[i].line].op = "short"
                             /\ ~IsInt8(labels'[source'[emitted'[i].line].l].value - (emitted'[i].at + 2))
        BY <1>2, <2>3 DEF ShortIsFar
      <4>1. source' = source /\ labels' = labels
        BY <3>5 DEF GoesAgain
      <4>2. CASE "short_jump_out_of_range" \in errors
        <5>1. PICK i \in DOMAIN emitted :
                 /\ source[emitted[i].line].op = "short"
                 /\ ~IsInt8(labels[source[emitted[i].line].l].value - (emitted[i].at + 2))
          BY <4>2 DEF ShortIsFar
        <5>2. PICK more \in Seq(EntrySet) : emitted' = emitted \o more
          BY <3>5 DEF GoesAgain
        <5>3. i \in DOMAIN emitted' /\ emitted'[i] = emitted[i]
          BY <1>1, <5>2
        <5> QED
          BY <4>1, <5>1, <5>3
      <4>3. CASE "short_jump_out_of_range" \notin errors
        <5>1. PICK e \in EntrySet :
                 /\ emitted' = Append(emitted, e) /\ e.line = n
                 /\ source[n].op = "short" /\ ~IsInt8(labels[source[n].l].value - (e.at + 2))
          BY <3>5, <4>3 DEF GoesAgain, SaysFar
        <5>2. Len(emitted) + 1 \in DOMAIN emitted' /\ emitted'[Len(emitted) + 1] = e
          BY <1>1, <5>1
        <5> QED
          BY <4>1, <5>1, <5>2
      <4> QED
        BY <4>2, <4>3
    <3> QED
      BY <3>6, <3>7
  <2> QED
    BY <2>4, <2>5
<1> QED
  BY <1>3, <1>4

\* The steps of main() at -O9.
LEMMA EarlyMainRepeats ==
    ASSUME WInv, opt_level = 9, Repeated, ShortIsFar,
           FailEarly \/ StartSpecialPass \/ EndOffsetPasses
    PROVE  Traced' /\ Repeated' /\ ShortIsFar'
<1>1. assembler_pass <= 1 /\ assembler_pass \in Nat /\ errors' = errors
  BY DEF FailEarly, StartSpecialPass, EndOffsetPasses, WInv, TInv, TypeOK, MainTyped
<1>2. 2 \notin jump_range_bits /\ "short_jump_out_of_range" \notin errors
  BY <1>1 DEF Repeated, ShortIsFar
<1>3. 2 \notin jump_range_bits'
  BY <1>2 DEF FailEarly, StartSpecialPass, EndOffsetPasses, BeginAssembly
<1>4. ~(assembler_pass' > 1)
  BY <1>1 DEF FailEarly, StartSpecialPass, EndOffsetPasses, BeginAssembly
<1> QED
  BY <1>1, <1>2, <1>3, <1>4 DEF Traced, Repeated, ShortIsFar

LEMMA FailureRepeats ==
    ASSUME WInv, opt_level = 9, Repeated, ShortIsFar, Failure
    PROVE  Traced' /\ Repeated' /\ ShortIsFar'
<1>1. /\ phase' = "done" /\ errors \subseteq errors'
      /\ "short_jump_out_of_range" \notin errors' \ errors
      /\ UNCHANGED <<source, labels, emitted, assembler_pass, jump_range_bits>>
  BY DEF Failure, OpenFails, WriteFails, Report
<1> QED
  BY <1>1 DEF Traced, Repeated, ShortIsFar, InPass

LEMMA StartPassRepeats ==
    ASSUME WInv, opt_level = 9, Repeated, ShortIsFar, StartPass
    PROVE  Traced' /\ Repeated' /\ ShortIsFar'
<1>1. /\ phase = "reassemble" /\ phase' = "assemble" /\ line' = 1 /\ ~have_labels_changed'
      /\ prev_address' = current_address
      /\ UNCHANGED <<source, labels, default_start_address, errors>>
  BY DEF StartPass, BeginAssembly, unchangedByMain
<1>2. jump_range_bits' = jump_range_bits \ {1}
  BY DEF StartPass, BeginAssembly
<1>3. Here' = Place(1, 0, FALSE, default_start_address, default_start_address)
  BY DEF StartPass, BeginAssembly, ResetAddress, Here, unchangedByMain
<1>4. Len(source) \in Nat
  BY DEF WInv, TInv, TypeOK, SourceTyped
<1>5. "short_jump_out_of_range" \notin errors'
  BY <1>1 DEF ShortIsFar
<1>6. Traced'
  <2>1. PICK f : f[1] = Place(1, 0, FALSE, default_start_address, default_start_address)
    <3> DEFINE g == <<Place(1, 0, FALSE, default_start_address, default_start_address)>>
    <3>1. g[1] = Place(1, 0, FALSE, default_start_address, default_start_address)
      OBVIOUS
    <3> QED
      BY <3>1, Zenon
  <2>2. Layout(f, line)' /\ f[line'] = Here'
    BY <1>1, <1>3, <2>1 DEF Layout
  <2> QED
    BY <1>1, <1>4, <2>2 DEF Traced
<1>7. Repeated'
  <2> SUFFICES ASSUME 2 \in jump_range_bits'
               PROVE  /\ assembler_pass' > 1
                      /\ \E f : IsLastLayout(f, prev_address)' /\ f[line'] = Here'
    BY <1>1, <1>4 DEF Repeated
  <2>1. assembler_pass > 1 /\ \E f : IsLastLayout(f, current_address)
    BY <1>1, <1>2 DEF Repeated
  <2>2. assembler_pass' > 1
    BY <2>1, PassLimit DEF StartPass, BeginAssembly, WInv, TInv, TypeOK, MainTyped
  <2>3. PICK f, address : address = current_address /\ IsLastLayout(f, address)
    BY <2>1
  <2>4. IsLastLayout(f, address)'
    BY <1>1, <2>3, LastLayoutSame
  <2>5. f[line'] = Here'
    BY <1>1, <1>3, <2>3 DEF IsLastLayout, Layout
  <2>6. prev_address' = address
    BY <1>1, <2>3
  <2> QED
    BY <2>2, <2>4, <2>5, <2>6 DEF IsLastLayout
<1> QED
  BY <1>5, <1>6, <1>7 DEF ShortIsFar

\* The report is made of a layout that is final.
LEMMA EndPassRepeats ==
    ASSUME WInv, opt_level = 9, Traced, Repeated, ShortIsFar, EndPass
    PROVE  Traced' /\ Repeated' /\ ShortIsFar'
<1>1. /\ phase = "assembled" /\ assembler_pass > 1
      /\ UNCHANGED <<source, labels, default_start_address, assembler_pass, line,
                     current_address, emitted>>
      /\ have_labels_changed' = (have_labels_changed \/ RangeReportDue)
      /\ jump_range_bits' = IF RangeReportDue THEN {2} ELSE jump_range_bits
      /\ phase' \in {"reassemble", "done"}
      /\ phase' = "reassemble" => errors = {} /\ errors' = {} /\ have_labels_changed'
      /\ errors \subseteq errors' /\ "short_jump_out_of_range" \notin errors' \ errors
  BY DEF EndPass, unchangedByMain, RemoveOutput, AgainErrors
<1>2. Traced'
  BY <1>1 DEF Traced, InPass
<1>3. CASE 2 \in jump_range_bits
  <2>1. ~have_labels_changed /\ ~RangeReportDue
    BY <1>1, <1>3 DEF Repeated, InPass, RangeReportDue
  <2>2. phase' = "done" /\ jump_range_bits' = jump_range_bits
    BY <1>1, <2>1
  <2> QED
    BY <1>1, <1>2, <2>2 DEF Repeated, ShortIsFar, InPass
<1>4. CASE 2 \notin jump_range_bits
  <2>1. "short_jump_out_of_range" \notin errors'
    BY <1>1, <1>4 DEF ShortIsFar
  <2>2. Repeated'
    <3> SUFFICES ASSUME 2 \in jump_range_bits', phase' = "reassemble"
                 PROVE  \E f : IsLastLayout(f, current_address)'
      BY <1>1 DEF Repeated, InPass
    <3>1. ~have_labels_changed /\ errors = {}
      BY <1>1, <1>4 DEF RangeReportDue
    <3>2. PICK f : Layout(f, Len(source) + 1) /\ f[Len(source) + 1] = Here
      BY <1>1, <3>1 DEF Traced, InPass
    <3>3. PICK address : address = current_address
      OBVIOUS
    <3>4. IsLastLayout(f, address)
      BY <3>2, <3>3 DEF IsLastLayout, Here, Place
    <3>5. IsLastLayout(f, address)'
      BY <1>1, <3>4, LastLayoutSame
    <3>6. current_address' = address
      BY <1>1, <3>3
    <3> QED
      BY <3>5, <3>6 DEF IsLastLayout
  <2> QED
    BY <1>2, <2>1, <2>2 DEF ShortIsFar
<1> QED
  BY <1>3, <1>4

LEMMA StutterRepeats ==
    ASSUME WInv, Traced, Repeated, ShortIsFar, UNCHANGED vars
    PROVE  Traced' /\ Repeated' /\ ShortIsFar'
<1>1. /\ UNCHANGED <<source, labels, default_start_address, assembler_pass, line, phase, emitted,
                     current_address, have_labels_changed, jump_range_bits, errors, prev_address>>
      /\ Here' = Here
  BY DEF vars, lineVars, addressVars, deltaVars, Here
<1>2. \A f, n : Layout(f, n) => Layout(f, n)'
  BY <1>1, LayoutSame
<1>3. \A f, address : IsLastLayout(f, address) => IsLastLayout(f, address)'
  BY <1>1, LastLayoutSame
<1>4. \A f, n : n = line' /\ Layout(f, n)' => Layout(f, line)'
  BY DEF Layout
<1>5. \A f, address :
         /\ address = prev_address' /\ IsLastLayout(f, address)' => IsLastLayout(f, prev_address)'
         /\ address = current_address' /\ IsLastLayout(f, address)' => IsLastLayout(f, current_address)'
  BY DEF IsLastLayout
<1>6. Traced'
  BY <1>1, <1>2, <1>4 DEF Traced, InPass
<1>7. Repeated'
  BY <1>1, <1>3, <1>5 DEF Repeated, InPass
<1>8. ShortIsFar'
  BY <1>1 DEF ShortIsFar
<1> QED
  BY <1>6, <1>7, <1>8

LEMMA NextRepeats ==
    ASSUME FarInv, [Next]_vars
    PROVE  FarInv'
<1>1. WInv /\ WInv' /\ TInv
  BY NextWide DEF FarInv, WInv
<1>2. opt_level' = opt_level
  <2>1. CASE AssembleLine
    BY <1>1, <2>1, AssembleLineKeeps DEF SameLineState
  <2>2. CASE MainStep \/ Failure \/ Done \/ UNCHANGED vars
    BY <2>2 DEF MainStep, FailEarly, StartSpecialPass, EndOffsetPasses, StartPass, EndPass,
                Failure, OpenFails, WriteFails, Done, unchangedByMain, vars
  <2> QED
    BY <2>1, <2>2 DEF Next
<1> SUFFICES ASSUME opt_level = 9
             PROVE  Traced' /\ Repeated' /\ ShortIsFar'
  BY <1>1, <1>2 DEF FarInv
<1>3. Traced /\ Repeated /\ ShortIsFar
  BY DEF FarInv
<1>4. CASE AssembleLine
  BY <1>1, <1>3, <1>4, LineTraces, LineRepeats
<1>5. CASE MainStep
  BY <1>1, <1>3, <1>5, EarlyMainRepeats, StartPassRepeats, EndPassRepeats DEF MainStep
<1>6. CASE Failure
  BY <1>1, <1>3, <1>6, FailureRepeats
<1>7. CASE Done \/ UNCHANGED vars
  BY <1>1, <1>3, <1>7, StutterRepeats DEF Done
<1> QED
  BY <1>4, <1>5, <1>6, <1>7 DEF Next

LEMMA InitRepeats == Init => FarInv
<1> SUFFICES ASSUME Init PROVE FarInv
  OBVIOUS
<1>1. /\ assembler_pass = 0 /\ errors = {} /\ phase = "assemble"
      /\ opt_level = 9 => jump_range_bits = {}
  BY DEF Init
<1>2. opt_level = 9 => Traced /\ Repeated /\ ShortIsFar
  BY <1>1 DEF Traced, Repeated, ShortIsFar
<1> QED
  BY <1>2, InitWide DEF FarInv

\* In every behaviour, for every source program: at -O9 the pass that reports range
\* errors ends at the address of the pass before it and changes no label, and a
\* reported short jump is out of reach in that final layout.  Earlier passes, which
\* find short jumps out of reach that later come to fit, report none.
THEOREM RangeErrorsAreReal == Spec => []RangeErrorIsReal
<1>1. Init => FarInv
  BY InitRepeats
<1>2. FarInv /\ [Next]_vars => FarInv'
  BY NextRepeats
<1>3. FarInv => RangeErrorIsReal
  <2> SUFFICES ASSUME FarInv, opt_level = 9 PROVE ReportPassIsStable /\ ShortIsFar
    BY DEF RangeErrorIsReal, ShortIsFar
  <2>1. Repeated /\ ShortIsFar
    BY DEF FarInv
  <2>2. ReportPassIsStable
    <3> SUFFICES ASSUME 2 \in jump_range_bits, phase = "assembled"
                 PROVE  ~have_labels_changed /\ current_address = prev_address
      BY DEF ReportPassIsStable
    <3>1. PICK f : IsLastLayout(f, prev_address) /\ f[line] = Here
      BY <2>1 DEF Repeated, InPass
    <3>2. ~have_labels_changed /\ line = Len(source) + 1
      BY <2>1 DEF Repeated, InPass
    <3> QED
      BY <3>1, <3>2 DEF IsLastLayout, Here, Place
  <2> QED
    BY <2>1, <2>2
<1> QED
  BY <1>1, <1>2, <1>3, PTL DEF Spec

====

----------------------------- MODULE Instructions -----------------------------
(***************************************************************************)
(* process_instruction() and match(): the operands of an instruction are   *)
(* matched against the alternatives of its row, from left to right, and    *)
(* the first that matches is encoded.  What a failed alternative has left  *)
(* in the variables stays there.  Each program is assembled in pass 0,     *)
(* where labels defined behind their use are unknown, and in pass 2.       *)
(***************************************************************************)
EXTENDS InstructionSet, WideList

CONSTANTS
    Programs,     \* the programs considered: sequences of lines
    Options       \* the options of the command line, and cpu_level

(***************************************************************************)
(* A line is a sequence of tokens.  A mem token stands for [seg: regs +    *)
(* value], where seg is 0 if absent, and forward says that the value has a *)
(* label that is defined later.                                            *)
(***************************************************************************)
Token == [t : {"name"}, name : STRING]
         \cup [t : {"strict", "byte", "word", "short", "near", "far", ",", ":"}]
         \cup [t : {"reg8", "reg16"}, n : 0..7] \cup [t : {"sreg"}, n : 0..3]
         \cup [t : {"expr"}, value : Int, forward : BOOLEAN]
         \cup [t : {"mem"}, seg : 0..255, regs : Seq(0..7), value : Int, forward : BOOLEAN]

VARIABLES
    lines, options,            \* never change
    assembler_pass, line, phase,
    current_address,
    rest,                      \* the tokens not yet read, p in the code
    trial,                     \* what match() keeps while it tries alternatives
    instruction,               \* the variables instruction_*, has_undefined, was_strict
    wide_blocks, wide_instr_read_at,
    code,                      \* the code of each line of this pass
    sizes,                     \* of each line in pass 0
    messages                   \* for each line of this pass

lineVars == <<lines, options, assembler_pass, line>>
wideVars == <<wide_blocks, wide_instr_read_at>>
outputVars == <<current_address, code, sizes>>
vars == <<lineVars, phase, rest, trial, instruction, wideVars, outputVars, messages>>

\* The messages of this line.
Told(kinds) == {<<assembler_pass, line, kind>> : kind \in kinds}

-----------------------------------------------------------------------------
(* Text. *)

Is(p, t) == p # <<>> /\ Head(p).t = t
IsOneOf(p, ts) == p # <<>> /\ Head(p).t \in ts
Skip(p, t) == IF Is(p, t) THEN Tail(p) ELSE p

\* avoid_strict(): STRICT counts only in front of a size.
IsStrict(p) == Is(p, "strict") /\ IsOneOf(Tail(p), {"byte", "word", "short", "near"})
AvoidStrict(p) == IF IsStrict(p) THEN Tail(p) ELSE p

Literals ==
    [AL |-> [t |-> "reg8", n |-> 0], AX |-> [t |-> "reg16", n |-> 0],
     CL |-> [t |-> "reg8", n |-> 1], DX |-> [t |-> "reg16", n |-> 2],
     ES |-> [t |-> "sreg", n |-> 0], CS |-> [t |-> "sreg", n |-> 1],
     SS |-> [t |-> "sreg", n |-> 2], DS |-> [t |-> "sreg", n |-> 3],
     FAR |-> [t |-> "far"]]

-----------------------------------------------------------------------------
(* Values. *)

IsInt8(value) == value \in -128..127
IsInt8In16(value) == (value + 128) % 65536 < 256
Bit(c, b) == (c \div b) % 2 = 1
WithBit(c, b) == IF Bit(c, b) THEN c ELSE c + b
IsMemory(addressing) == addressing < 192

\* Value and has_undefined after match_expression().
Unknown(token) == token.forward /\ assembler_pass = 0
Evaluated(token) ==
    [instruction EXCEPT !.value = IF Unknown(token) THEN 0 ELSE token.value,
                        !.undefined = Unknown(token)]

\* Is the instruction to be wide, as guessed in pass 0 and looked up in pass 2?
NoGuess == [wide |-> FALSE, read_at |-> wide_instr_read_at, bad_order |-> FALSE]

\* Faulty variant: the offset and the immediate of an instruction share an entry.
GuessInstruction(unknown, add) ==
    IF assembler_pass = 0 THEN [NoGuess EXCEPT !.wide = unknown]
    ELSE Query(wide_blocks, wide_instr_read_at, current_address)

Guess(unknown, add) ==
    IF assembler_pass = 0 THEN [NoGuess EXCEPT !.wide = unknown]
    ELSE Query(wide_blocks, wide_instr_read_at, current_address + add)
IsNew(guess) == assembler_pass = 0 /\ guess.wide

\* reg_add_to_addressing[]: rows for BX, SP, BP, SI and DI, columns for the r/m
\* codes 4 to 8, where 8 is [] and 9 stands for none.
RegAddToAddressing ==
    << <<0, 1, 9, 9, 7>>, <<9, 9, 9, 9, 9>>, <<2, 3, 9, 9, 6>>, <<9, 9, 2, 0, 4>>, <<9, 9, 3, 1, 5>> >>
AddRegister(state, reg) ==
    IF reg < 3 \/ state \notin 4..8 THEN 9 ELSE RegAddToAddressing[reg - 2][state - 3]
AddressingCode(regs) == FoldLeft(AddRegister, 8, regs)

\* match_addressing(): what p may begin with, and what that does.
Register(width) == IF width = 16 THEN "reg16" ELSE "reg8"
Addressable(p, width) ==
    Is(p, Register(width)) \/ (Is(p, "mem") /\ AddressingCode(Head(p).regs) # 9)

GuessOffset(token) ==
    IF options.opt_level <= 1 /\ AddressingCode(token.regs) # 8
    THEN Guess(Unknown(token), 0) ELSE NoGuess

EffectiveAddress(token, guess) ==
    LET state == AddressingCode(token.regs)
        offset == IF Unknown(token) THEN 0 ELSE token.value % 65536
        Set(addressing, width) ==
            [Evaluated(token) EXCEPT !.segment = token.seg, !.offset = offset,
                                     !.addressing = addressing, !.width = width]
    IN  IF state = 8 THEN Set(6, 2)
        ELSE IF guess.wide THEN Set(state + 128, IF assembler_pass = 0 THEN 3 ELSE 2)
        ELSE IF offset = 0 /\ state # 6 THEN Set(state, 0)
        ELSE IF IsInt8In16(offset) THEN Set(state + 64, 1)
        ELSE Set(state + 128, 2)

RegisterOperand(n) ==
    [instruction EXCEPT !.segment = 0, !.offset = 0, !.width = 0, !.addressing = 192 + n]

\* Faulty variant: the bit for a 16-bit offset is added and not set.
WidenedTwice(ins) ==
    IF ins.width = 0 THEN [ins EXCEPT !.addressing = @ + 128, !.width = 2]
    ELSE IF ins.width = 1 THEN [ins EXCEPT !.addressing = @ + 64, !.width = 2]
    ELSE ins

\* do_nasm_o0_immediate_compat for an unknown immediate.
Widened(ins) ==
    IF ins.width = 0 THEN [ins EXCEPT !.addressing = WithBit(@, 128), !.width = 2]
    ELSE IF ins.width = 1 THEN [ins EXCEPT !.addressing = @ + 64, !.width = 2]
    ELSE ins

-----------------------------------------------------------------------------
(* match(): the alternatives. *)

Alternatives == Row(trial.name)

Fresh(name, p) ==
    [name |-> name, start |-> p, alternative |-> 0, pattern |-> <<>>, encode |-> <<>>,
     short |-> FALSE, add_wide |-> FALSE, imm8 |-> FALSE, opt_lea |-> FALSE, segment |-> 0]

\* Faulty variant: the segment of an earlier match stays.
TryKeepsSegment(now, ins) ==
    LET k == now.alternative + 1
    IN  /\ trial' = [now EXCEPT !.alternative = k, !.pattern = Row(now.name)[k].pattern,
                                !.encode = Row(now.name)[k].encode]
        /\ instruction' = [ins EXCEPT !.width = 0]
        /\ rest' = now.start
        /\ phase' = "match"

\* Faulty variant: a size word that a failed alternative has read is not read again.
TryBehindSize(now, ins) ==
    LET k == now.alternative + 1
    IN  /\ trial' = [now EXCEPT !.alternative = k, !.pattern = Row(now.name)[k].pattern,
                                !.encode = Row(now.name)[k].encode]
        /\ instruction' = [ins EXCEPT !.segment = 0, !.width = 0]
        /\ rest' = IF IsOneOf(now.start, {"byte", "word"}) /\ k > 1 THEN Tail(now.start) ELSE now.start
        /\ phase' = "match"

\* next_pattern, for the alternative behind that of now.
Try(now, ins) ==
    LET k == now.alternative + 1
    IN  /\ trial' = [now EXCEPT !.alternative = k, !.pattern = Row(now.name)[k].pattern,
                                !.encode = Row(now.name)[k].encode]
        /\ instruction' = [ins EXCEPT !.segment = 0, !.width = 0]
        /\ rest' = now.start
        /\ phase' = "match"

\* The token of the pattern fits, and p is left to be read; or mismatch.
Proceed(fits, now, ins, p, guess) ==
    LET more == now.alternative < Len(Alternatives)
    IN  /\ IF fits
           THEN /\ trial' = [now EXCEPT !.pattern = Tail(@)] /\ instruction' = ins /\ rest' = p
                /\ UNCHANGED phase
           ELSE IF more THEN Try(now, ins)
           ELSE phase' = "line" /\ trial' = now /\ instruction' = ins /\ rest' = <<>>
        /\ wide_instr_read_at' = guess.read_at
        /\ messages' = messages
               \cup Told(IF guess.bad_order THEN {"bad_instr_order"} ELSE {})
               \cup Told(IF fits \/ more THEN {} ELSE {"error_in_instruction"})
        /\ UNCHANGED <<lineVars, outputVars, wide_blocks>>

Simply(fits, ins, p) == Proceed(fits, trial, ins, p, NoGuess)

ThisToken == Head(trial.pattern)
AtAny(tokens) == phase = "match" /\ trial.pattern # <<>> /\ ThisToken \in tokens

\* j to o: a register or memory.  In front of an immediate, its size may be that
\* of the memory operand.
MatchAddressing ==
    /\ AtAny({"j", "k", "l", "m", "n", "o"})
    /\ LET bits == IF ThisToken \in {"j", "l"} THEN 8 ELSE 16
           sized == ThisToken \notin {"n", "o"} /\ IsOneOf(rest, {"byte", "word"})
           p == IF sized THEN Tail(rest) ELSE rest
           possible == /\ sized => Head(rest).t = IF bits = 8 THEN "byte" ELSE "word"
                       /\ ThisToken \in {"n", "o"} => Is(p, "mem")
                       /\ Addressable(p, bits)
           unsized == ThisToken \in {"l", "m"} /\ ~sized /\ Is(p, "mem")
           isFirst == Len(trial.pattern) > 2 /\ trial.pattern[3] \in {"s", "t", "u"}
           sizeBehind == /\ Is(Tail(p), ",")
                         /\ Is(AvoidStrict(Tail(Tail(p))), IF bits = 8 THEN "byte" ELSE "word")
           isMemory == possible /\ Is(p, "mem") /\ (unsized => isFirst)
           guess == IF isMemory THEN GuessOffset(Head(p)) ELSE NoGuess
           ins == IF isMemory THEN EffectiveAddress(Head(p), guess)
                  ELSE IF possible /\ ~unsized THEN RegisterOperand(Head(p).n) ELSE instruction
       IN  Proceed(possible /\ (unsized => isFirst /\ sizeBehind),
                   [trial EXCEPT !.opt_lea = @ \/ (ThisToken = "o" /\ options.opt_lea)],
                   ins, IF possible THEN Tail(p) ELSE p, guess)

\* q, r, p: a register.
MatchRegister ==
    /\ AtAny({"q", "r", "p"})
    /\ LET p == Skip(rest, IF ThisToken = "q" THEN "byte" ELSE "word")
           fits == Is(p, Register(IF ThisToken = "q" THEN 8 ELSE 16))
           n == IF fits THEN Head(p).n ELSE instruction.register
           ins == [instruction EXCEPT !.register = n,
                                      !.addressing = IF ThisToken = "p" THEN 192 + n ELSE @]
       IN  Simply(fits, ins, IF fits THEN Tail(p) ELSE p)

\* e, h, i, t, u: an immediate of a fixed size.
MatchImmediate ==
    /\ AtAny({"e", "h", "i", "t", "u"})
    /\ LET p == Skip(AvoidStrict(rest), IF ThisToken \in {"h", "t"} THEN "byte" ELSE "word")
           fits == Is(p, "expr")
           value == Evaluated(Head(p))
           compatible == ThisToken \in {"t", "u"} /\ options.opt_level = 0 /\ IsMemory(value.addressing)
           guess == IF compatible THEN Guess(value.undefined, 1) ELSE NoGuess
       IN  IF ~fits THEN Simply(FALSE, instruction, rest)
           ELSE Proceed(TRUE,
                        [trial EXCEPT !.imm8 = @ \/ ThisToken = "t", !.add_wide = @ \/ IsNew(guess)],
                        IF guess.wide THEN Widened(value)
                        ELSE [value EXCEPT !.offset = IF ThisToken = "e" THEN value.value ELSE @],
                        Tail(p), guess)

\* Does a push or an imul take the number for a small one that is small modulo 2^16?
Small(value) ==
    LET k == Len(Alternatives[trial.alternative].pattern) - Len(trial.pattern)
        behindComma == Alternatives[trial.alternative].pattern[k] = ","
    IN  IF options.opt_int \/ behindComma THEN IsInt8In16(value) ELSE IsInt8(value)

\* s: an immediate that may be encoded in a byte.
MatchSigned ==
    /\ AtAny({"s"})
    /\ LET q == AvoidStrict(rest)
           size == IF IsOneOf(q, {"byte", "word"}) THEN Head(q).t ELSE "none"
           p == IF size = "none" THEN q ELSE Tail(q)
           value == Evaluated(Head(p))
           isPush == trial.name = "PUSH"
           level == options.opt_level
           compatible == level = 0 /\ (size = "none" => ~isPush) /\ IsMemory(value.addressing)
           guess == IF compatible \/ (level = 1 /\ size = "none")
                    THEN Guess(value.undefined, 1) ELSE NoGuess
           detect == \/ level > 1 /\ (size = "none" \/ (size = "word" /\ ~IsStrict(rest)))
                     \/ level = 1 /\ size = "none" /\ ~guess.wide
       IN  IF ~Is(p, "expr") THEN Simply(FALSE, instruction, rest)
           ELSE Proceed(TRUE,
                        [trial EXCEPT !.imm8 = IF detect THEN Small(value.value) ELSE @ \/ size = "byte",
                                      !.add_wide = @ \/ IsNew(guess)],
                        IF compatible /\ guess.wide THEN Widened(value) ELSE value,
                        Tail(p), guess)

\* g: an immediate for AX, unless a byte is enough.
MatchGeneral ==
    /\ AtAny({"g"})
    /\ LET q == AvoidStrict(rest)
           p == Skip(q, "word")
           isFree == ~(Is(q, "word") /\ IsStrict(rest))
           fits == Is(p, "expr")
           value == Evaluated(Head(p))
           better == isFree /\ options.opt_level > 1 /\ ~options.opt_int /\ IsInt8(value.value)
       IN  IF ~fits THEN Simply(FALSE, instruction, rest)
           ELSE Simply(~better, value, Tail(p))

\* 1: a shift by one, or by any number from the 186 on.
MatchShift ==
    /\ AtAny({"1"})
    /\ LET p == Skip(AvoidStrict(rest), "byte")
           value == Evaluated(Head(p))
           guess == IF options.opt_level <= 1 THEN Guess(value.undefined, 1) ELSE NoGuess
           long == guess.wide \/ (~value.undefined /\ value.value # 1)
           fits == ~(options.cpu_level = 0 /\ long /\ (assembler_pass > 1 \/ guess.wide))
       IN  IF ~Is(p, "expr") THEN Simply(FALSE, instruction, rest)
           ELSE Proceed(fits,
                        [trial EXCEPT !.imm8 = @ \/ (fits /\ long), !.add_wide = @ \/ (fits /\ IsNew(guess))],
                        IF fits /\ guess.wide /\ options.opt_level = 0 /\ IsMemory(value.addressing)
                        THEN Widened(value) ELSE value,
                        Tail(p), guess)

\* a, c: the target of a short jump.
MatchShortJump ==
    /\ AtAny({"a", "c"})
    /\ LET q == AvoidStrict(rest)
           short == Is(q, "short")
           p == Skip(q, "short")
           value == Evaluated(Head(p))
           free == ThisToken = "c" /\ ~short
           guess == IF free /\ options.opt_level <= 1 THEN Guess(value.undefined, 1) ELSE NoGuess
           distance == IF value.undefined THEN -2 ELSE value.value - (current_address + 2)
       IN  IF ~Is(p, "expr") THEN Simply(FALSE, instruction, rest)
           ELSE Proceed(free => ~guess.wide /\ IsInt8(distance),
                        [trial EXCEPT !.short = short, !.add_wide = @ \/ IsNew(guess)],
                        [value EXCEPT !.value = distance], Tail(p), guess)

\* b: the target of a near jump.
MatchNearJump ==
    /\ AtAny({"b"})
    /\ LET q == AvoidStrict(rest)
           p == IF IsOneOf(q, {"near", "word"}) THEN Tail(q) ELSE q
           value == Evaluated(Head(p))
       IN  IF ~Is(p, "expr") THEN Simply(FALSE, instruction, rest)
           ELSE Simply(TRUE, [value EXCEPT !.value = @ - (current_address + 3)], Tail(p))

\* f: a segment and an offset.
MatchFar ==
    /\ AtAny({"f"})
    /\ LET p == AvoidStrict(rest)
           fits == Len(p) > 2 /\ Is(p, "expr") /\ p[2].t = ":" /\ p[3].t = "expr"
       IN  IF ~fits THEN Simply(FALSE, instruction, rest)
           ELSE Proceed(TRUE, [trial EXCEPT !.segment = Evaluated(p[1]).value % 65536],
                        Evaluated(p[3]), Tail(Tail(Tail(p))), NoGuess)

\* v, w: a size that may be left out.
MatchSize ==
    /\ AtAny({"v", "w"})
    /\ Simply(TRUE, instruction, Skip(AvoidStrict(rest), IF ThisToken = "v" THEN "byte" ELSE "word"))

MatchCpu ==
    /\ AtAny({"x", "y"})
    /\ Simply(options.cpu_level >= IF ThisToken = "x" THEN 1 ELSE 2, instruction, rest)

MatchNoComma == AtAny({"."}) /\ Simply(~Is(rest, ","), instruction, rest)
MatchComma == AtAny({","}) /\ Simply(Is(rest, ","), instruction, Skip(rest, ","))

MatchLiteral ==
    /\ AtAny(DOMAIN Literals)
    /\ LET fits == rest # <<>> /\ Head(rest) = Literals[ThisToken]
       IN  Simply(fits, instruction, IF fits THEN Tail(rest) ELSE rest)

-----------------------------------------------------------------------------
(* match(), from do_encode: the code of an alternative that has matched. *)

Low(value) == value % 256
High(value) == (value \div 256) % 256
Word(value) == <<Low(value), High(value)>>

\* Faulty variant: the two entries are in the wrong order.
RecordedImmediateFirst(blocks) ==
    LET Entries(b, add) == IF add.new THEN AddEntry(b, current_address + add.by) ELSE b
    IN  FoldLeft(Entries, blocks,
                 <<[by |-> 1, new |-> trial.add_wide], [by |-> 0, new |-> instruction.width = 3]>>)

\* Once for each instruction that is encoded, and not for each match.
Recorded(blocks) ==
    LET offset == IF instruction.width = 3 THEN AddEntry(blocks, current_address) ELSE blocks
    IN  IF trial.add_wide THEN AddEntry(offset, current_address + 1) ELSE offset

DefaultSegment(addressing) == IF addressing # 6 /\ addressing % 8 \in {2, 3, 6} THEN 54 ELSE 62

SegmentPrefix ==
    IF \/ instruction.segment = 0 \/ trial.opt_lea
       \/ /\ options.opt_segreg
          /\ \/ ~IsMemory(instruction.addressing)
             \/ instruction.segment = DefaultSegment(instruction.addressing)
    THEN <<>> ELSE <<instruction.segment>>

\* LEA of a constant or of a register is a MOV.
LeaOfConstant == trial.opt_lea /\ instruction.addressing = 6
LeaSource ==
    CASE instruction.addressing = 4 -> {6}
      [] instruction.addressing = 5 -> {7}
      [] instruction.addressing = 7 -> {3}
      [] instruction.addressing = 70 /\ instruction.offset = 0 /\ instruction.width = 1 -> {5}
      [] OTHER -> {}
LeaOfRegister == trial.opt_lea /\ LeaSource # {}

FirstByte == IF Head(trial.encode)[1] = "byte" THEN Head(trial.encode)[2] ELSE 0
IsAccumulatorMove ==
    FirstByte \in 136..139 /\ instruction.addressing = 6 /\ instruction.register = 0
IsFarConditional ==
    FirstByte \in 112..127 /\ ~trial.short /\ ~IsInt8(instruction.value) /\ ~instruction.undefined

Displacement ==
    CASE instruction.width = 0 -> <<>>
      [] instruction.width = 1 -> <<Low(instruction.offset)>>
      [] OTHER -> Word(instruction.offset)
ModrmByte(field) ==
    ((instruction.addressing \div 64) * 64) + field * 8 + (instruction.addressing % 8)

ShortOpcode == [s |-> 131, g |-> 192, h |-> 193, l |-> 106, m |-> 107]
LongOpcode == [s |-> 129, g |-> 208, h |-> 209, l |-> 104, m |-> 105]

\* The bytes of one token of the encode.
Bytes(token) ==
    LET kind == token[1] IN
    CASE kind = "byte" -> <<token[2]>>
      [] kind = "plus" -> <<token[2] + instruction.register>>
      [] kind = "modrm" -> <<ModrmByte(token[2])>> \o Displacement
      [] kind = "drd" -> <<ModrmByte(instruction.register)>> \o Displacement
      [] kind \in {"i", "a"} \/ (kind \in {"j", "k"} /\ trial.imm8) -> <<Low(instruction.value)>>
      [] kind = "b" \/ (kind = "j" /\ ~trial.imm8) -> Word(instruction.value)
      [] kind \in DOMAIN ShortOpcode
         -> <<IF trial.imm8 THEN ShortOpcode[kind] ELSE LongOpcode[kind]>>
      [] kind = "f" -> Word(instruction.value) \o Word(trial.segment)
      [] kind = "e" -> Word(instruction.offset)
      [] kind = "+" \/ (kind = "k" /\ ~trial.imm8) -> <<>>

AllBytes(tokens) == FlattenSeq([i \in DOMAIN tokens |-> Bytes(tokens[i])])

Encoded ==
    IF LeaOfConstant THEN <<184 + instruction.register>> \o Word(instruction.value)
    ELSE IF LeaOfRegister
    THEN <<137, 192 + (CHOOSE n \in LeaSource : TRUE) * 8 + instruction.register>>
    ELSE SegmentPrefix \o
         IF IsAccumulatorMove
         THEN <<IF FirstByte < 138 THEN FirstByte + 26 ELSE FirstByte + 22>> \o Word(instruction.offset)
         ELSE IF IsFarConditional
         THEN <<FirstByte + 1 - 2 * (FirstByte % 2), 3, 233>> \o Word(instruction.value - 3)
         ELSE AllBytes(trial.encode)

HasToken(kind) == ~IsFarConditional /\ \E i \in DOMAIN trial.encode : trial.encode[i][1] = kind
NearDistance == IF IsFarConditional THEN instruction.value - 3 ELSE instruction.value

JumpErrors ==
    (IF HasToken("a") /\ ~IsInt8(instruction.value) THEN {"short_jump"} ELSE {})
    \cup (IF (HasToken("b") \/ IsFarConditional) /\ NearDistance \notin -65536..65535
          THEN {"near_jump"} ELSE {})

\* A prefix goes on with the next name; behind any other instruction, the line ends.
Encode ==
    /\ phase = "match" /\ trial.pattern = <<>>
    /\ LET bytes == Encoded
           isPrefix == HasToken("+")
       IN  /\ code' = [code EXCEPT ![line] = @ \o bytes]
           /\ current_address' = current_address + Len(bytes)
           /\ wide_blocks' = Recorded(wide_blocks)
           /\ phase' = IF isPrefix THEN "name" ELSE "line"
           /\ messages' = messages
                  \cup Told(IF assembler_pass > 1 THEN JumpErrors ELSE {})
                  \cup Told(IF ~isPrefix /\ rest # <<>>
                            THEN {"extra_characters", "error_in_instruction"} ELSE {})
    /\ UNCHANGED <<lineVars, rest, trial, instruction, wide_instr_read_at, sizes>>

-----------------------------------------------------------------------------
(* process_instruction(), and the lines and passes around it. *)

EndOfName == rest = <<>> \/ IsOneOf(rest, {"mem", ",", ":"})

\* separate(): what does not begin with the character of a name is not looked at.
Separate ==
    /\ phase = "name"
    /\ \/ /\ EndOfName
          /\ phase' = "line"
          /\ UNCHANGED <<rest, trial, instruction, messages>>
       \/ /\ ~EndOfName /\ Is(rest, "name")
          /\ Try(Fresh(Head(rest).name, Tail(rest)), instruction)
          /\ UNCHANGED messages
       \/ /\ ~EndOfName /\ ~Is(rest, "name")
          /\ phase' = "line"
          /\ messages' = messages \cup Told({"unknown_instruction"})
          /\ UNCHANGED <<rest, trial, instruction>>
    /\ UNCHANGED <<lineVars, wideVars, outputVars>>

NextLine ==
    /\ phase = "line" /\ line < Len(lines)
    /\ line' = line + 1 /\ rest' = lines[line + 1] /\ phase' = "name"
    /\ UNCHANGED <<lines, options, assembler_pass, trial, instruction, wideVars, outputVars, messages>>

NoCode == [k \in DOMAIN lines |-> <<>>]

\* Behind pass 0 without errors comes pass 2; the variables of match() stay.
EndPass ==
    /\ phase = "line" /\ line = Len(lines)
    /\ IF assembler_pass = 0 /\ messages = {}
       THEN /\ assembler_pass' = 2 /\ line' = 0 /\ phase' = "line"
            /\ sizes' = [k \in DOMAIN lines |-> Len(code[k])]
            /\ code' = NoCode
            /\ current_address' = 0
            /\ wide_instr_read_at' = NoPosition
       ELSE phase' = "done" /\ UNCHANGED <<assembler_pass, line, outputVars, wide_instr_read_at>>
    /\ UNCHANGED <<lines, options, rest, trial, instruction, wide_blocks, messages>>

Done == phase = "done" /\ UNCHANGED vars

Init ==
    /\ lines \in Programs /\ options \in Options
    /\ assembler_pass = 0 /\ line = 0 /\ phase = "line" /\ rest = <<>>
    /\ trial = Fresh("", <<>>)
    /\ instruction = [segment |-> 0, offset |-> 0, width |-> 0, addressing |-> 0, register |-> 0,
                      value |-> 0, undefined |-> FALSE]
    /\ wide_blocks = <<>> /\ wide_instr_read_at = NoPosition
    /\ current_address = 0 /\ code = NoCode /\ sizes = [k \in DOMAIN lines |-> 0]
    /\ messages = {}

Match ==
    \/ MatchAddressing \/ MatchRegister \/ MatchImmediate \/ MatchSigned \/ MatchGeneral
    \/ MatchShift \/ MatchShortJump \/ MatchNearJump \/ MatchFar \/ MatchSize \/ MatchCpu
    \/ MatchNoComma \/ MatchComma \/ MatchLiteral

Next == NextLine \/ Separate \/ Match \/ Encode \/ EndPass \/ Done

Spec == Init /\ [][Next]_vars

=============================================================================
